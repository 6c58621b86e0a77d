--------------------------- MODULE SessionsProofs ---------------------------
(***************************************************************************)
(* Proofs about sessions at both ends.  RefreshSessions: every safety      *)
(* property, for every number of accounts, sessions and requests.          *)
(* ClientSession: that a tab agrees with itself and presents no cookie     *)
(* twice, for every number of accounts, of requests in flight and of       *)
(* sessions.                                                               *)
(***************************************************************************)
EXTENDS MCSessions, SequenceTheorems, TLAPS

-----------------------------------------------------------------------------
(* The rows of the server.                                                 *)

\* What the columns of a row promise: an account, a family that starts at a
\* committed login, and a predecessor that is spent once the row is committed.
RowsInv ==
  \A s \in Sessions : rowState[s] # "absent" =>
    /\ owner[s] \in Users
    /\ family[s] \in Sessions
    /\ Committed(family[s])
    /\ (Committed(s) /\ parent[s] # None) => rowState[parent[s]] = "revoked"

\* The locals a request relies on between two statements.
UsesToken == {"checkAccount", "findSuccessor", "rotateConsume", "rotateInsert",
              "rotateCommit", "familySnapshot", "familyApply", "logoutApply"}
LocalsInv ==
  \A r \in Requests :
    /\ pc[r] \in UsesToken => tok[r] \in Sessions /\ Committed(tok[r])
    /\ pc[r] \in {"loginInsert", "guardSnapshot", "guardApply"} => subject[r] \in Users

\* A rotation holds the lock of a live row from its compare-and-swap to its
\* commit, and nobody else locks session rows.
Rotating(r) == pc[r] \in {"rotateInsert", "rotateCommit"}
RowLockInv ==
  /\ \A r \in Requests : Rotating(r) => Live(tok[r]) /\ rowLock[tok[r]] = r
  /\ \A s \in Sessions : rowLock[s] # None => Rotating(rowLock[s]) /\ tok[rowLock[s]] = s

\* The row a rotation has inserted and not committed.
FreshInv ==
  /\ \A r \in Requests :
       /\ fresh[r] # None => pc[r] = "rotateCommit"
       /\ pc[r] = "rotateCommit" =>
            /\ fresh[r] \in Sessions
            /\ rowState[fresh[r]] = "inserting"
            /\ parent[fresh[r]] = tok[r]
            /\ owner[fresh[r]] = owner[tok[r]]
            /\ family[fresh[r]] = family[tok[r]]
            /\ gen[fresh[r]] = gen[tok[r]]
            /\ r \in keyShare[owner[tok[r]]]
  /\ \A r, q \in Requests : (fresh[r] = fresh[q] /\ fresh[r] # None) => r = q

\* The users row: its exclusive lock excludes the foreign-key locks, so that the
\* rows a guarded revocation read are still all of the account's live rows when
\* it revokes them.
UserLockInv ==
  /\ \A u \in Users : userLock[u] # None =>
       /\ keyShare[u] = {}
       /\ pc[userLock[u]] \in {"guardSnapshot", "guardApply"}
       /\ subject[userLock[u]] = u
  /\ \A r \in Requests : pc[r] \in {"guardSnapshot", "guardApply"} => userLock[subject[r]] = r
  /\ \A r \in Requests, s \in Sessions :
       (pc[r] = "guardApply" /\ Live(s) /\ owner[s] = subject[r]) => s \in cand[r]

Inv ==
  /\ TypeOK
  /\ RowsInv
  /\ LocalsInv
  /\ RowLockInv
  /\ FreshInv
  /\ UserLockInv
  /\ GuardedRevocationComplete
  /\ OneLivePerFamily
  /\ SingleSuccessor

-----------------------------------------------------------------------------
\* Before the first request the invariant holds of the empty table.
LEMMA InitInv == Init => Inv
BY NoneAssumption, SessionAssumption DEF Init, Inv, TypeOK, RowsInv, LocalsInv, RowLockInv, FreshInv,
   UserLockInv, GuardedRevocationComplete, OneLivePerFamily, SingleSuccessor, UsesToken, Rotating,
   Committed, Live, Status

\* The first statement of every request preserves the invariant.
LEMMA StartInv == ASSUME Inv, NEW r \in Requests, Start(r) PROVE Inv'
<1> USE NoneAssumption, SessionAssumption DEF Inv, TypeOK, RowsInv, LocalsInv, RowLockInv, FreshInv,
        UserLockInv, GuardedRevocationComplete, OneLivePerFamily, SingleSuccessor, UsesToken, Rotating,
        Committed, Live, LiveOf, Status, Goto, rowVars, lockVars, reqVars
<1>1. ASSUME NEW u \in Users, StartLogin(r, u) PROVE Inv'
  BY <1>1, SMTT(60) DEF StartLogin
<1>2. ASSUME NEW u \in Users, LogoutAllSnapshot(r, u) PROVE Inv'
  BY <1>2, SMTT(60) DEF LogoutAllSnapshot
<1>3. ASSUME NEW u \in Users, LockUserRow(r, u) PROVE Inv'
  BY <1>3, SMTT(60) DEF LockUserRow
<1>4. ASSUME NEW t \in Sessions, StartRefresh(r, t) PROVE Inv'
  BY <1>4, SMTT(60) DEF StartRefresh
<1>5. ASSUME NEW t \in Sessions, StartLogout(r, t) PROVE Inv'
  BY <1>5, SMTT(60) DEF StartLogout
<1> QED
  BY <1>1, <1>2, <1>3, <1>4, <1>5 DEF Start

\* The later statements of a refresh, where a row is inserted and committed.
LEMMA RefreshInv ==
  ASSUME Inv, NEW r \in Requests,
         \/ FindSuccessor(r) \/ CheckAccount(r)
         \/ RotateConsume(r) \/ RotateInsert(r) \/ RotateCommit(r)
  PROVE  Inv'
<1> USE NoneAssumption, SessionAssumption DEF Inv, TypeOK, RowsInv, LocalsInv, RowLockInv, FreshInv,
        UserLockInv, GuardedRevocationComplete, OneLivePerFamily, SingleSuccessor, UsesToken, Rotating,
        Committed, Live, Status, Goto, Answer, rowVars, lockVars, reqVars
<1>1. CASE FindSuccessor(r)
  <2>1. CASE pc' = [pc EXCEPT ![r] = "familySnapshot"] /\ UNCHANGED <<tok, subject, cand, fresh>>
    BY <1>1, <2>1, SMTT(60) DEF FindSuccessor
  <2>2. CASE Answer(r)
    BY <1>1, <2>2, SMTT(60) DEF FindSuccessor
  <2> QED
    BY <1>1, <2>1, <2>2 DEF FindSuccessor
<1>2. CASE CheckAccount(r)
  <2>1. CASE pc' = [pc EXCEPT ![r] = "rotateConsume"] /\ UNCHANGED <<tok, subject, cand, fresh>>
    BY <1>2, <2>1, SMTT(60) DEF CheckAccount
  <2>2. CASE Answer(r)
    BY <1>2, <2>2, SMTT(60) DEF CheckAccount
  <2> QED
    BY <1>2, <2>1, <2>2 DEF CheckAccount
<1>3. CASE RotateConsume(r)
  <2>1. CASE Live(tok[r])
    BY <1>3, <2>1, SMTT(60) DEF RotateConsume
  <2>2. CASE ~Live(tok[r])
    BY <1>3, <2>2, SMTT(60) DEF RotateConsume
  <2> QED
    BY <2>1, <2>2
<1>4. CASE RotateInsert(r)
  BY <1>4, SMTT(60) DEF RotateInsert
<1>5. CASE RotateCommit(r)
  \* The successor becomes the live row of its family in the step that spends
  \* its predecessor, and no revocation of the account has been committed since
  \* it was inserted: the rotation holds the users row FOR KEY SHARE.
  <2>1. TypeOK' /\ LocalsInv'
    BY <1>5, SMTT(60) DEF RotateCommit
  <2>2. RowsInv'
    BY <1>5, SMTT(60) DEF RotateCommit
  <2>3. RowLockInv'
    BY <1>5, SMTT(60) DEF RotateCommit
  <2>4. FreshInv'
    BY <1>5, SMTT(60) DEF RotateCommit
  <2>5. UserLockInv' /\ GuardedRevocationComplete'
    BY <1>5, SMTT(60) DEF RotateCommit
  <2>6. OneLivePerFamily' /\ SingleSuccessor'
    <3>1. /\ tok[r] \in Sessions /\ fresh[r] \in Sessions
          /\ Live(tok[r]) /\ rowState[fresh[r]] = "inserting"
          /\ family[fresh[r]] = family[tok[r]] /\ parent[fresh[r]] = tok[r]
      BY <1>5, SMTT(60) DEF RotateCommit
    <3>2. /\ \A s \in Sessions :
               rowState'[s] = IF s = fresh[r] THEN "live"
                              ELSE IF s = tok[r] THEN "revoked" ELSE rowState[s]
          /\ family' = family /\ parent' = parent
      BY <1>5, <3>1, SMTT(60) DEF RotateCommit
    <3>3. \A s \in Sessions : Committed(s) /\ parent[s] # None => rowState[parent[s]] = "revoked"
      OBVIOUS
    <3>4. OneLivePerFamily /\ SingleSuccessor
      OBVIOUS
    <3> HIDE DEF Inv, TypeOK, RowsInv, LocalsInv, RowLockInv, FreshInv, UserLockInv,
                 GuardedRevocationComplete
    <3>5. OneLivePerFamily'
      BY <3>1, <3>2, <3>4, SMTT(60)
    <3>6. SingleSuccessor'
      BY <3>1, <3>2, <3>3, <3>4, SMTT(60)
    <3> QED
      BY <3>5, <3>6
  <2> QED
    BY <2>1, <2>2, <2>3, <2>4, <2>5, <2>6 DEF Inv
<1> QED
  BY <1>1, <1>2, <1>3, <1>4, <1>5

\* The later statements of logins and of everything that revokes.
LEMMA RevokeInv ==
  ASSUME Inv, NEW r \in Requests,
         \/ CreateSession(r)
         \/ FamilySnapshot(r) \/ FamilyApply(r)
         \/ LogoutAllApply(r) \/ LogoutApply(r)
         \/ GuardSnapshot(r) \/ AdminStatusCommit(r) \/ PasswordResetCommit(r)
  PROVE  Inv'
<1> USE NoneAssumption, SessionAssumption DEF Inv, TypeOK, RowsInv, LocalsInv, RowLockInv, FreshInv,
        UserLockInv, GuardedRevocationComplete, OneLivePerFamily, SingleSuccessor, UsesToken, Rotating,
        Committed, Live, LiveOf, Unlocked, Revoke, Status, Goto, Answer,
        rowVars, lockVars, reqVars
<1>1. CASE CreateSession(r)
  BY <1>1, SMTT(60) DEF CreateSession
<1>2. CASE FamilySnapshot(r)
  BY <1>2, SMTT(60) DEF FamilySnapshot
<1>3. CASE FamilyApply(r)
  BY <1>3, SMTT(60) DEF FamilyApply
<1>4. CASE LogoutAllApply(r)
  BY <1>4, SMTT(60) DEF LogoutAllApply
<1>5. CASE LogoutApply(r)
  BY <1>5, SMTT(60) DEF LogoutApply
<1>6. CASE GuardSnapshot(r)
  BY <1>6, SMTT(60) DEF GuardSnapshot
<1>7. CASE AdminStatusCommit(r)
  BY <1>7, SMTT(60) DEF AdminStatusCommit, RevokeUnderLock
<1>8. CASE PasswordResetCommit(r)
  BY <1>8, SMTT(60) DEF PasswordResetCommit, RevokeUnderLock
<1> QED
  BY <1>1, <1>2, <1>3, <1>4, <1>5, <1>6, <1>7, <1>8

\* A transaction that is rolled back leaves no lock and no row behind.
LEMMA RollbackInv == ASSUME Inv, NEW r \in Requests, Rollback(r) PROVE Inv'
BY NoneAssumption, SessionAssumption, SMTT(60) DEF Inv, TypeOK, RowsInv, LocalsInv, RowLockInv, FreshInv,
   UserLockInv, GuardedRevocationComplete, OneLivePerFamily, SingleSuccessor, UsesToken, Rotating,
   Committed, Live, Goto, Answer, Rollback

\* The invariant is inductive.
LEMMA InvStep == Inv /\ [Next]_vars => Inv'
<1> SUFFICES ASSUME Inv, [Next]_vars PROVE Inv'
  OBVIOUS
<1>1. ASSUME NEW r \in Requests, Start(r) PROVE Inv'
  BY <1>1, StartInv
<1>2. ASSUME NEW r \in Requests, Continue(r) PROVE Inv'
  BY <1>2, RefreshInv, RevokeInv DEF Continue
<1>3. ASSUME NEW r \in Requests, Rollback(r) PROVE Inv'
  BY <1>3, RollbackInv
<1>4. ASSUME NEW s \in Sessions, Expire(s) PROVE Inv'
  BY <1>4 DEF Expire, Inv, TypeOK, RowsInv, LocalsInv, RowLockInv, FreshInv, UserLockInv,
     GuardedRevocationComplete, OneLivePerFamily, SingleSuccessor, UsesToken, Rotating, Committed, Live,
     rowVars, lockVars, reqVars
<1>5. CASE UNCHANGED vars
  BY <1>5 DEF vars, Inv, TypeOK, RowsInv, LocalsInv, RowLockInv, FreshInv, UserLockInv,
     GuardedRevocationComplete, OneLivePerFamily, SingleSuccessor, UsesToken, Rotating, Committed, Live,
     rowVars, lockVars, reqVars
<1> QED
  BY <1>1, <1>2, <1>3, <1>4, <1>5 DEF Next, Abort, DeadlockVictim

\* The invariant holds in every reachable state.
THEOREM Invariance == Spec => []Inv
<1>1. Init => Inv
  BY InitInv
<1>2. Inv /\ [Next]_vars => Inv'
  BY InvStep
<1> QED
  BY <1>1, <1>2, PTL DEF Spec

\* Every variable keeps its type.
THEOREM TypeCorrectness == Spec => []TypeOK
<1>1. Inv => TypeOK
  BY DEF Inv
<1> QED
  BY Invariance, <1>1, PTL

\* However many requests present a token, one successor is committed for it.
THEOREM TokenSpentOnce == Spec => []SingleSuccessor
<1>1. Inv => SingleSuccessor
  BY DEF Inv
<1> QED
  BY Invariance, <1>1, PTL

\* A login never has two usable refresh tokens.
THEOREM FamilyNeverForks == Spec => []OneLivePerFamily
<1>1. Inv => OneLivePerFamily
  BY DEF Inv
<1> QED
  BY Invariance, <1>1, PTL

\* A status change or a password reset leaves no earlier session usable, not even
\* through a rotation that was in flight.
THEOREM RevocationIsComplete == Spec => []GuardedRevocationComplete
<1>1. Inv => GuardedRevocationComplete
  BY DEF Inv
<1> QED
  BY Invariance, <1>1, PTL

-----------------------------------------------------------------------------
\* A token gets its successor in the step that spends it (rotateSession):
\* nothing that was revoked is rotated, however the requests interleave.
THEOREM RotationSpendsLiveToken == Spec => RotatedWhileLive
<1> DEFINE Rotated == \A s \in Sessions :
             (~Committed(s) /\ Committed(s)' /\ parent'[s] # None) => Live(parent'[s])
<1>1. Inv /\ [Next]_vars => Rotated
  <2> SUFFICES ASSUME Inv, [Next]_vars, NEW s \in Sessions,
                      ~Committed(s), Committed(s)', parent'[s] # None
               PROVE  Live(parent'[s])
    OBVIOUS
  <2> USE DEF Committed, Live, rowVars, lockVars, reqVars
  <2>1. ASSUME NEW r \in Requests, RotateCommit(r) PROVE Live(parent'[s])
    BY <2>1, SMTT(60) DEF RotateCommit, Inv, FreshInv, RowLockInv, Rotating, TypeOK
  <2>2. ASSUME NEW r \in Requests, CreateSession(r) PROVE FALSE
    BY <2>2, SMTT(60) DEF CreateSession, Inv, TypeOK
  <2>3. ASSUME NEW r \in Requests, RotateInsert(r) PROVE FALSE
    BY <2>3, SMTT(60) DEF RotateInsert, Inv, TypeOK
  <2>4. ASSUME NEW r \in Requests, Start(r) PROVE FALSE
    BY <2>4 DEF Start, StartLogin, LogoutAllSnapshot, LockUserRow, StartRefresh, StartLogout
  <2>5. ASSUME NEW r \in Requests,
               \/ FindSuccessor(r) \/ CheckAccount(r) \/ RotateConsume(r)
               \/ FamilySnapshot(r) \/ GuardSnapshot(r)
        PROVE  FALSE
    BY <2>5 DEF FindSuccessor, CheckAccount, RotateConsume, FamilySnapshot, GuardSnapshot
  <2>6. ASSUME NEW r \in Requests,
               \/ FamilyApply(r) \/ LogoutAllApply(r)
               \/ AdminStatusCommit(r) \/ PasswordResetCommit(r)
        PROVE  FALSE
    BY <2>6, SMTT(60) DEF FamilyApply, LogoutAllApply, AdminStatusCommit, PasswordResetCommit,
       RevokeUnderLock, Revoke, LiveOf, Inv, TypeOK
  <2>7. ASSUME NEW r \in Requests, LogoutApply(r) PROVE FALSE
    BY <2>7, SMTT(60) DEF LogoutApply, Inv, TypeOK, LocalsInv, UsesToken
  <2>8. ASSUME NEW r \in Requests, Rollback(r) PROVE FALSE
    BY <2>8, SMTT(60) DEF Rollback, Inv, TypeOK
  <2>9. ASSUME NEW t \in Sessions, Expire(t) PROVE FALSE
    BY <2>9 DEF Expire
  <2>10. CASE UNCHANGED vars
    BY <2>10 DEF vars
  <2> QED
    BY <2>1, <2>2, <2>3, <2>4, <2>5, <2>6, <2>7, <2>8, <2>9, <2>10
       DEF Next, Continue, Abort, DeadlockVictim
<1>2. Inv /\ [Next]_vars => [Rotated]_vars
  BY <1>1
<1> QED
  BY Invariance, <1>2, PTL DEF Spec, RotatedWhileLive

-----------------------------------------------------------------------------
(* The tab of a browser.                                                   *)

Rows == [who : Accounts, live : BOOLEAN, family : 1..MaxSessions]

\* A family has at most one live session, and begins with one of its own number.
RowsOK ==
  /\ sessions \in Seq(Rows)
  /\ \A n \in 1..Len(sessions) : sessions[n].family \in 1..Len(sessions)
  /\ \A m, n \in 1..Len(sessions) :
       sessions[m].live /\ sessions[n].live /\ sessions[m].family = sessions[n].family => m = n

\* What of the tab is what.
PlainTypes ==
  /\ jar \in 0..Len(sessions)
  /\ token \in Accounts \cup {None} /\ user \in Accounts \cup {None}

FlagTypes == crossed \subseteq {"late", "other tab"} /\ isLoading \in BOOLEAN /\ disturbed \in BOOLEAN /\ reused \in BOOLEAN

RefreshTypes ==
  refresh # None => /\ refresh \in Tab!Renewals
                    /\ refresh.cookie \in 0..Len(sessions)
                    /\ refresh.successor \in 0..Len(sessions)

TaskTypes ==
  /\ tasks \in [Tasks -> {None} \cup Tab!Begun]
  /\ \A t \in Tasks : tasks[t] # None =>
       /\ tasks[t].kind = "login" => tasks[t].stage = "sent" /\ tasks[t].as \in Accounts
       /\ tasks[t].kind = "logout" => tasks[t].stage \in {"sent", "served"}

TabTypes == PlainTypes /\ FlagTypes /\ RefreshTypes /\ TaskTypes

\* Unless something happened behind the tab's back, the cookie it has, the one it is
\* presenting and the one it is about to get are not spent.
CookiesOK ==
  /\ refresh # None =>
       /\ ~refresh.served => refresh.successor = 0
       /\ refresh.successor # 0 => /\ refresh.cookie # 0
                                   /\ sessions[refresh.successor].who = sessions[refresh.cookie].who
  /\ ~disturbed =>
       /\ ~reused
       /\ refresh = None \/ refresh.successor = 0 => ~Tab!Spent(jar)
       /\ refresh # None /\ ~refresh.served => ~Tab!Spent(refresh.cookie)
       /\ refresh # None /\ refresh.successor # 0 => ~Tab!Spent(refresh.successor)

Started(t) == tasks[t] # None
Asks(t)    == Started(t) /\ tasks[t].kind \in {"page", "session"}
Knows(t)   == tasks[t].stage = "again" \/ (tasks[t].kind = "session" /\ tasks[t].stage = "sent")

\* The tab begins by asking who it is; nothing else goes on meanwhile.
Beginning ==
  /\ user = None
  /\ \A t \in Tasks : Started(t) =>
       /\ tasks[t].kind = "session"
       /\ tasks[t].stage # "waiting" \/ token = None
       /\ Knows(t) => /\ tasks[t].as = token /\ token # None
                      /\ jar # 0 => sessions[jar].who = token
  /\ \A s, t \in Tasks : Started(s) /\ Started(t) => s = t
  /\ token # None => \E t \in Tasks : Started(t)

\* Later on the token is the user's.  A refresh is for the account of somebody who waits
\* for it: who waits is not forgotten before it ends, so that a refresh for an earlier
\* user is noticed.
Settled ==
  /\ token = user
  /\ user # None /\ jar # 0 => sessions[jar].who = user
  /\ \A t \in Tasks : Asks(t) =>
       /\ tasks[t].for # None
       /\ Knows(t) => tasks[t].as = tasks[t].for
  /\ refresh # None /\ refresh.cookie # 0 =>
       \E t \in Tab!Waiting : tasks[t].for = sessions[refresh.cookie].who

Agreement ==
  crossed = {} =>
    /\ refresh # None => Tab!Waiting # {}
    /\ IF isLoading THEN Beginning ELSE Settled

TabInv == RowsOK /\ TabTypes /\ CookiesOK /\ Agreement

-----------------------------------------------------------------------------
\* A step that creates no session may end some.
Dimmed ==
  /\ sessions' \in Seq(Rows) /\ Len(sessions') = Len(sessions)
  /\ \A n \in 1..Len(sessions) : /\ sessions'[n].who = sessions[n].who
                                 /\ sessions'[n].family = sessions[n].family
                                 /\ sessions'[n].live => sessions[n].live

\* A step that creates one, of a family of its own or in place of the live one.
Grown(who, family_, ended) ==
  /\ sessions' \in Seq(Rows) /\ Len(sessions') = Len(sessions) + 1
  /\ \A n \in 1..Len(sessions) : /\ sessions'[n].who = sessions[n].who
                                 /\ sessions'[n].family = sessions[n].family
                                 /\ sessions'[n].live <=> sessions[n].live /\ n # ended
  /\ sessions'[Len(sessions) + 1] = [who |-> who, live |-> TRUE, family |-> family_]

LEMMA DimmedRows == ASSUME RowsOK, Dimmed PROVE RowsOK'
BY DEF RowsOK, Dimmed

\* Whether a cookie is spent after a step.
SpentThen(n) == n # 0 /\ ~sessions'[n].live
                /\ \E m \in DOMAIN sessions' : sessions'[m].live /\ sessions'[m].family = sessions'[n].family

\* Ending sessions spends no cookie: its family may end, which revokes it.
LEMMA DimmedSpent ==
  ASSUME RowsOK, Dimmed, NEW n \in 0..Len(sessions), ~Tab!Spent(n)
  PROVE  ~SpentThen(n)
BY DEF RowsOK, Dimmed, Tab!Spent, SpentThen

\* A function on the numbers of the rows is a sequence of that length.
LEMMA SameLength ==
  ASSUME RowsOK, NEW rows, rows = [n \in DOMAIN sessions |-> rows[n]],
         \A n \in 1..Len(sessions) : rows[n] \in Rows
  PROVE  rows \in Seq(Rows) /\ Len(rows) = Len(sessions)
<1> DEFINE N == Len(sessions)
<1>1. N \in Nat /\ DOMAIN sessions = 1..N
  BY LenProperties DEF RowsOK
<1>2. \A n \in 1..N : rows[n] \in Rows
  OBVIOUS
<1> HIDE DEF N
<1>3. [n \in 1..N |-> rows[n]] \in Seq(Rows)
  BY <1>1, <1>2
<1>4. rows = [n \in 1..N |-> rows[n]]
  BY <1>1
<1>5. rows \in Seq(Rows) /\ DOMAIN rows = 1..N
  BY <1>3, <1>4
<1>6. Len(rows) = N
  BY <1>1, <1>5, LenProperties
<1> QED
  BY <1>5, <1>6 DEF N

\* A session that is marked as ended is a row like before, but for the mark.
LEMMA EndedRow ==
  ASSUME NEW row \in Rows
  PROVE  LET ended == [row EXCEPT !.live = FALSE] IN
         ended \in Rows /\ ended.who = row.who /\ ended.family = row.family /\ ended.live = FALSE
BY DEF Rows

\* Ending sessions.
LEMMA EndedRows ==
  ASSUME RowsOK, NEW ns
  PROVE  LET rows == Tab!Ended(ns) IN
         /\ rows \in Seq(Rows) /\ Len(rows) = Len(sessions)
         /\ \A n \in 1..Len(sessions) : /\ rows[n].who = sessions[n].who
                                        /\ rows[n].family = sessions[n].family
                                        /\ rows[n].live <=> sessions[n].live /\ n \notin ns
<1> DEFINE rows == Tab!Ended(ns)
<1>1. DOMAIN sessions = 1..Len(sessions) /\ \A n \in 1..Len(sessions) : sessions[n] \in Rows
  BY LenProperties, ElementOfSeq DEF RowsOK
<1>2. rows = [n \in DOMAIN sessions |-> rows[n]]
  BY DEF Tab!Ended
<1>3. ASSUME NEW n \in 1..Len(sessions)
      PROVE  rows[n] = IF n \in ns THEN [sessions[n] EXCEPT !.live = FALSE] ELSE sessions[n]
  BY <1>1 DEF Tab!Ended
<1> HIDE DEF rows
<1>4. \A n \in 1..Len(sessions) : /\ rows[n] \in Rows
                                  /\ rows[n].who = sessions[n].who
                                  /\ rows[n].family = sessions[n].family
                                  /\ rows[n].live <=> sessions[n].live /\ n \notin ns
  BY <1>1, <1>3, EndedRow
<1>5. rows \in Seq(Rows) /\ Len(rows) = Len(sessions)
  BY <1>2, <1>4, SameLength
<1> QED
  BY <1>4, <1>5 DEF rows

LEMMA EndedDims == ASSUME RowsOK, NEW ns, sessions' = Tab!Ended(ns) PROVE Dimmed
BY EndedRows DEF Dimmed

LEMMA CreatedGrows ==
  ASSUME RowsOK, NEW a \in Accounts, Len(sessions) < MaxSessions,
         sessions' = Tab!Created(sessions, a, Len(sessions) + 1)
  PROVE  Grown(a, Len(sessions) + 1, 0) /\ RowsOK'
BY TabAssumption DEF Grown, RowsOK, Tab!Created, Rows

\* The session that a refresh presents ends, and its successor is of its family.
LEMMA PresentedGrows ==
  ASSUME RowsOK, NEW k \in 1..Len(sessions), sessions[k].live, Len(sessions) < MaxSessions,
         sessions' = Tab!Presented(k)
  PROVE  Grown(sessions[k].who, sessions[k].family, k) /\ RowsOK'
<1> DEFINE rows == Tab!Ended({k})
           next == [who |-> sessions[k].who, live |-> TRUE, family |-> sessions[k].family]
<1>1. sessions' = Append(rows, next)
  BY DEF Tab!Presented, Tab!Created
<1>2. sessions[k] \in Rows /\ Len(sessions) \in Nat
  BY ElementOfSeq, LenProperties DEF RowsOK
<1>3. /\ rows \in Seq(Rows) /\ Len(rows) = Len(sessions)
      /\ \A n \in 1..Len(sessions) : /\ rows[n].who = sessions[n].who
                                     /\ rows[n].family = sessions[n].family
                                     /\ rows[n].live <=> sessions[n].live /\ n \notin {k}
  BY EndedRows
<1>4. next \in Rows /\ next.who = sessions[k].who /\ next.family = sessions[k].family /\ next.live
  BY <1>2 DEF Rows
<1> HIDE DEF rows, next
<1>5. /\ sessions' \in Seq(Rows) /\ Len(sessions') = Len(sessions) + 1
      /\ \A n \in 1..Len(sessions) : sessions'[n] = rows[n]
      /\ sessions'[Len(sessions) + 1] = next
  BY <1>1, <1>2, <1>3, <1>4
<1>6. Grown(sessions[k].who, sessions[k].family, k)
  BY <1>3, <1>5 DEF Grown, next
<1>7. ASSUME NEW n \in 1..Len(sessions'), n # Len(sessions) + 1 PROVE n \in 1..Len(sessions)
  BY <1>2, <1>5, <1>7
<1>8. \A n \in 1..Len(sessions') : sessions'[n].family \in 1..Len(sessions')
  BY <1>2, <1>3, <1>4, <1>5, <1>7 DEF RowsOK
<1>9. ASSUME NEW m \in 1..Len(sessions'), NEW n \in 1..Len(sessions'),
             sessions'[m].live, sessions'[n].live, sessions'[m].family = sessions'[n].family
      PROVE  m = n
  <2>1. \A i \in 1..Len(sessions) : sessions'[i].live => sessions[i].live /\ i # k /\ sessions[i].family # next.family
    BY <1>3, <1>4, <1>5 DEF RowsOK
  <2> QED
    BY <1>3, <1>5, <1>7, <1>9, <2>1, SMTT(30) DEF RowsOK
<1>10. RowsOK'
  BY <1>5, <1>8, <1>9 DEF RowsOK
<1> QED
  BY <1>6, <1>10

\* What a refusal may do is to end a family.
LEMMA PresentedDims ==
  ASSUME RowsOK, NEW k, ~Tab!Accepted(k), sessions' = Tab!Presented(k)
  PROVE  Dimmed
BY EndedDims DEF Tab!Presented, Tab!Accepted

-----------------------------------------------------------------------------
\* Whatever happens, a session keeps its account and its number.
Keeps == /\ RowsOK'
         /\ Len(sessions') \in Nat /\ Len(sessions) \in 0..Len(sessions')
         /\ \A n \in 1..Len(sessions) : sessions'[n].who = sessions[n].who
         /\ \A n \in 1..Len(sessions') : sessions'[n].who \in Accounts

LEMMA SameKeeps == ASSUME RowsOK, UNCHANGED sessions PROVE Keeps
<1>1. RowsOK' BY DEF RowsOK
<1>2. Len(sessions) \in Nat /\ \A n \in 1..Len(sessions) : sessions[n] \in Rows
  BY LenProperties, ElementOfSeq DEF RowsOK
<1> QED BY <1>1, <1>2 DEF Keeps, Rows

LEMMA DimmedKeeps == ASSUME RowsOK, Dimmed PROVE Keeps
<1>1. RowsOK' BY DimmedRows
<1>2. Len(sessions) \in Nat /\ \A n \in 1..Len(sessions') : sessions'[n] \in Rows
  BY <1>1, LenProperties, ElementOfSeq DEF RowsOK
<1> QED BY <1>1, <1>2 DEF Keeps, Dimmed, Rows

LEMMA GrownKeeps ==
  ASSUME RowsOK, RowsOK', NEW a, NEW f, NEW e, Grown(a, f, e)
  PROVE  Keeps
<1>1. Len(sessions) \in Nat /\ \A n \in 1..Len(sessions') : sessions'[n] \in Rows
  BY LenProperties, ElementOfSeq DEF RowsOK
<1> QED BY <1>1 DEF Keeps, Grown, Rows

LEMMA StepKeeps == ASSUME RowsOK, TabTypes, Tab!Next PROVE Keeps
<1>1. CASE UNCHANGED sessions
  BY <1>1, SameKeeps
<1>2. ASSUME NEW ns, sessions' = Tab!Ended(ns) PROVE Keeps
  BY <1>2, EndedDims, DimmedKeeps
<1>3. ASSUME NEW a \in Accounts, Len(sessions) < MaxSessions,
             sessions' = Tab!Created(sessions, a, Len(sessions) + 1)
      PROVE  Keeps
  BY <1>3, CreatedGrows, GrownKeeps
<1>4. ASSUME NEW k \in 0..Len(sessions), Len(sessions) < MaxSessions, sessions' = Tab!Presented(k)
      PROVE  Keeps
  <2>1. CASE Tab!Accepted(k)
    <3>1. k \in 1..Len(sessions) /\ sessions[k].live
      BY <2>1 DEF Tab!Accepted
    <3> QED
      BY <1>4, <3>1, PresentedGrows, GrownKeeps
  <2>2. CASE ~Tab!Accepted(k)
    BY <1>4, <2>2, PresentedDims, DimmedKeeps
  <2> QED
    BY <2>1, <2>2
<1>5. CASE Tab!RefreshServed
  BY <1>4, <1>5 DEF Tab!RefreshServed, TabTypes, PlainTypes, RefreshTypes
<1>6. CASE Tab!OtherTabRefreshes
  BY <1>4, <1>6 DEF Tab!OtherTabRefreshes, TabTypes, PlainTypes
<1>7. CASE Tab!OtherTabSignsOut
  BY <1>2, <1>7 DEF Tab!OtherTabSignsOut
<1>8. ASSUME NEW a \in Accounts, Tab!OtherTabSignsIn(a) PROVE Keeps
  BY <1>3, <1>8 DEF Tab!OtherTabSignsIn
<1>9. ASSUME NEW t \in Tasks, NEW a \in Accounts, Tab!ResetPassword(t, a) PROVE Keeps
  BY <1>2, <1>9 DEF Tab!ResetPassword
<1>10. ASSUME NEW t \in Tasks, Tab!LoginAnswered(t) PROVE Keeps
  BY <1>1, <1>3, <1>10 DEF Tab!LoginAnswered, TabTypes, TaskTypes, Tab!Free
<1>11. ASSUME NEW t \in Tasks, Tab!LogoutServed(t) PROVE Keeps
  BY <1>2, <1>11 DEF Tab!LogoutServed
<1>12. CASE \/ Tab!RefreshAnswered \/ Tab!RefreshFailed \/ Tab!Reload
            \/ \E t \in Tasks : \/ Tab!Unauthorized(t) \/ Tab!PageAnswered(t) \/ Tab!refreshSession(t)
                              \/ Tab!LogoutAnswered(t) \/ Tab!Ask(t) \/ Tab!logout(t)
                              \/ \E a \in Accounts : Tab!login(t, a)
  BY <1>1, <1>12 DEF Tab!RefreshAnswered, Tab!RefreshFailed, Tab!Reload, Tab!Unauthorized, Tab!PageAnswered,
     Tab!refreshSession, Tab!LogoutAnswered, Tab!Ask, Tab!logout, Tab!login
<1> QED
  BY <1>5, <1>6, <1>7, <1>8, <1>9, <1>10, <1>11, <1>12 DEF Tab!Next

-----------------------------------------------------------------------------
\* The two forms a refresh in flight takes.
LEMMA RefreshBegins ==
  ASSUME NEW n \in Nat
  PROVE  LET x == [cookie |-> n, served |-> FALSE, successor |-> 0] IN
         x \in Tab!Renewals /\ x # None /\ x.cookie = n /\ ~x.served /\ x.successor = 0
<1> DEFINE x == [cookie |-> n, served |-> FALSE, successor |-> 0]
<1>1. x \in Tab!Renewals
  BY DEF Tab!Renewals
<1> QED
  BY <1>1, SomethingAssumption

LEMMA RefreshIsServed ==
  ASSUME NEW x \in Tab!Renewals, NEW n \in Nat
  PROVE  LET y == [x EXCEPT !.served = TRUE, !.successor = n] IN
         y \in Tab!Renewals /\ y # None /\ y.cookie = x.cookie /\ y.served /\ y.successor = n
<1> DEFINE y == [x EXCEPT !.served = TRUE]
<1>1. y \in Tab!Renewals /\ y.cookie = x.cookie /\ y.served
  BY DEF Tab!Renewals
<1> HIDE DEF y
<1> DEFINE z == [y EXCEPT !.successor = n]
<1>2. z \in Tab!Renewals /\ z.cookie = y.cookie /\ z.served = y.served /\ z.successor = n
  BY <1>1 DEF Tab!Renewals
<1>3. [x EXCEPT !.served = TRUE, !.successor = n] = z
  BY DEF y
<1> HIDE DEF z
<1> QED
  BY <1>1, <1>2, <1>3, SomethingAssumption

\* What becomes of a task; the others stay.
Becomes(t, kind, stage, for, as) ==
  /\ tasks' \in [Tasks -> {None} \cup Tab!Begun]
  /\ tasks'[t] # None
  /\ tasks'[t].kind = kind /\ tasks'[t].stage = stage /\ tasks'[t].for = for /\ tasks'[t].as = as
  /\ \A s \in Tasks : s # t => tasks'[s] = tasks[s]

Ends(t) ==
  /\ tasks' \in [Tasks -> {None} \cup Tab!Begun]
  /\ tasks'[t] = None
  /\ \A s \in Tasks : s # t => tasks'[s] = tasks[s]

Stages == {"sent", "waiting", "waiting again", "again", "served"}

LEMMA TaskEnds ==
  ASSUME TaskTypes, NEW t \in Tasks, tasks' = [tasks EXCEPT ![t] = None]
  PROVE  Ends(t)
BY DEF TaskTypes, Ends

LEMMA TaskPut ==
  ASSUME TaskTypes, NEW t \in Tasks, NEW x \in Tab!Begun, tasks' = [tasks EXCEPT ![t] = x]
  PROVE  Becomes(t, x.kind, x.stage, x.for, x.as)
BY SomethingAssumption DEF TaskTypes, Becomes

\* A task after a change of its fields.
LEMMA TaskStaged ==
  ASSUME NEW x \in Tab!Begun, NEW stage \in Stages,
         NEW y, y = [x EXCEPT !.stage = stage]
  PROVE  y \in Tab!Begun /\ y.kind = x.kind /\ y.stage = stage /\ y.for = x.for /\ y.as = x.as
BY DEF Tab!Begun, Stages

LEMMA TaskNamed ==
  ASSUME NEW x \in Tab!Begun, NEW a \in Accounts \cup {None},
         NEW y, y = [x EXCEPT !.as = a]
  PROVE  y \in Tab!Begun /\ y.kind = x.kind /\ y.stage = x.stage /\ y.for = x.for /\ y.as = a
BY DEF Tab!Begun, Stages

LEMMA TaskBegins ==
  ASSUME TaskTypes, PlainTypes, NEW t \in Tasks, NEW kind \in {"page", "session", "login", "logout"},
         NEW stage \in Stages, NEW cookie \in Nat,
         tasks' = [tasks EXCEPT ![t] = Tab!Task(kind, stage, cookie)]
  PROVE  Becomes(t, kind, stage, user, None)
<1> DEFINE x == Tab!Task(kind, stage, cookie)
<1>1. x \in Tab!Begun /\ x.kind = kind /\ x.stage = stage /\ x.for = user /\ x.as = None
  BY DEF Tab!Task, Tab!Begun, Stages, PlainTypes
<1> HIDE DEF x
<1> QED
  <2>1. tasks' = [tasks EXCEPT ![t] = x] BY DEF x
  <2> QED BY <1>1, <2>1, TaskPut

LEMMA LoginBegins ==
  ASSUME TaskTypes, PlainTypes, NEW t \in Tasks, NEW a \in Accounts,
         tasks' = [tasks EXCEPT ![t] = [Tab!Task("login", "sent", 0) EXCEPT !.as = a]]
  PROVE  Becomes(t, "login", "sent", user, a)
<1> DEFINE y == Tab!Task("login", "sent", 0)
           x == [y EXCEPT !.as = a]
<1>1. y \in Tab!Begun /\ y.kind = "login" /\ y.stage = "sent" /\ y.for = user
  BY DEF Tab!Task, Tab!Begun, PlainTypes
<1> HIDE DEF y
<1>2. x \in Tab!Begun /\ x.kind = "login" /\ x.stage = "sent" /\ x.for = user /\ x.as = a
  BY <1>1, TaskNamed
<1> HIDE DEF x
<1> QED
  <2>1. tasks' = [tasks EXCEPT ![t] = x] BY DEF x, y
  <2> QED BY <1>2, <2>1, TaskPut

LEMMA TaskServed ==
  ASSUME TaskTypes, NEW t \in Tasks, tasks[t] # None, tasks' = [tasks EXCEPT ![t].stage = "served"]
  PROVE  Becomes(t, tasks[t].kind, "served", tasks[t].for, tasks[t].as)
<1> DEFINE x == [tasks[t] EXCEPT !.stage = "served"]
<1>1. tasks[t] \in Tab!Begun /\ "served" \in Stages
  BY DEF TaskTypes, Stages
<1>2. x \in Tab!Begun /\ x.kind = tasks[t].kind /\ x.stage = "served" /\ x.for = tasks[t].for /\ x.as = tasks[t].as
  BY <1>1, TaskStaged
<1>3. tasks' = [tasks EXCEPT ![t] = x]
  OBVIOUS
<1> HIDE DEF x
<1> QED
  BY <1>2, <1>3, TaskPut

LEMMA TaskWaitsAgain ==
  ASSUME TaskTypes, NEW t \in Tasks, tasks[t] # None,
         tasks' = [tasks EXCEPT ![t].stage = "waiting again", ![t].as = None]
  PROVE  Becomes(t, tasks[t].kind, "waiting again", tasks[t].for, None)
<1> DEFINE y == [tasks[t] EXCEPT !.stage = "waiting again"]
           x == [y EXCEPT !.as = None]
<1>1. tasks[t] \in Tab!Begun
  BY DEF TaskTypes
<1>2. tasks' = [tasks EXCEPT ![t] = x]
  BY DEF TaskTypes
<1> HIDE DEF x
<1>3. x = [y EXCEPT !.as = None]
  BY DEF x
<1> HIDE DEF y
<1>4. y = [tasks[t] EXCEPT !.stage = "waiting again"]
  BY DEF y
<1>5. y \in Tab!Begun /\ y.kind = tasks[t].kind /\ y.stage = "waiting again" /\ y.for = tasks[t].for
  BY <1>1, <1>4, Zenon DEF Tab!Begun
<1>6. x \in Tab!Begun /\ x.kind = tasks[t].kind /\ x.stage = "waiting again" /\ x.for = tasks[t].for /\ x.as = None
  BY <1>3, <1>5, Zenon DEF Tab!Begun
<1> QED
  BY <1>2, <1>6, TaskPut

\* Those who waited for a refresh that succeeded.
Resumes ==
  /\ tasks' \in [Tasks -> {None} \cup Tab!Begun]
  /\ \A t \in Tasks :
       IF t \notin Tab!Waiting THEN tasks'[t] = tasks[t]
       ELSE /\ tasks'[t] # None
            /\ tasks'[t].kind = tasks[t].kind /\ tasks'[t].for = tasks[t].for /\ tasks'[t].as = token'
            /\ tasks'[t].stage = IF tasks[t].kind = "session" /\ tasks[t].stage = "waiting" THEN "sent" ELSE "again"

LEMMA TasksResume ==
  ASSUME TaskTypes, token' \in Accounts \cup {None}, Tab!RefreshAnswered
  PROVE  Resumes
<1> DEFINE stage(t) == IF tasks[t].kind = "session" /\ tasks[t].stage = "waiting" THEN "sent" ELSE "again"
           y(t) == [tasks[t] EXCEPT !.as = token']
           x(t) == [y(t) EXCEPT !.stage = stage(t)]
<1>1. tasks' = [t \in Tasks |-> IF t \notin Tab!Waiting THEN tasks[t] ELSE x(t)]
  BY Zenon DEF Tab!RefreshAnswered
<1>2. ASSUME NEW t \in Tab!Waiting
      PROVE  /\ x(t) \in Tab!Begun /\ x(t).kind = tasks[t].kind /\ x(t).stage = stage(t)
             /\ x(t).for = tasks[t].for /\ x(t).as = token'
  <2>1. tasks[t] \in Tab!Begun
    BY DEF Tab!Waiting, Tab!Free, TaskTypes
  <2>2. stage(t) \in Stages
    BY DEF Stages
  <2>3. y(t) \in Tab!Begun /\ y(t).kind = tasks[t].kind /\ y(t).for = tasks[t].for /\ y(t).as = token'
    BY <2>1, TaskNamed
  <2> HIDE DEF stage, y
  <2> QED
    BY <2>2, <2>3, TaskStaged
<1> HIDE DEF x
<1> QED
  BY <1>1, <1>2, SomethingAssumption DEF Resumes, TaskTypes

\* Cookie, token and user stay what they are.
LEMMA PlainStep == ASSUME RowsOK, TabTypes, Keeps, Tab!Next PROVE PlainTypes'
<1> USE AccountsAssumption DEF Keeps, TabTypes, PlainTypes
<1>1. CASE Tab!RefreshServed
  BY <1>1, SMTT(30) DEF Tab!RefreshServed, Tab!Accepted
<1>2. CASE Tab!RefreshAnswered
  <2>1. /\ refresh # None /\ refresh.successor # 0 /\ jar' = refresh.successor
        /\ token' = sessions[refresh.successor].who /\ UNCHANGED <<sessions, user>>
    BY <1>2, Zenon DEF Tab!RefreshAnswered
  <2>2. refresh.successor \in 1..Len(sessions')
    BY <2>1 DEF RefreshTypes
  <2> QED
    BY <2>1, <2>2
<1>3. CASE Tab!RefreshFailed
  BY <1>3, SMTT(30) DEF Tab!RefreshFailed
<1>4. CASE Tab!Reload
  BY <1>4, SMTT(30) DEF Tab!Reload, Tab!Mounted, Tab!Renewal
<1>5. ASSUME NEW t \in Tasks, Tab!Unauthorized(t) PROVE PlainTypes'
  <2>1. UNCHANGED <<jar, token, user>>
    BY <1>5, Zenon DEF Tab!Unauthorized
  <2> QED
    BY <2>1
<1>6. ASSUME NEW t \in Tasks, Tab!PageAnswered(t) PROVE PlainTypes'
  BY <1>6, SMTT(30) DEF Tab!PageAnswered
<1>7. ASSUME NEW t \in Tasks, Tab!refreshSession(t) PROVE PlainTypes'
  <2>1. tasks[t].as \in Accounts \cup {None}
    BY <1>7 DEF Tab!refreshSession, Tab!Free, TaskTypes, Tab!Begun
  <2>2. jar' = jar /\ token' \in {token, None} /\ user' \in {tasks[t].as, None}
    BY <1>7, Zenon DEF Tab!refreshSession
  <2> QED
    BY <2>1, <2>2
<1>8. ASSUME NEW t \in Tasks, Tab!LoginAnswered(t) PROVE PlainTypes'
  <2>1. CASE UNCHANGED <<sessions, jar, token, user>>
    BY <2>1
  <2>2. CASE /\ Len(sessions) < MaxSessions
             /\ sessions' = Tab!Created(sessions, tasks[t].as, Len(sessions) + 1)
             /\ jar' = Len(sessions) + 1 /\ token' = tasks[t].as /\ user' = tasks[t].as
    <3>1. tasks[t].as \in Accounts
      BY <1>8 DEF Tab!LoginAnswered, Tab!Free, TaskTypes
    <3>2. Len(sessions') = Len(sessions) + 1
      BY <2>2, <3>1, CreatedGrows DEF Grown
    <3> QED
      BY <2>2, <3>1, <3>2
  <2> QED
    BY <1>8, <2>1, <2>2, Zenon DEF Tab!LoginAnswered
<1>9. ASSUME NEW t \in Tasks, Tab!LogoutServed(t) PROVE PlainTypes'
  BY <1>9, SMTT(30) DEF Tab!LogoutServed
<1>10. ASSUME NEW t \in Tasks, Tab!LogoutAnswered(t) PROVE PlainTypes'
  BY <1>10, SMTT(30) DEF Tab!LogoutAnswered
<1>11. ASSUME NEW t \in Tasks, Tab!Ask(t) PROVE PlainTypes'
  BY <1>11, SMTT(30) DEF Tab!Ask
<1>12. ASSUME NEW t \in Tasks, Tab!logout(t) PROVE PlainTypes'
  BY <1>12, SMTT(30) DEF Tab!logout
<1>13. ASSUME NEW t \in Tasks, NEW a \in Accounts, Tab!ResetPassword(t, a) PROVE PlainTypes'
  BY <1>13, SMTT(30) DEF Tab!ResetPassword, Tab!refreshAccessToken
<1>14. ASSUME NEW t \in Tasks, NEW a \in Accounts, Tab!login(t, a) PROVE PlainTypes'
  BY <1>14, SMTT(30) DEF Tab!login
<1>15. CASE Tab!OtherTabRefreshes
  <2>1. Len(sessions) < MaxSessions /\ sessions' = Tab!Presented(jar)
    BY <1>15, Zenon DEF Tab!OtherTabRefreshes
  <2>2. jar' = (IF Tab!Accepted(jar) THEN Len(sessions) + 1 ELSE jar) /\ UNCHANGED <<token, user>>
    BY <1>15, Zenon DEF Tab!OtherTabRefreshes
  <2>3. ASSUME Tab!Accepted(jar) PROVE Len(sessions') = Len(sessions) + 1
    <3>1. jar \in 1..Len(sessions) /\ sessions[jar].live
      BY <2>3 DEF Tab!Accepted
    <3> QED
      BY <2>1, <3>1, PresentedGrows DEF Grown
  <2> QED
    BY <2>2, <2>3
<1>16. CASE Tab!OtherTabSignsOut
  BY <1>16, SMTT(30) DEF Tab!OtherTabSignsOut
<1>17. ASSUME NEW a \in Accounts, Tab!OtherTabSignsIn(a) PROVE PlainTypes'
  <2>1. Len(sessions') = Len(sessions) + 1
    BY <1>17, CreatedGrows DEF Tab!OtherTabSignsIn, Grown
  <2>2. jar' = Len(sessions) + 1 /\ UNCHANGED <<token, user>>
    BY <1>17, Zenon DEF Tab!OtherTabSignsIn
  <2> QED
    BY <2>1, <2>2
<1> QED
  BY <1>1, <1>2, <1>3, <1>4, <1>5, <1>6, <1>7, <1>8, <1>9, <1>10, <1>11, <1>12, <1>13, <1>14, <1>15, <1>16, <1>17 DEF Tab!Next

\* So do the flags.
LEMMA FlagsStep == ASSUME TabTypes, Tab!Next PROVE FlagTypes'
<1> USE DEF FlagTypes, TabTypes, Tab!Late
<1>1. CASE Tab!RefreshServed
  BY <1>1, Zenon DEF Tab!RefreshServed, Tab!Accepted
<1>2. CASE Tab!RefreshAnswered
  BY <1>2, Zenon DEF Tab!RefreshAnswered
<1>3. CASE Tab!RefreshFailed
  BY <1>3, Zenon DEF Tab!RefreshFailed
<1>4. CASE Tab!Reload
  BY <1>4, Zenon DEF Tab!Reload, Tab!Mounted, Tab!Renewal
<1>5. ASSUME NEW t \in Tasks, Tab!Unauthorized(t) PROVE FlagTypes'
  BY <1>5, Zenon DEF Tab!Unauthorized, Tab!refreshAccessToken
<1>6. ASSUME NEW t \in Tasks, Tab!PageAnswered(t) PROVE FlagTypes'
  BY <1>6, Zenon DEF Tab!PageAnswered
<1>7. ASSUME NEW t \in Tasks, Tab!refreshSession(t) PROVE FlagTypes'
  BY <1>7, Zenon DEF Tab!refreshSession
<1>8. ASSUME NEW t \in Tasks, Tab!LoginAnswered(t) PROVE FlagTypes'
  BY <1>8, Zenon DEF Tab!LoginAnswered
<1>9. ASSUME NEW t \in Tasks, Tab!LogoutServed(t) PROVE FlagTypes'
  BY <1>9, Zenon DEF Tab!LogoutServed
<1>10. ASSUME NEW t \in Tasks, Tab!LogoutAnswered(t) PROVE FlagTypes'
  BY <1>10, Zenon DEF Tab!LogoutAnswered
<1>11. ASSUME NEW t \in Tasks, Tab!Ask(t) PROVE FlagTypes'
  BY <1>11, Zenon DEF Tab!Ask
<1>12. ASSUME NEW t \in Tasks, Tab!logout(t) PROVE FlagTypes'
  BY <1>12, Zenon DEF Tab!logout
<1>13. ASSUME NEW t \in Tasks, NEW a \in Accounts, Tab!ResetPassword(t, a) PROVE FlagTypes'
  BY <1>13, Zenon DEF Tab!ResetPassword, Tab!refreshAccessToken
<1>14. ASSUME NEW t \in Tasks, NEW a \in Accounts, Tab!login(t, a) PROVE FlagTypes'
  BY <1>14, Zenon DEF Tab!login
<1>15. CASE Tab!OtherTabRefreshes
  BY <1>15, Zenon DEF Tab!OtherTabRefreshes, Tab!Accepted
<1>16. CASE Tab!OtherTabSignsOut
  BY <1>16, Zenon DEF Tab!OtherTabSignsOut
<1>17. ASSUME NEW a \in Accounts, Tab!OtherTabSignsIn(a) PROVE FlagTypes'
  BY <1>17, Zenon DEF Tab!OtherTabSignsIn
<1> QED
  BY <1>1, <1>2, <1>3, <1>4, <1>5, <1>6, <1>7, <1>8, <1>9, <1>10, <1>11, <1>12, <1>13, <1>14, <1>15, <1>16, <1>17 DEF Tab!Next

\* A cookie that is accepted has its successor at the end.
LEMMA RefreshGrows ==
  ASSUME RowsOK, NEW k \in 0..Len(sessions), Tab!Accepted(k), Len(sessions) < MaxSessions,
         sessions' = Tab!Presented(k)
  PROVE  Len(sessions') = Len(sessions) + 1
<1>1. k \in 1..Len(sessions) /\ sessions[k].live
  BY DEF Tab!Accepted
<1> QED
  BY <1>1, PresentedGrows DEF Grown

\* The refresh in flight names cookies that there are.
LEMMA RefreshStep == ASSUME RowsOK, TabTypes, Keeps, Tab!Next PROVE RefreshTypes'
<1> USE DEF Keeps, TabTypes, RefreshTypes, PlainTypes
<1>1. CASE Tab!RefreshServed
  <2>1. /\ refresh # None /\ Len(sessions) < MaxSessions /\ sessions' = Tab!Presented(refresh.cookie)
        /\ refresh' = [refresh EXCEPT !.served = TRUE,
                         !.successor = IF Tab!Accepted(refresh.cookie) THEN Len(sessions) + 1 ELSE 0]
    BY <1>1, Zenon DEF Tab!RefreshServed
  <2> DEFINE n == IF Tab!Accepted(refresh.cookie) THEN Len(sessions) + 1 ELSE 0
  <2>2. n \in Nat /\ n \in 0..Len(sessions')
    BY <2>1, RefreshGrows
  <2>3. refresh' = [refresh EXCEPT !.served = TRUE, !.successor = n]
    BY <2>1
  <2> HIDE DEF n
  <2>4. refresh'.cookie = refresh.cookie /\ refresh' \in Tab!Renewals /\ refresh'.successor = n
    <3>1. refresh \in Tab!Renewals
      BY <2>1
    <3> QED
      BY ONLY <2>2, <2>3, <3>1, RefreshIsServed
  <2> QED
    BY <2>1, <2>2, <2>4
<1>2. CASE Tab!RefreshAnswered
  <2>1. refresh' = None
    BY <1>2, Zenon DEF Tab!RefreshAnswered
  <2> QED
    BY <2>1
<1>3. CASE Tab!RefreshFailed
  <2>1. refresh' = None
    BY <1>3, Zenon DEF Tab!RefreshFailed
  <2> QED
    BY <2>1
<1>4. CASE Tab!Reload
  <2>1. jar \in Nat
    BY DEF PlainTypes
  <2>2. refresh' = [cookie |-> jar, served |-> FALSE, successor |-> 0]
    BY <1>4, Zenon DEF Tab!Reload, Tab!Renewal
  <2> QED
    BY <2>1, <2>2, RefreshBegins
<1>5. ASSUME NEW t \in Tasks, Tab!Unauthorized(t) PROVE RefreshTypes'
  <2>1. jar \in Nat
    BY DEF PlainTypes
  <2>2. refresh' = refresh \/ refresh' = [cookie |-> jar, served |-> FALSE, successor |-> 0]
    BY <1>5, Zenon DEF Tab!Unauthorized, Tab!refreshAccessToken, Tab!Renewal
  <2>3. CASE refresh' = refresh
    BY <2>3
  <2> QED
    BY <2>1, <2>2, <2>3, RefreshBegins
<1>6. ASSUME NEW t \in Tasks, Tab!PageAnswered(t) PROVE RefreshTypes'
  <2>1. refresh' = refresh
    BY <1>6, Zenon DEF Tab!PageAnswered
  <2> QED
    BY <2>1
<1>7. ASSUME NEW t \in Tasks, Tab!refreshSession(t) PROVE RefreshTypes'
  <2>1. refresh' = refresh
    BY <1>7, Zenon DEF Tab!refreshSession
  <2> QED
    BY <2>1
<1>8. ASSUME NEW t \in Tasks, Tab!LoginAnswered(t) PROVE RefreshTypes'
  <2>1. refresh' = refresh
    BY <1>8, Zenon DEF Tab!LoginAnswered
  <2> QED
    BY <2>1
<1>9. ASSUME NEW t \in Tasks, Tab!LogoutServed(t) PROVE RefreshTypes'
  <2>1. refresh' = refresh
    BY <1>9, Zenon DEF Tab!LogoutServed
  <2> QED
    BY <2>1
<1>10. ASSUME NEW t \in Tasks, Tab!LogoutAnswered(t) PROVE RefreshTypes'
  <2>1. refresh' = refresh
    BY <1>10, Zenon DEF Tab!LogoutAnswered
  <2> QED
    BY <2>1
<1>11. ASSUME NEW t \in Tasks, Tab!Ask(t) PROVE RefreshTypes'
  <2>1. refresh' = refresh
    BY <1>11, Zenon DEF Tab!Ask
  <2> QED
    BY <2>1
<1>12. ASSUME NEW t \in Tasks, Tab!logout(t) PROVE RefreshTypes'
  <2>1. refresh' = refresh
    BY <1>12, Zenon DEF Tab!logout
  <2> QED
    BY <2>1
<1>13. ASSUME NEW t \in Tasks, NEW a \in Accounts, Tab!ResetPassword(t, a) PROVE RefreshTypes'
  <2>1. jar \in Nat
    BY DEF PlainTypes
  <2>2. refresh' = refresh \/ refresh' = [cookie |-> jar, served |-> FALSE, successor |-> 0]
    BY <1>13, Zenon DEF Tab!ResetPassword, Tab!refreshAccessToken, Tab!Renewal
  <2>3. CASE refresh' = refresh
    BY <2>3
  <2> QED
    BY <2>1, <2>2, <2>3, RefreshBegins
<1>14. ASSUME NEW t \in Tasks, NEW a \in Accounts, Tab!login(t, a) PROVE RefreshTypes'
  <2>1. refresh' = refresh
    BY <1>14, Zenon DEF Tab!login
  <2> QED
    BY <2>1
<1>15. CASE Tab!OtherTabRefreshes
  <2>1. refresh' = refresh
    BY <1>15, Zenon DEF Tab!OtherTabRefreshes
  <2> QED
    BY <2>1
<1>16. CASE Tab!OtherTabSignsOut
  <2>1. refresh' = refresh
    BY <1>16, Zenon DEF Tab!OtherTabSignsOut
  <2> QED
    BY <2>1
<1>17. ASSUME NEW a \in Accounts, Tab!OtherTabSignsIn(a) PROVE RefreshTypes'
  <2>1. refresh' = refresh
    BY <1>17, Zenon DEF Tab!OtherTabSignsIn
  <2> QED
    BY <2>1
<1> QED
  BY <1>1, <1>2, <1>3, <1>4, <1>5, <1>6, <1>7, <1>8, <1>9, <1>10, <1>11, <1>12, <1>13, <1>14, <1>15, <1>16, <1>17 DEF Tab!Next

\* The tab begins with one task.
LEMMA MountedIs ==
  /\ Tab!Mounted \in [Tasks -> {None} \cup Tab!Begun]
  /\ \E t \in Tasks : Tab!Mounted[t] # None
  /\ \A s, t \in Tasks : Tab!Mounted[s] # None /\ Tab!Mounted[t] # None => s = t
  /\ \A t \in Tasks : Tab!Mounted[t] # None =>
       Tab!Mounted[t].kind = "session" /\ Tab!Mounted[t].stage = "waiting" /\ Tab!Mounted[t].for = None
<1> DEFINE first == CHOOSE t \in Tasks : TRUE
           x == [kind |-> "session", stage |-> "waiting", for |-> None, as |-> None, cookie |-> 0]
<1>1. first \in Tasks
  BY TabAssumption
<1>2. x \in Tab!Begun /\ x.kind = "session" /\ x.stage = "waiting" /\ x.for = None
  BY DEF Tab!Begun
<1> HIDE DEF x
<1>3. x # None
  BY <1>2, SomethingAssumption
<1>4. Tab!Mounted = [t \in Tasks |-> IF t = first THEN x ELSE None]
  BY DEF Tab!Mounted, x
<1> HIDE DEF first
<1> QED
  BY <1>1, <1>2, <1>3, <1>4

LEMMA JarIsNat == ASSUME PlainTypes PROVE jar \in Nat
BY DEF PlainTypes

\* What the tab has begun is of a kind, and at a stage of it.
LEMMA TasksStep == ASSUME RowsOK, TabTypes, Keeps, Tab!Next PROVE TaskTypes'
<1> USE DEF TabTypes, TaskTypes
<1>1. CASE Tab!RefreshServed
  <2>1. tasks' = tasks
    BY <1>1, Zenon DEF Tab!RefreshServed
  <2> QED
    BY <2>1
<1>2. CASE Tab!RefreshAnswered
  <2>1. token' \in Accounts \cup {None}
    BY PlainStep DEF PlainTypes
  <2>2. Resumes
    BY <1>2, <2>1, TasksResume
  <2> QED
    BY <2>2 DEF Resumes, Tab!Waiting, Tab!Free
<1>3. CASE Tab!RefreshFailed
  <2>1. tasks' = [t \in Tasks |-> IF t \in Tab!Waiting THEN None ELSE tasks[t]]
    BY <1>3, Zenon DEF Tab!RefreshFailed
  <2> QED
    BY <2>1
<1>4. CASE Tab!Reload
  <2>1. tasks' = Tab!Mounted
    BY <1>4, Zenon DEF Tab!Reload
  <2> QED
    BY <2>1, MountedIs
<1>5. ASSUME NEW t \in Tasks, Tab!Unauthorized(t) PROVE TaskTypes'
  <2>1. /\ tasks[t] # None /\ tasks[t].kind \in {"page", "session"}
        /\ tasks' = [tasks EXCEPT ![t].stage = "waiting again", ![t].as = None]
    BY <1>5, Zenon DEF Tab!Unauthorized, Tab!Free
  <2>2. Becomes(t, tasks[t].kind, "waiting again", tasks[t].for, None)
    BY <2>1, TaskWaitsAgain DEF Stages
  <2> QED
    BY <2>1, <2>2 DEF Becomes, Ends
<1>6. ASSUME NEW t \in Tasks, Tab!PageAnswered(t) PROVE TaskTypes'
  <2>1. tasks' = [tasks EXCEPT ![t] = None]
    BY <1>6, Zenon DEF Tab!PageAnswered, Tab!Free
  <2>2. Ends(t)
    BY <2>1, TaskEnds DEF Stages
  <2> QED
    BY <2>1, <2>2 DEF Becomes, Ends
<1>7. ASSUME NEW t \in Tasks, Tab!refreshSession(t) PROVE TaskTypes'
  <2>1. tasks' = [tasks EXCEPT ![t] = None]
    BY <1>7, Zenon DEF Tab!refreshSession, Tab!Free
  <2>2. Ends(t)
    BY <2>1, TaskEnds DEF Stages
  <2> QED
    BY <2>1, <2>2 DEF Becomes, Ends
<1>8. ASSUME NEW t \in Tasks, Tab!LoginAnswered(t) PROVE TaskTypes'
  <2>1. tasks' = [tasks EXCEPT ![t] = None]
    BY <1>8, Zenon DEF Tab!LoginAnswered, Tab!Free
  <2>2. Ends(t)
    BY <2>1, TaskEnds DEF Stages
  <2> QED
    BY <2>1, <2>2 DEF Becomes, Ends
<1>9. ASSUME NEW t \in Tasks, Tab!LogoutServed(t) PROVE TaskTypes'
  <2>1. /\ tasks[t] # None /\ tasks[t].kind = "logout" /\ tasks' = [tasks EXCEPT ![t].stage = "served"]
    BY <1>9, Zenon DEF Tab!LogoutServed, Tab!Free
  <2>2. Becomes(t, tasks[t].kind, "served", tasks[t].for, tasks[t].as)
    BY <2>1, TaskServed DEF Stages
  <2> QED
    BY <2>1, <2>2 DEF Becomes, Ends
<1>10. ASSUME NEW t \in Tasks, Tab!LogoutAnswered(t) PROVE TaskTypes'
  <2>1. tasks' = [tasks EXCEPT ![t] = None]
    BY <1>10, Zenon DEF Tab!LogoutAnswered, Tab!Free
  <2>2. Ends(t)
    BY <2>1, TaskEnds DEF Stages
  <2> QED
    BY <2>1, <2>2 DEF Becomes, Ends
<1>11. ASSUME NEW t \in Tasks, Tab!Ask(t) PROVE TaskTypes'
  <2>1. tasks' = [tasks EXCEPT ![t] = Tab!Task("page", "sent", 0)]
    BY <1>11, Zenon DEF Tab!Ask, Tab!Free
  <2>2. Becomes(t, "page", "sent", user, None)
    BY <2>1, TaskBegins DEF Stages
  <2> QED
    BY <2>1, <2>2 DEF Becomes, Ends
<1>12. ASSUME NEW t \in Tasks, Tab!logout(t) PROVE TaskTypes'
  <2>1. tasks' = [tasks EXCEPT ![t] = Tab!Task("logout", "sent", jar)]
    BY <1>12, Zenon DEF Tab!logout, Tab!Free
  <2>2. Becomes(t, "logout", "sent", user, None)
    BY <2>1, JarIsNat, TaskBegins DEF Stages
  <2> QED
    BY <2>1, <2>2 DEF Becomes, Ends
<1>13. ASSUME NEW t \in Tasks, NEW a \in Accounts, Tab!ResetPassword(t, a) PROVE TaskTypes'
  <2>1. tasks' = [tasks EXCEPT ![t] = Tab!Task("session", "waiting", 0)]
    BY <1>13, Zenon DEF Tab!ResetPassword, Tab!Free
  <2>2. Becomes(t, "session", "waiting", user, None)
    BY <2>1, TaskBegins DEF Stages
  <2> QED
    BY <2>1, <2>2 DEF Becomes, Ends
<1>14. ASSUME NEW t \in Tasks, NEW a \in Accounts, Tab!login(t, a) PROVE TaskTypes'
  <2>1. tasks' = [tasks EXCEPT ![t] = [Tab!Task("login", "sent", 0) EXCEPT !.as = a]]
    BY <1>14, Zenon DEF Tab!login, Tab!Free
  <2>2. Becomes(t, "login", "sent", user, a)
    BY <2>1, LoginBegins DEF Stages
  <2> QED
    BY <2>1, <2>2 DEF Becomes, Ends
<1>15. CASE Tab!OtherTabRefreshes
  <2>1. tasks' = tasks
    BY <1>15, Zenon DEF Tab!OtherTabRefreshes
  <2> QED
    BY <2>1
<1>16. CASE Tab!OtherTabSignsOut
  <2>1. tasks' = tasks
    BY <1>16, Zenon DEF Tab!OtherTabSignsOut
  <2> QED
    BY <2>1
<1>17. ASSUME NEW a \in Accounts, Tab!OtherTabSignsIn(a) PROVE TaskTypes'
  <2>1. tasks' = tasks
    BY <1>17, Zenon DEF Tab!OtherTabSignsIn
  <2> QED
    BY <2>1
<1> QED
  BY <1>1, <1>2, <1>3, <1>4, <1>5, <1>6, <1>7, <1>8, <1>9, <1>10, <1>11, <1>12, <1>13, <1>14, <1>15, <1>16, <1>17 DEF Tab!Next

-----------------------------------------------------------------------------
\* What is not spent stays so unless its session is rotated.
LEMMA GrownSpent ==
  ASSUME RowsOK, NEW a, NEW n \in 0..Len(sessions), Grown(a, Len(sessions) + 1, 0), ~Tab!Spent(n)
  PROVE  ~SpentThen(n)
BY DEF RowsOK, Grown, Tab!Spent, SpentThen

LEMMA NewestLives ==
  ASSUME NEW a, NEW f, NEW e, Grown(a, f, e)
  PROVE  ~SpentThen(Len(sessions) + 1)
<1>1. sessions'[Len(sessions) + 1].live
  BY DEF Grown
<1> QED
  BY <1>1 DEF SpentThen

\* The invariant of the cookies after a step.
LEMMA CookiesThen ==
  ASSUME refresh' # None =>
           /\ ~refresh'.served => refresh'.successor = 0
           /\ refresh'.successor # 0 => /\ refresh'.cookie # 0
                                        /\ sessions'[refresh'.successor].who = sessions'[refresh'.cookie].who,
         ~disturbed' =>
           /\ ~reused'
           /\ refresh' = None \/ refresh'.successor = 0 => ~SpentThen(jar')
           /\ refresh' # None /\ ~refresh'.served => ~SpentThen(refresh'.cookie)
           /\ refresh' # None /\ refresh'.successor # 0 => ~SpentThen(refresh'.successor)
  PROVE  CookiesOK'
BY Zenon DEF CookiesOK, Tab!Spent, SpentThen

LEMMA SameDims == ASSUME RowsOK, UNCHANGED sessions PROVE Dimmed
BY DEF Dimmed, RowsOK

\* Nothing new is in flight and nothing is created.
LEMMA CookiesStay ==
  ASSUME RowsOK, TabTypes, CookiesOK, Keeps, Dimmed, refresh' = refresh, jar' \in {jar, 0},
         UNCHANGED <<disturbed, reused>>
  PROVE  CookiesOK'
<1> USE DEF TabTypes, PlainTypes, RefreshTypes
<1>1. ASSUME ~disturbed, refresh = None \/ refresh.successor = 0 PROVE ~SpentThen(jar')
  <2>1. CASE jar' = jar
    BY <1>1, <2>1, DimmedSpent DEF CookiesOK
  <2>2. CASE jar' = 0
    BY <2>2 DEF SpentThen
  <2> QED
    BY <2>1, <2>2
<1>2. ASSUME ~disturbed, refresh # None, ~refresh.served PROVE ~SpentThen(refresh.cookie)
  BY <1>2, DimmedSpent DEF CookiesOK
<1>3. ASSUME ~disturbed, refresh # None, refresh.successor # 0 PROVE ~SpentThen(refresh.successor)
  BY <1>3, DimmedSpent DEF CookiesOK
<1>4. ASSUME refresh # None, refresh.successor # 0
      PROVE  refresh.cookie # 0 /\ sessions'[refresh.successor].who = sessions'[refresh.cookie].who
  BY <1>4 DEF CookiesOK, Keeps
<1> QED
  BY <1>1, <1>2, <1>3, <1>4, CookiesThen DEF CookiesOK

\* A session of its own is created, which the browser gets.
LEMMA CookiesFresh ==
  ASSUME RowsOK, TabTypes, CookiesOK, Keeps, NEW a, Grown(a, Len(sessions) + 1, 0), refresh' = refresh,
         jar' = Len(sessions) + 1, UNCHANGED <<disturbed, reused>>
  PROVE  CookiesOK'
<1> USE DEF TabTypes, PlainTypes, RefreshTypes
<1>1. ~SpentThen(jar')
  BY NewestLives
<1>2. ASSUME ~disturbed, refresh # None, ~refresh.served PROVE ~SpentThen(refresh.cookie)
  BY <1>2, GrownSpent DEF CookiesOK
<1>3. ASSUME ~disturbed, refresh # None, refresh.successor # 0 PROVE ~SpentThen(refresh.successor)
  BY <1>3, GrownSpent DEF CookiesOK
<1>4. ASSUME refresh # None, refresh.successor # 0
      PROVE  refresh.cookie # 0 /\ sessions'[refresh.successor].who = sessions'[refresh.cookie].who
  BY <1>4 DEF CookiesOK, Keeps
<1> QED
  BY <1>1, <1>2, <1>3, <1>4, CookiesThen DEF CookiesOK

\* A refresh begins, with the browser's cookie.
LEMMA CookiesBegin ==
  ASSUME RowsOK, TabTypes, CookiesOK, Dimmed, jar' = jar, reused' = reused,
         disturbed => disturbed',
         ~disturbed' => refresh = None,
         refresh' = [cookie |-> jar, served |-> FALSE, successor |-> 0]
  PROVE  CookiesOK'
<1>1. jar \in Nat /\ jar \in 0..Len(sessions)
  BY DEF TabTypes, PlainTypes
<1>2. refresh' # None /\ refresh'.cookie = jar /\ ~refresh'.served /\ refresh'.successor = 0
  BY <1>1, RefreshBegins
<1>3. ASSUME ~disturbed' PROVE ~SpentThen(jar) /\ ~reused'
  BY <1>1, <1>3, DimmedSpent DEF CookiesOK
<1> QED
  BY <1>2, <1>3, CookiesThen

LEMMA CookiesJoin ==
  ASSUME RowsOK, TabTypes, CookiesOK, Keeps, Dimmed, jar' = jar, refresh' = Tab!refreshAccessToken,
         UNCHANGED <<disturbed, reused>>
  PROVE  CookiesOK'
<1>1. CASE refresh = None
  BY <1>1, CookiesBegin DEF Tab!refreshAccessToken
<1>2. CASE refresh # None
  BY <1>2, CookiesStay DEF Tab!refreshAccessToken
<1> QED
  BY <1>1, <1>2

\* The server answers a refresh.
LEMMA CookiesServed ==
  ASSUME RowsOK, TabTypes, CookiesOK, Keeps, Tab!RefreshServed
  PROVE  CookiesOK'
<1> DEFINE k == refresh.cookie
           n == IF Tab!Accepted(k) THEN Len(sessions) + 1 ELSE 0
<1>1. /\ refresh # None /\ ~refresh.served /\ Len(sessions) < MaxSessions /\ sessions' = Tab!Presented(k)
      /\ refresh' = [refresh EXCEPT !.served = TRUE, !.successor = n]
      /\ reused' = (reused \/ Tab!Spent(k))
      /\ jar' = jar /\ disturbed' = disturbed
  BY Zenon DEF Tab!RefreshServed
<1>2. refresh \in Tab!Renewals /\ k \in 0..Len(sessions) /\ jar \in 0..Len(sessions) /\ refresh.successor = 0
  BY <1>1 DEF TabTypes, PlainTypes, RefreshTypes, CookiesOK
<1>3. n \in Nat
  <2>1. Len(sessions) \in Nat
    BY DEF Keeps
  <2> QED
    BY <2>1
<1> HIDE DEF n
<1>4. refresh' # None /\ refresh'.cookie = k /\ refresh'.served /\ refresh'.successor = n
  BY ONLY <1>1, <1>2, <1>3, RefreshIsServed
<1>5. ASSUME ~disturbed PROVE ~Tab!Spent(k) /\ ~Tab!Spent(jar) /\ ~reused
  BY <1>1, <1>2, <1>5 DEF CookiesOK
<1>6. ASSUME ~disturbed' PROVE ~reused'
  BY <1>1, <1>5, <1>6
<1>7. CASE Tab!Accepted(k)
  <2>1. k \in 1..Len(sessions) /\ sessions[k].live
    BY <1>2, <1>7 DEF Tab!Accepted
  <2>2. n = Len(sessions) + 1 /\ n # 0
    <3>1. Len(sessions) \in Nat
      BY DEF Keeps
    <3> QED
      BY <1>7, <3>1 DEF n
  <2>3. Grown(sessions[k].who, sessions[k].family, k)
    BY <1>1, <2>1, PresentedGrows
  <2>4. ~SpentThen(n)
    BY <2>2, <2>3, NewestLives
  <2>5. k # 0 /\ sessions'[n].who = sessions'[k].who
    BY <2>1, <2>2, <2>3 DEF Grown
  <2> QED
    BY <1>4, <1>6, <2>2, <2>4, <2>5, CookiesThen
<1>8. CASE ~Tab!Accepted(k)
  <2>1. n = 0
    BY <1>8 DEF n
  <2>2. Dimmed
    BY <1>1, <1>8, PresentedDims
  <2>3. ASSUME ~disturbed' PROVE ~SpentThen(jar')
    BY <1>1, <1>2, <1>5, <2>2, <2>3, DimmedSpent
  <2> QED
    BY <1>4, <1>6, <2>1, <2>3, CookiesThen
<1> QED
  BY <1>7, <1>8

\* No step spends a cookie behind the tab's back without saying so.
LEMMA CookiesStep == ASSUME RowsOK, TabTypes, CookiesOK, Keeps, Tab!Next PROVE CookiesOK'
<1>1. CASE Tab!RefreshServed
  BY <1>1, CookiesServed
<1>2. CASE Tab!RefreshAnswered
  <2>1. /\ refresh # None /\ refresh.successor # 0 /\ jar' = refresh.successor /\ refresh' = None
        /\ UNCHANGED <<sessions, disturbed, reused>>
    BY <1>2, Zenon DEF Tab!RefreshAnswered
  <2>2. ASSUME ~disturbed' PROVE ~reused' /\ ~SpentThen(jar')
    <3>1. Dimmed /\ refresh.successor \in 0..Len(sessions)
      BY <2>1, SameDims DEF TabTypes, RefreshTypes
    <3> QED
      BY <2>1, <2>2, <3>1, DimmedSpent DEF CookiesOK
  <2> QED
    BY <2>1, <2>2, CookiesThen
<1>3. CASE Tab!RefreshFailed
  <2>1. /\ refresh # None /\ refresh' = None /\ disturbed' = (disturbed \/ refresh.successor # 0)
        /\ UNCHANGED <<sessions, jar, reused>>
    BY <1>3, Zenon DEF Tab!RefreshFailed
  <2>2. ASSUME ~disturbed' PROVE ~disturbed /\ refresh.successor = 0
    BY <2>1, <2>2, Zenon
  <2>3. ASSUME ~disturbed' PROVE ~reused' /\ ~SpentThen(jar')
    <3>1. Dimmed /\ jar \in 0..Len(sessions)
      BY <2>1, SameDims DEF TabTypes, PlainTypes
    <3> QED
      BY <2>1, <2>2, <2>3, <3>1, DimmedSpent DEF CookiesOK
  <2> QED
    BY <2>1, <2>3, CookiesThen
<1>4. CASE Tab!Reload
  <2>1. /\ jar' = jar /\ UNCHANGED <<sessions, reused>> /\ disturbed' = (disturbed \/ refresh # None)
        /\ refresh' = [cookie |-> jar, served |-> FALSE, successor |-> 0]
    BY <1>4, Zenon DEF Tab!Reload, Tab!Renewal
  <2>2. (disturbed => disturbed') /\ (~disturbed' => refresh = None)
    BY <2>1, Zenon
  <2> QED
    BY <2>1, <2>2, SameDims, CookiesBegin
<1>5. ASSUME NEW t \in Tasks, Tab!Unauthorized(t) PROVE CookiesOK'
  <2>1. jar' = jar /\ refresh' = Tab!refreshAccessToken /\ UNCHANGED <<sessions, disturbed, reused>>
    BY <1>5, Zenon DEF Tab!Unauthorized
  <2> QED
    BY <2>1, SameDims, CookiesJoin
<1>6. ASSUME NEW t \in Tasks, Tab!PageAnswered(t) PROVE CookiesOK'
  <2>1. refresh' = refresh /\ jar' \in {jar, 0} /\ UNCHANGED <<disturbed, reused>>
    BY <1>6, Zenon DEF Tab!PageAnswered
  <2>2. Dimmed
    BY <1>6, SameDims DEF Tab!PageAnswered
  <2> QED
    BY <2>1, <2>2, CookiesStay
<1>7. ASSUME NEW t \in Tasks, Tab!refreshSession(t) PROVE CookiesOK'
  <2>1. refresh' = refresh /\ jar' \in {jar, 0} /\ UNCHANGED <<disturbed, reused>>
    BY <1>7, Zenon DEF Tab!refreshSession
  <2>2. Dimmed
    BY <1>7, SameDims DEF Tab!refreshSession
  <2> QED
    BY <2>1, <2>2, CookiesStay
<1>8. ASSUME NEW t \in Tasks, Tab!LoginAnswered(t) PROVE CookiesOK'
  <2>1. tasks[t].as \in Accounts
    BY <1>8 DEF Tab!LoginAnswered, Tab!Free, TabTypes, TaskTypes
  <2>2. refresh' = refresh /\ UNCHANGED <<disturbed, reused>>
    BY <1>8, Zenon DEF Tab!LoginAnswered
  <2>3. CASE UNCHANGED <<sessions, jar>>
    BY <2>2, <2>3, SameDims, CookiesStay
  <2>4. CASE Len(sessions) < MaxSessions /\ sessions' = Tab!Created(sessions, tasks[t].as, Len(sessions) + 1)
             /\ jar' = Len(sessions) + 1
    BY <2>1, <2>2, <2>4, CreatedGrows, CookiesFresh
  <2> QED
    BY <1>8, <2>3, <2>4, Zenon DEF Tab!LoginAnswered
<1>9. ASSUME NEW t \in Tasks, Tab!LogoutServed(t) PROVE CookiesOK'
  <2>1. refresh' = refresh /\ jar' \in {jar, 0} /\ UNCHANGED <<disturbed, reused>>
    BY <1>9, Zenon DEF Tab!LogoutServed
  <2>2. Dimmed
    BY <1>9, EndedDims DEF Tab!LogoutServed
  <2> QED
    BY <2>1, <2>2, CookiesStay
<1>10. ASSUME NEW t \in Tasks, Tab!LogoutAnswered(t) PROVE CookiesOK'
  <2>1. refresh' = refresh /\ jar' \in {jar, 0} /\ UNCHANGED <<disturbed, reused>>
    BY <1>10, Zenon DEF Tab!LogoutAnswered
  <2>2. Dimmed
    BY <1>10, SameDims DEF Tab!LogoutAnswered
  <2> QED
    BY <2>1, <2>2, CookiesStay
<1>11. ASSUME NEW t \in Tasks, Tab!Ask(t) PROVE CookiesOK'
  <2>1. refresh' = refresh /\ jar' \in {jar, 0} /\ UNCHANGED <<disturbed, reused>>
    BY <1>11, Zenon DEF Tab!Ask
  <2>2. Dimmed
    BY <1>11, SameDims DEF Tab!Ask
  <2> QED
    BY <2>1, <2>2, CookiesStay
<1>12. ASSUME NEW t \in Tasks, Tab!logout(t) PROVE CookiesOK'
  <2>1. refresh' = refresh /\ jar' \in {jar, 0} /\ UNCHANGED <<disturbed, reused>>
    BY <1>12, Zenon DEF Tab!logout
  <2>2. Dimmed
    BY <1>12, SameDims DEF Tab!logout
  <2> QED
    BY <2>1, <2>2, CookiesStay
<1>13. ASSUME NEW t \in Tasks, NEW a \in Accounts, Tab!ResetPassword(t, a) PROVE CookiesOK'
  <2>1. jar' = jar /\ refresh' = Tab!refreshAccessToken /\ UNCHANGED <<disturbed, reused>>
    BY <1>13, Zenon DEF Tab!ResetPassword
  <2>2. Dimmed
    BY <1>13, EndedDims DEF Tab!ResetPassword
  <2> QED
    BY <2>1, <2>2, CookiesJoin
<1>14. ASSUME NEW t \in Tasks, NEW a \in Accounts, Tab!login(t, a) PROVE CookiesOK'
  <2>1. refresh' = refresh /\ jar' \in {jar, 0} /\ UNCHANGED <<disturbed, reused>>
    BY <1>14, Zenon DEF Tab!login
  <2>2. Dimmed
    BY <1>14, SameDims DEF Tab!login
  <2> QED
    BY <2>1, <2>2, CookiesStay
<1>15. CASE Tab!OtherTabRefreshes
  <2>1. refresh' = refresh /\ disturbed'
    BY <1>15, Zenon DEF Tab!OtherTabRefreshes
  <2>2. ASSUME refresh # None
        PROVE  /\ ~refresh.served => refresh.successor = 0
               /\ refresh.successor # 0 =>
                    refresh.cookie # 0 /\ sessions'[refresh.successor].who = sessions'[refresh.cookie].who
    BY <2>2 DEF CookiesOK, Keeps, TabTypes, RefreshTypes
  <2> QED
    BY <2>1, <2>2, CookiesThen
<1>16. CASE Tab!OtherTabSignsOut
  <2>1. refresh' = refresh /\ jar' \in {jar, 0} /\ UNCHANGED <<disturbed, reused>>
    BY <1>16, Zenon DEF Tab!OtherTabSignsOut
  <2>2. Dimmed
    BY <1>16, EndedDims DEF Tab!OtherTabSignsOut
  <2> QED
    BY <2>1, <2>2, CookiesStay
<1>17. ASSUME NEW a \in Accounts, Tab!OtherTabSignsIn(a) PROVE CookiesOK'
  <2>1. Grown(a, Len(sessions) + 1, 0)
    BY <1>17, CreatedGrows DEF Tab!OtherTabSignsIn
  <2>2. refresh' = refresh /\ jar' = Len(sessions) + 1 /\ UNCHANGED <<disturbed, reused>>
    BY <1>17, Zenon DEF Tab!OtherTabSignsIn
  <2> QED
    BY <2>1, <2>2, CookiesFresh
<1> QED
  BY <1>1, <1>2, <1>3, <1>4, <1>5, <1>6, <1>7, <1>8, <1>9, <1>10, <1>11, <1>12, <1>13, <1>14, <1>15, <1>16, <1>17 DEF Tab!Next

-----------------------------------------------------------------------------
(* The halves of the tab agree.                                            *)

\* If nothing disagrees after a step, no answer was late in it.
LEMMA NotLate ==
  ASSUME NEW ts, crossed \cup Tab!Late(ts) = {}
  PROVE  crossed = {} /\ \A t \in ts : tasks[t].for = user
<1>1. crossed = {} /\ "late" \notin Tab!Late(ts)
  OBVIOUS
<1> QED
  BY <1>1 DEF Tab!Late

\* Nothing of the tab changes but its cookie, and a refresh in flight.
LEMMA AgreementStays ==
  ASSUME TabTypes, Keeps, Agreement, UNCHANGED <<tasks, token, user, isLoading, crossed>>,
         refresh' # None => refresh # None /\ refresh'.cookie = refresh.cookie,
         jar' # 0 => \/ jar # 0 /\ sessions'[jar'].who = sessions[jar].who
                     \/ user # None /\ sessions'[jar'].who = user
  PROVE  Agreement'
<1> SUFFICES ASSUME crossed' = {} PROVE Agreement'
  BY Zenon DEF Agreement
<1>1. (refresh # None => Tab!Waiting # {}) /\ IF isLoading THEN Beginning ELSE Settled
  BY Zenon DEF Agreement
<1>2. Tab!Waiting' = Tab!Waiting
  BY Zenon DEF Tab!Waiting, Tab!Free
<1>3. ASSUME refresh # None PROVE refresh.cookie \in 0..Len(sessions)
  BY <1>3 DEF TabTypes, RefreshTypes
<1>4. CASE isLoading
  <2>1. Beginning
    BY <1>1, <1>4
  <2>2. Beginning'
    BY <2>1 DEF Beginning, Started, Knows
  <2> QED
    BY <1>1, <1>2, <1>4, <2>2, Zenon DEF Agreement
<1>5. CASE ~isLoading
  <2>1. Settled
    BY <1>1, <1>5
  <2>2. ASSUME refresh' # None, refresh'.cookie # 0
        PROVE  \E t \in Tab!Waiting' : tasks'[t].for = sessions'[refresh'.cookie].who
    BY <1>2, <1>3, <2>1, <2>2 DEF Settled, Keeps
  <2>3. Settled'
    BY <2>1, <2>2 DEF Settled, Asks, Started, Knows
  <2> QED
    BY <1>1, <1>2, <1>5, <2>3, Zenon DEF Agreement
<1> QED
  BY <1>4, <1>5

\* When the tab has settled, and one of its tasks takes a step.
LEMMA SettledTask ==
  ASSUME TabTypes, Keeps, Settled, refresh # None => Tab!Waiting # {},
         NEW t \in Tasks, t \notin Tab!Waiting, \A s \in Tasks : s # t => tasks'[s] = tasks[s],
         ~isLoading', token' = user', user' # None /\ jar' # 0 => sessions'[jar'].who = user',
         Asks(t)' => tasks'[t].for # None /\ (Knows(t)' => tasks'[t].as = tasks'[t].for),
         \/ refresh' = refresh
         \/ t \in Tab!Waiting' /\ (refresh'.cookie # 0 => tasks'[t].for = sessions'[refresh'.cookie].who)
  PROVE  Agreement'
<1>1. ASSUME NEW s \in Tab!Waiting PROVE s \in Tasks /\ s # t /\ s \in Tab!Waiting' /\ tasks'[s] = tasks[s]
  BY DEF Tab!Waiting, Tab!Free
<1>2. refresh' # None => Tab!Waiting' # {}
  BY <1>1
<1>3. ASSUME refresh' # None, refresh'.cookie # 0
      PROVE  \E s \in Tab!Waiting' : tasks'[s].for = sessions'[refresh'.cookie].who
  <2>1. CASE refresh' = refresh
    <3>1. refresh.cookie \in 1..Len(sessions) /\ sessions'[refresh.cookie].who = sessions[refresh.cookie].who
      BY <1>3, <2>1 DEF TabTypes, RefreshTypes, Keeps
    <3>2. PICK s \in Tab!Waiting : tasks[s].for = sessions[refresh.cookie].who
      BY <1>3, <2>1 DEF Settled
    <3> QED
      BY <1>1, <2>1, <3>1, <3>2
  <2>2. CASE t \in Tab!Waiting' /\ (refresh'.cookie # 0 => tasks'[t].for = sessions'[refresh'.cookie].who)
    BY <1>3, <2>2
  <2> QED
    BY <2>1, <2>2
<1>4. ASSUME NEW s \in Tasks, Asks(s)'
      PROVE  tasks'[s].for # None /\ (Knows(s)' => tasks'[s].as = tasks'[s].for)
  BY <1>4 DEF Settled, Asks, Knows, Started
<1>5. Settled'
  BY <1>3, <1>4, Zenon DEF Settled
<1> QED
  BY <1>2, <1>5, Zenon DEF Agreement

LEMMA SettledJar ==
  ASSUME TabTypes, Keeps, Settled
  PROVE  user # None /\ jar # 0 => sessions'[jar].who = user
BY DEF TabTypes, PlainTypes, Keeps, Settled

LEMMA AgreementIs ==
  ASSUME Agreement, crossed = {}
  PROVE  (refresh # None => Tab!Waiting # {}) /\ (isLoading => Beginning) /\ (~isLoading => Settled)
BY Zenon DEF Agreement

\* A task that is not of the renewal of the session has not begun before the tab has
\* settled, and neither has any while somebody is signed in.
LEMMA HasSettled ==
  ASSUME Agreement, crossed = {},
         \/ user # None \/ ~isLoading
         \/ \E t \in Tasks : tasks[t] # None /\ tasks[t].kind # "session"
  PROVE  ~isLoading /\ Settled
BY AgreementIs, Zenon DEF Beginning, Started

\* A task ends.
LEMMA EndsAgree ==
  ASSUME TabTypes, Keeps, Settled, refresh # None => Tab!Waiting # {},
         NEW t \in Tasks, t \notin Tab!Waiting, Ends(t),
         ~isLoading', token' = user', user' # None /\ jar' # 0 => sessions'[jar'].who = user',
         refresh' = refresh
  PROVE  Agreement'
<1>1. ~Asks(t)'
  BY Zenon DEF Ends, Asks, Started
<1> QED
  BY <1>1, SettledTask, Zenon DEF Ends

\* A task begins, or goes on, that knows nobody.
LEMMA BecomesAgree ==
  ASSUME TabTypes, Keeps, Settled, refresh # None => Tab!Waiting # {},
         NEW t \in Tasks, t \notin Tab!Waiting, NEW kind, NEW stage, NEW for, NEW as,
         Becomes(t, kind, stage, for, as), for # None,
         kind \in {"login", "logout"} \/ stage \in {"waiting", "waiting again"} \/ (kind = "page" /\ stage = "sent"),
         ~isLoading', UNCHANGED <<token, user>>, jar' = jar,
         \/ refresh' = refresh
         \/ stage \in {"waiting", "waiting again"} /\ for = user /\ refresh'.cookie = jar
  PROVE  Agreement'
<1>1. tasks'[t] # None /\ tasks'[t].kind = kind /\ tasks'[t].stage = stage /\ tasks'[t].for = for
      /\ \A s \in Tasks : s # t => tasks'[s] = tasks[s]
  BY Zenon DEF Becomes
<1>2. Asks(t)' => ~Knows(t)'
  BY <1>1 DEF Asks, Knows, Started
<1>3. token' = user' /\ (user' # None /\ jar' # 0 => sessions'[jar'].who = user')
  BY SettledJar DEF Settled
<1>4. ASSUME stage \in {"waiting", "waiting again"} PROVE t \in Tab!Waiting'
  BY <1>1, <1>4 DEF Tab!Waiting, Tab!Free
<1>5. \/ refresh' = refresh
      \/ t \in Tab!Waiting' /\ (refresh'.cookie # 0 => tasks'[t].for = sessions'[refresh'.cookie].who)
  BY <1>1, <1>4, SettledJar
<1> QED
  BY <1>1, <1>2, <1>3, <1>5, SettledTask

\* The halves of the tab agree after a step, or the step says why they may not.
LEMMA AgreementStep == ASSUME RowsOK, TabTypes, CookiesOK, Agreement, Keeps, Tab!Next PROVE Agreement'
<1>1. CASE Tab!RefreshServed
  <2>1. refresh # None /\ refresh'.cookie = refresh.cookie /\ UNCHANGED <<jar, tasks, token, user, isLoading, crossed>>
    <3>1. /\ refresh # None /\ refresh' = [refresh EXCEPT !.served = TRUE,
               !.successor = IF Tab!Accepted(refresh.cookie) THEN Len(sessions) + 1 ELSE 0]
          /\ UNCHANGED <<jar, tasks, token, user, isLoading, crossed>>
      BY <1>1, Zenon DEF Tab!RefreshServed
    <3>2. refresh \in Tab!Renewals
      BY <3>1 DEF TabTypes, RefreshTypes
    <3>3. refresh'.cookie = refresh.cookie
      BY <3>1, <3>2 DEF Tab!Renewals
    <3> QED
      BY <3>1, <3>3
  <2>2. jar # 0 => sessions'[jar].who = sessions[jar].who
    BY DEF TabTypes, PlainTypes, Keeps
  <2> QED
    BY <2>1, <2>2, AgreementStays
<1>2. CASE Tab!RefreshAnswered
  <2> SUFFICES ASSUME crossed' = {} PROVE Agreement'
    BY Zenon DEF Agreement
  <2> DEFINE k == refresh.cookie
             n == refresh.successor
  <2>1. /\ refresh # None /\ n # 0 /\ jar' = n /\ token' = sessions[n].who /\ refresh' = None
        /\ crossed' = crossed \cup Tab!Late(Tab!Waiting) /\ UNCHANGED <<sessions, user, isLoading>>
    BY <1>2, Zenon DEF Tab!RefreshAnswered
  <2>2. crossed = {} /\ \A t \in Tab!Waiting : tasks[t].for = user
    BY <2>1, NotLate
  <2>3. k # 0 /\ sessions[k].who = sessions[n].who /\ token' \in Accounts /\ token' # None
    <3>1. n \in 1..Len(sessions')
      BY <2>1 DEF TabTypes, RefreshTypes
    <3>2. token' \in Accounts
      BY <2>1, <3>1 DEF Keeps
    <3>3. k # 0 /\ sessions[k].who = sessions[n].who
      BY <2>1 DEF CookiesOK
    <3> QED
      BY <3>2, <3>3, AccountsAssumption
  <2>4. Resumes
    BY <1>2, <2>3, TasksResume DEF TabTypes
  <2>5. sessions'[jar'].who = token'
    BY <2>1
  <2> HIDE DEF k, n
  <2>6. CASE isLoading
    <3>1. Beginning /\ Tab!Waiting # {}
      BY <2>1, <2>2, <2>6, AgreementIs
    <3>2. PICK w \in Tab!Waiting : w \in Tasks /\ tasks[w] # None
      BY <3>1 DEF Tab!Waiting, Tab!Free
    <3>3. tasks[w].kind = "session" /\ \A t \in Tasks : tasks[t] # None => t = w
      BY <3>1, <3>2, Zenon DEF Beginning, Started
    <3>4. /\ tasks'[w] # None /\ tasks'[w].kind = "session" /\ tasks'[w].as = token'
          /\ tasks'[w].stage \in {"sent", "again"}
      BY <2>4, <3>2, <3>3 DEF Resumes
    <3>5. ASSUME NEW t \in Tasks, tasks'[t] # None PROVE t = w
      <4>1. tasks[t] # None
        <5>1. CASE t \in Tab!Waiting
          BY <5>1 DEF Tab!Waiting, Tab!Free
        <5>2. CASE t \notin Tab!Waiting
          BY <2>4, <3>5, <5>2, Zenon DEF Resumes
        <5> QED
          BY <5>1, <5>2
      <4> QED
        BY <3>3, <4>1
    <3>6. user' = None
      BY <2>1, <3>1 DEF Beginning
    <3>7. Beginning'
      BY <2>3, <2>5, <3>2, <3>4, <3>5, <3>6 DEF Beginning, Started, Knows
    <3> QED
      BY <2>1, <2>6, <3>7, Zenon DEF Agreement
  <2>7. CASE ~isLoading
    <3>1. Settled
      BY <2>2, <2>7, AgreementIs
    <3>2. PICK w \in Tab!Waiting : tasks[w].for = sessions[k].who
      BY <2>1, <2>3, <3>1 DEF Settled, k
    <3>3. token' = user
      BY <2>1, <2>2, <2>3, <3>2
    <3>4. ASSUME NEW t \in Tasks, Asks(t)'
          PROVE  tasks'[t].for # None /\ (Knows(t)' => tasks'[t].as = tasks'[t].for)
      <4>1. CASE t \notin Tab!Waiting
        <5>1. tasks'[t] = tasks[t]
          BY <2>4, <4>1, Zenon DEF Resumes
        <5> QED
          BY <3>1, <3>4, <5>1, Zenon DEF Settled, Asks, Started, Knows
      <4>2. CASE t \in Tab!Waiting
        <5>1. tasks'[t].for = tasks[t].for /\ tasks'[t].as = token'
          BY <2>4, <4>2, Zenon DEF Resumes
        <5> QED
          BY <2>2, <2>3, <3>3, <4>2, <5>1
      <4> QED
        BY <4>1, <4>2
    <3>5. Settled'
      BY <2>1, <2>5, <3>3, <3>4, Zenon DEF Settled
    <3> QED
      BY <2>1, <2>7, <3>5, Zenon DEF Agreement
  <2> QED
    BY <2>6, <2>7
<1>3. CASE Tab!RefreshFailed
  <2> SUFFICES ASSUME crossed' = {} PROVE Agreement'
    BY Zenon DEF Agreement
  <2>1. /\ refresh # None /\ refresh' = None /\ token' = None /\ user' = None
        /\ isLoading' = (isLoading /\ \A t \in Tab!Waiting : tasks[t].kind # "session")
        /\ tasks' = [t \in Tasks |-> IF t \in Tab!Waiting THEN None ELSE tasks[t]]
        /\ crossed' = crossed \cup Tab!Late(Tab!Waiting)
    BY <1>3, Zenon DEF Tab!RefreshFailed
  <2>2. crossed = {}
    BY <2>1, NotLate
  <2>3. ~isLoading' /\ \A t \in Tasks : Asks(t)' => tasks'[t].for # None /\ (Knows(t)' => tasks'[t].as = tasks'[t].for)
    <3>1. CASE isLoading
      <4>1. Beginning /\ Tab!Waiting # {}
        BY <2>1, <2>2, <3>1, AgreementIs
      <4>2. PICK w \in Tab!Waiting : w \in Tasks /\ tasks[w] # None
        BY <4>1 DEF Tab!Waiting, Tab!Free
      <4>3. tasks[w].kind = "session" /\ \A t \in Tasks : tasks[t] # None => t = w
        BY <4>1, <4>2, Zenon DEF Beginning, Started
      <4>4. ~isLoading'
        BY <2>1, <4>2, <4>3, Zenon
      <4>5. \A t \in Tasks : tasks'[t] = None
        BY <2>1, <4>2, <4>3
      <4> QED
        BY <4>4, <4>5, Zenon DEF Asks, Started
    <3>2. CASE ~isLoading
      <4>1. Settled
        BY <2>2, <3>2, AgreementIs
      <4>2. ~isLoading'
        BY <2>1, <3>2, Zenon
      <4>3. ASSUME NEW t \in Tasks, tasks'[t] # None PROVE tasks'[t] = tasks[t]
        BY <2>1, <4>3
      <4> QED
        BY <4>1, <4>2, <4>3, Zenon DEF Settled, Asks, Started, Knows
    <3> QED
      BY <3>1, <3>2
  <2>4. Settled'
    BY <2>1, <2>3, Zenon DEF Settled
  <2> QED
    BY <2>1, <2>3, <2>4, Zenon DEF Agreement
<1>4. CASE Tab!Reload
  <2> SUFFICES ASSUME crossed' = {} PROVE Agreement'
    BY Zenon DEF Agreement
  <2>1. tasks' = Tab!Mounted /\ token' = None /\ user' = None /\ isLoading'
    BY <1>4, Zenon DEF Tab!Reload
  <2>2. ASSUME NEW t \in Tasks, Started(t)'
        PROVE  tasks'[t].kind = "session" /\ tasks'[t].stage = "waiting" /\ ~Knows(t)'
    BY <2>1, <2>2, MountedIs DEF Started, Knows
  <2>3. \A s, t \in Tasks : Started(s)' /\ Started(t)' => s = t
    BY <2>1, MountedIs, Zenon DEF Started
  <2>4. Beginning'
    BY <2>1, <2>2, <2>3 DEF Beginning
  <2>5. PICK t \in Tasks : tasks'[t] # None
    BY <2>1, MountedIs
  <2>6. t \in Tab!Waiting'
    BY <2>2, <2>5 DEF Tab!Waiting, Tab!Free, Started
  <2> QED
    BY <2>1, <2>4, <2>6, Zenon DEF Agreement
<1>5. ASSUME NEW t \in Tasks, Tab!Unauthorized(t) PROVE Agreement'
  <2> SUFFICES ASSUME crossed' = {} PROVE Agreement'
    BY Zenon DEF Agreement
  <2>1. /\ tasks[t] # None /\ tasks[t].kind \in {"page", "session"} /\ tasks[t].stage = "sent"
        /\ tasks' = [tasks EXCEPT ![t].stage = "waiting again", ![t].as = None]
        /\ refresh' = Tab!refreshAccessToken /\ crossed' = crossed \cup Tab!Late({t})
        /\ UNCHANGED <<jar, token, user, isLoading>>
    BY <1>5, Zenon DEF Tab!Unauthorized, Tab!Free
  <2>2. crossed = {} /\ tasks[t].for = user
    BY <2>1, NotLate
  <2>3. Becomes(t, tasks[t].kind, "waiting again", tasks[t].for, None)
    BY <2>1, TaskWaitsAgain DEF TabTypes
  <2>4. CASE isLoading
    <3>1. Beginning
      BY <2>2, <2>4, AgreementIs
    <3>2. t \in Tab!Waiting'
      BY <2>3 DEF Becomes, Tab!Waiting, Tab!Free
    <3>3. \A s \in Tasks : Started(s)' => s = t
      BY <2>1, <2>3, <3>1, Zenon DEF Becomes, Beginning, Started
    <3>4. Started(t)' /\ tasks'[t].kind = "session" /\ tasks'[t].stage = "waiting again" /\ ~Knows(t)'
      BY <2>1, <2>3, <3>1 DEF Becomes, Beginning, Started, Knows
    <3>5. user' = None
      BY <2>1, <3>1 DEF Beginning
    <3>6. Beginning'
      BY <3>3, <3>4, <3>5 DEF Beginning
    <3> QED
      BY <2>1, <2>4, <3>2, <3>6, Zenon DEF Agreement
  <2>5. CASE ~isLoading
    <3>1. Settled /\ (refresh # None => Tab!Waiting # {})
      BY <2>2, <2>5, AgreementIs
    <3>2. tasks[t].for # None
      BY <2>1, <3>1 DEF Settled, Asks, Started
    <3>3. t \notin Tab!Waiting
      BY <2>1 DEF Tab!Waiting
    <3>4. refresh' = refresh \/ refresh'.cookie = jar
      BY <2>1, JarIsNat, RefreshBegins DEF Tab!refreshAccessToken, TabTypes
    <3> QED
      BY <2>1, <2>2, <2>3, <2>5, <3>1, <3>2, <3>3, <3>4, BecomesAgree
  <2> QED
    BY <2>4, <2>5
<1>6. ASSUME NEW t \in Tasks, Tab!PageAnswered(t) PROVE Agreement'
  <2> SUFFICES ASSUME crossed' = {} PROVE Agreement'
    BY Zenon DEF Agreement
  <2>1. /\ tasks[t] # None /\ tasks[t].kind = "page" /\ tasks[t].stage \in {"sent", "again"}
        /\ tasks' = [tasks EXCEPT ![t] = None]
        /\ UNCHANGED <<jar, token, user, isLoading, refresh, crossed>>
    BY <1>6, Zenon DEF Tab!PageAnswered, Tab!Free
  <2>2. ~isLoading /\ Settled /\ (refresh # None => Tab!Waiting # {})
    BY <2>1, HasSettled, AgreementIs
  <2>3. t \notin Tab!Waiting
    BY <2>1 DEF Tab!Waiting
  <2>4. Ends(t)
    BY <2>1, TaskEnds DEF TabTypes
  <2>5. token' = user' /\ (user' # None /\ jar' # 0 => sessions'[jar'].who = user')
    BY <2>1, <2>2, SettledJar DEF Settled
  <2> QED
    BY <2>1, <2>2, <2>3, <2>4, <2>5, EndsAgree
<1>7. ASSUME NEW t \in Tasks, Tab!refreshSession(t) PROVE Agreement'
  <2> SUFFICES ASSUME crossed' = {} PROVE Agreement'
    BY Zenon DEF Agreement
  <2>1. /\ tasks[t] # None /\ tasks[t].kind = "session" /\ tasks[t].stage \in {"sent", "again"}
        /\ tasks' = [tasks EXCEPT ![t] = None] /\ ~isLoading'
        /\ crossed' = crossed \cup Tab!Late({t}) /\ UNCHANGED <<sessions, jar, refresh>>
        /\ (user' = tasks[t].as /\ token' = token) \/ (user' = None /\ token' = None)
    BY <1>7, Zenon DEF Tab!refreshSession, Tab!Free
  <2>2. crossed = {} /\ tasks[t].for = user
    BY <2>1, NotLate
  <2>3. Ends(t)
    BY <2>1, TaskEnds DEF TabTypes
  <2>4. t \notin Tab!Waiting /\ Knows(t) /\ Started(t) /\ Asks(t)
    BY <2>1 DEF Tab!Waiting, Knows, Started, Asks
  <2>5. CASE isLoading
    <3>1. Beginning
      BY <2>2, <2>5, AgreementIs
    <3>2. \A s \in Tasks : tasks[s] # None => s = t
      BY <2>4, <3>1, Zenon DEF Beginning, Started
    <3>3. Tab!Waiting = {}
      BY <2>4, <3>2 DEF Tab!Waiting, Tab!Free
    <3>4. refresh = None
      BY <2>2, <3>3, AgreementIs
    <3>5. token' = user' /\ (user' # None /\ jar' # 0 => sessions'[jar'].who = user')
      BY <2>1, <2>4, <3>1 DEF Beginning
    <3>6. \A s \in Tasks : ~Asks(s)'
      BY <2>3, <3>2, Zenon DEF Ends, Asks, Started
    <3>7. Settled'
      BY <2>1, <3>4, <3>5, <3>6, Zenon DEF Settled
    <3> QED
      BY <2>1, <3>4, <3>7, Zenon DEF Agreement
  <2>6. CASE ~isLoading
    <3>1. Settled /\ (refresh # None => Tab!Waiting # {})
      BY <2>2, <2>6, AgreementIs
    <3>2. token' = user' /\ (user' # None /\ jar' # 0 => sessions'[jar'].who = user')
      BY <2>1, <2>2, <2>4, <3>1 DEF Settled
    <3> QED
      BY <2>1, <2>3, <2>4, <3>1, <3>2, EndsAgree
  <2> QED
    BY <2>5, <2>6
<1>8. ASSUME NEW t \in Tasks, Tab!LoginAnswered(t) PROVE Agreement'
  <2> SUFFICES ASSUME crossed' = {} PROVE Agreement'
    BY Zenon DEF Agreement
  <2>1. /\ tasks[t] # None /\ tasks[t].kind = "login" /\ tasks' = [tasks EXCEPT ![t] = None]
        /\ UNCHANGED <<isLoading, refresh, crossed>>
    BY <1>8, Zenon DEF Tab!LoginAnswered, Tab!Free
  <2>2. ~isLoading /\ Settled /\ (refresh # None => Tab!Waiting # {})
    BY <2>1, HasSettled, AgreementIs
  <2>3. t \notin Tab!Waiting /\ tasks[t].as \in Accounts
    BY <2>1 DEF Tab!Waiting, Tab!Free, TabTypes, TaskTypes
  <2>4. Ends(t)
    BY <2>1, TaskEnds DEF TabTypes
  <2>5. CASE UNCHANGED <<sessions, jar, token, user>>
    <3>1. token' = user' /\ (user' # None /\ jar' # 0 => sessions'[jar'].who = user')
      BY <2>2, <2>5, SettledJar DEF Settled
    <3> QED
      BY <2>1, <2>2, <2>3, <2>4, <3>1, EndsAgree
  <2>6. CASE /\ Len(sessions) < MaxSessions
             /\ sessions' = Tab!Created(sessions, tasks[t].as, Len(sessions) + 1)
             /\ jar' = Len(sessions) + 1 /\ token' = tasks[t].as /\ user' = tasks[t].as
    <3>1. Grown(tasks[t].as, Len(sessions) + 1, 0)
      BY <2>3, <2>6, CreatedGrows
    <3>2. sessions'[jar'].who = user'
      BY <2>6, <3>1 DEF Grown
    <3> QED
      BY <2>1, <2>2, <2>3, <2>4, <2>6, <3>2, EndsAgree
  <2> QED
    BY <1>8, <2>5, <2>6, Zenon DEF Tab!LoginAnswered
<1>9. ASSUME NEW t \in Tasks, Tab!LogoutServed(t) PROVE Agreement'
  <2> SUFFICES ASSUME crossed' = {} PROVE Agreement'
    BY Zenon DEF Agreement
  <2>1. /\ tasks[t] # None /\ tasks[t].kind = "logout" /\ tasks[t].stage = "sent"
        /\ tasks' = [tasks EXCEPT ![t].stage = "served"]
        /\ UNCHANGED <<jar, token, user, isLoading, refresh, crossed>>
    BY <1>9, Zenon DEF Tab!LogoutServed, Tab!Free
  <2>2. ~isLoading /\ Settled /\ (refresh # None => Tab!Waiting # {})
    BY <2>1, HasSettled, AgreementIs
  <2>3. t \notin Tab!Waiting
    BY <2>1 DEF Tab!Waiting
  <2>4. Becomes(t, "logout", "served", tasks[t].for, tasks[t].as)
    BY <2>1, TaskServed DEF TabTypes
  <2>5. ~Asks(t)'
    BY <2>4 DEF Becomes, Asks
  <2>6. token' = user' /\ (user' # None /\ jar' # 0 => sessions'[jar'].who = user')
    BY <2>1, <2>2, SettledJar DEF Settled
  <2> QED
    BY <2>1, <2>2, <2>3, <2>4, <2>5, <2>6, SettledTask DEF Becomes
<1>10. ASSUME NEW t \in Tasks, Tab!LogoutAnswered(t) PROVE Agreement'
  <2> SUFFICES ASSUME crossed' = {} PROVE Agreement'
    BY Zenon DEF Agreement
  <2>1. /\ tasks[t] # None /\ tasks[t].kind = "logout" /\ tasks' = [tasks EXCEPT ![t] = None]
        /\ token' = None /\ user' = None
        /\ UNCHANGED <<isLoading, refresh, crossed>>
    BY <1>10, Zenon DEF Tab!LogoutAnswered, Tab!Free
  <2>2. ~isLoading /\ Settled /\ (refresh # None => Tab!Waiting # {})
    BY <2>1, HasSettled, AgreementIs
  <2>3. t \notin Tab!Waiting
    BY <2>1 DEF Tab!Waiting, Tab!Free, TabTypes, TaskTypes
  <2>4. Ends(t)
    BY <2>1, TaskEnds DEF TabTypes
  <2> QED
    BY <2>1, <2>2, <2>3, <2>4, EndsAgree
<1>11. ASSUME NEW t \in Tasks, Tab!Ask(t) PROVE Agreement'
  <2> SUFFICES ASSUME crossed' = {} PROVE Agreement'
    BY Zenon DEF Agreement
  <2>1. /\ tasks[t] = None /\ user # None
        /\ tasks' = [tasks EXCEPT ![t] = Tab!Task("page", "sent", 0)]
        /\ UNCHANGED <<jar, token, user, isLoading, refresh, crossed>>
    BY <1>11, Zenon DEF Tab!Ask, Tab!Free
  <2>2. ~isLoading /\ Settled /\ (refresh # None => Tab!Waiting # {})
    BY <2>1, HasSettled, AgreementIs
  <2>3. t \notin Tab!Waiting
    BY <2>1 DEF Tab!Waiting, Tab!Free
  <2>4. Becomes(t, "page", "sent", user, None)
    BY <2>1, TaskBegins DEF TabTypes, Stages
  <2> QED
    BY <2>1, <2>2, <2>3, <2>4, BecomesAgree
<1>12. ASSUME NEW t \in Tasks, Tab!logout(t) PROVE Agreement'
  <2> SUFFICES ASSUME crossed' = {} PROVE Agreement'
    BY Zenon DEF Agreement
  <2>1. /\ tasks[t] = None /\ user # None
        /\ tasks' = [tasks EXCEPT ![t] = Tab!Task("logout", "sent", jar)]
        /\ UNCHANGED <<jar, token, user, isLoading, refresh, crossed>>
    BY <1>12, Zenon DEF Tab!logout, Tab!Free
  <2>2. ~isLoading /\ Settled /\ (refresh # None => Tab!Waiting # {})
    BY <2>1, HasSettled, AgreementIs
  <2>3. t \notin Tab!Waiting
    BY <2>1 DEF Tab!Waiting, Tab!Free
  <2>4. Becomes(t, "logout", "sent", user, None)
    BY <2>1, JarIsNat, TaskBegins DEF TabTypes, Stages
  <2> QED
    BY <2>1, <2>2, <2>3, <2>4, BecomesAgree
<1>13. ASSUME NEW t \in Tasks, NEW a \in Accounts, Tab!ResetPassword(t, a) PROVE Agreement'
  <2> SUFFICES ASSUME crossed' = {} PROVE Agreement'
    BY Zenon DEF Agreement
  <2>1. /\ tasks[t] = None /\ user # None
        /\ tasks' = [tasks EXCEPT ![t] = Tab!Task("session", "waiting", 0)]
        /\ refresh' = Tab!refreshAccessToken /\ UNCHANGED <<jar, token, user, isLoading, crossed>>
    BY <1>13, Zenon DEF Tab!ResetPassword, Tab!Free
  <2>2. ~isLoading /\ Settled /\ (refresh # None => Tab!Waiting # {})
    BY <2>1, HasSettled, AgreementIs
  <2>3. t \notin Tab!Waiting
    BY <2>1 DEF Tab!Waiting, Tab!Free
  <2>4. Becomes(t, "session", "waiting", user, None)
    BY <2>1, TaskBegins DEF TabTypes, Stages
  <2>5. refresh' = refresh \/ refresh'.cookie = jar
    BY <2>1, JarIsNat, RefreshBegins DEF Tab!refreshAccessToken, TabTypes
  <2> QED
    BY <2>5, <2>1, <2>2, <2>3, <2>4, BecomesAgree
<1>14. ASSUME NEW t \in Tasks, NEW a \in Accounts, Tab!login(t, a) PROVE Agreement'
  <2> SUFFICES ASSUME crossed' = {} PROVE Agreement'
    BY Zenon DEF Agreement
  <2>1. /\ tasks[t] = None /\ ~isLoading
        /\ tasks' = [tasks EXCEPT ![t] = [Tab!Task("login", "sent", 0) EXCEPT !.as = a]]
        /\ UNCHANGED <<jar, token, user, isLoading, refresh, crossed>>
    BY <1>14, Zenon DEF Tab!login, Tab!Free
  <2>2. ~isLoading /\ Settled /\ (refresh # None => Tab!Waiting # {})
    BY <2>1, HasSettled, AgreementIs
  <2>3. t \notin Tab!Waiting
    BY <2>1 DEF Tab!Waiting, Tab!Free
  <2>4. Becomes(t, "login", "sent", user, a)
    BY <2>1, LoginBegins DEF TabTypes
  <2>5. ~Asks(t)'
    BY <2>4 DEF Becomes, Asks
  <2>6. token' = user' /\ (user' # None /\ jar' # 0 => sessions'[jar'].who = user')
    BY <2>1, <2>2, SettledJar DEF Settled
  <2> QED
    BY <2>1, <2>2, <2>3, <2>4, <2>5, <2>6, SettledTask DEF Becomes
<1>15. CASE Tab!OtherTabRefreshes
  <2>1. /\ jar # 0 /\ Len(sessions) < MaxSessions /\ sessions' = Tab!Presented(jar)
        /\ jar' = (IF Tab!Accepted(jar) THEN Len(sessions) + 1 ELSE jar)
        /\ UNCHANGED <<refresh, tasks, token, user, isLoading, crossed>>
    BY <1>15, Zenon DEF Tab!OtherTabRefreshes
  <2>2. jar \in 1..Len(sessions)
    BY <2>1 DEF TabTypes, PlainTypes
  <2>3. CASE Tab!Accepted(jar)
    <3>1. Grown(sessions[jar].who, sessions[jar].family, jar)
      BY <2>1, <2>2, <2>3, PresentedGrows DEF Tab!Accepted
    <3>2. sessions'[jar'].who = sessions[jar].who
      BY <2>1, <2>3, <3>1 DEF Grown
    <3> QED
      BY <2>1, <3>2, AgreementStays
  <2>4. CASE ~Tab!Accepted(jar)
    <3>1. jar' = jar /\ sessions'[jar].who = sessions[jar].who
      BY <2>1, <2>2, <2>4 DEF Keeps
    <3> QED
      BY <2>1, <3>1, AgreementStays
  <2> QED
    BY <2>3, <2>4
<1>16. CASE Tab!OtherTabSignsOut
  <2>1. jar' = 0 /\ UNCHANGED <<refresh, tasks, token, user, isLoading, crossed>>
    BY <1>16, Zenon DEF Tab!OtherTabSignsOut
  <2> QED
    BY <2>1, AgreementStays
<1>17. ASSUME NEW a \in Accounts, Tab!OtherTabSignsIn(a) PROVE Agreement'
  <2> SUFFICES ASSUME crossed' = {} PROVE Agreement'
    BY Zenon DEF Agreement
  <2>1. /\ jar' = Len(sessions) + 1 /\ crossed' = crossed \cup {why \in {"other tab"} : user # a}
        /\ UNCHANGED <<refresh, tasks, token, user, isLoading>>
    BY <1>17, Zenon DEF Tab!OtherTabSignsIn
  <2>2. user = a /\ crossed = {}
    BY <2>1
  <2>3. Grown(a, Len(sessions) + 1, 0)
    BY <1>17, CreatedGrows DEF Tab!OtherTabSignsIn
  <2>4. user # None /\ sessions'[jar'].who = user
    BY <2>1, <2>2, <2>3, AccountsAssumption DEF Grown
  <2>5. UNCHANGED <<refresh, tasks, token, user, isLoading, crossed>>
    BY <2>1, <2>2
  <2> QED
    BY <2>4, <2>5, AgreementStays
<1> QED
  BY <1>1, <1>2, <1>3, <1>4, <1>5, <1>6, <1>7, <1>8, <1>9, <1>10, <1>11, <1>12, <1>13, <1>14, <1>15, <1>16, <1>17 DEF Tab!Next

-----------------------------------------------------------------------------
\* The tab as it is loaded, with or without a session of the browser.
LEMMA TabInit == Tab!Init => TabInv
<1> SUFFICES ASSUME Tab!Init PROVE TabInv
  OBVIOUS
<1> DEFINE first == CHOOSE a \in Accounts : TRUE
           row == [who |-> first, live |-> TRUE, family |-> 1]
<1>1. /\ sessions = << >> \/ sessions = << row >>
      /\ jar = Len(sessions) /\ token = None /\ user = None
      /\ refresh = [cookie |-> jar, served |-> FALSE, successor |-> 0]
  BY DEF Tab!Init, Tab!Created, Tab!Renewal
<1>2. tasks = Tab!Mounted /\ isLoading = TRUE /\ crossed = {} /\ disturbed = FALSE /\ reused = FALSE
  BY Zenon DEF Tab!Init
<1>3. row \in Rows /\ row.family = 1
  BY AccountsAssumption, TabAssumption DEF Rows
<1> HIDE DEF row
<1>4. RowsOK /\ jar \in 0..Len(sessions) /\ jar \in Nat
  <2>1. CASE sessions = << >>
    BY <1>1, <2>1 DEF RowsOK
  <2>2. CASE sessions = << row >>
    <3>1. sessions \in Seq(Rows) /\ Len(sessions) = 1 /\ sessions[1] = row
      BY <1>3, <2>2
    <3>2. \A n \in 1..Len(sessions) : n = 1
      BY <3>1
    <3> HIDE DEF row
    <3> QED
      BY <1>1, <1>3, <3>1, <3>2 DEF RowsOK
  <2> QED
    BY <1>1, <2>1, <2>2
<1>5. refresh \in Tab!Renewals /\ refresh # None /\ refresh.cookie = jar /\ ~refresh.served /\ refresh.successor = 0
  BY <1>1, <1>4, RefreshBegins
<1>6. ASSUME NEW t \in Tasks, tasks[t] # None
      PROVE  tasks[t].kind = "session" /\ tasks[t].stage = "waiting" /\ tasks[t] \in Tab!Begun
  BY <1>2, <1>6, MountedIs
<1>7. PlainTypes
  BY <1>1, <1>4 DEF PlainTypes
<1>8. FlagTypes
  BY <1>2, Zenon DEF FlagTypes
<1>9. RefreshTypes
  <2>1. Len(sessions) \in Nat
    BY <1>4, LenProperties DEF RowsOK
  <2> QED
    BY <1>4, <1>5, <2>1 DEF RefreshTypes
<1>10. TaskTypes
  BY <1>2, <1>6, MountedIs DEF TaskTypes
<1>11. ~Tab!Spent(jar)
  <2>1. CASE sessions = << >>
    BY <1>1, <2>1 DEF Tab!Spent
  <2>2. CASE sessions = << row >>
    <3>1. sessions[jar].live
      BY <1>1, <2>2 DEF row
    <3> QED
      BY <3>1 DEF Tab!Spent
  <2> QED
    BY <1>1, <2>1, <2>2
<1>12. CookiesOK
  BY <1>2, <1>5, <1>11, Zenon DEF CookiesOK
<1>13. PICK t \in Tasks : tasks[t] # None
  BY <1>2, MountedIs
<1>14. t \in Tab!Waiting
  BY <1>6, <1>13 DEF Tab!Waiting, Tab!Free
<1>15. \A s \in Tasks : Started(s) => ~Knows(s) /\ tasks[s].kind = "session"
  BY <1>6 DEF Started, Knows
<1>16. \A s, u \in Tasks : Started(s) /\ Started(u) => s = u
  BY <1>2, MountedIs, Zenon DEF Started
<1>17. Beginning
  BY <1>1, <1>15, <1>16, Zenon DEF Beginning
<1> QED
  BY <1>2, <1>4, <1>7, <1>8, <1>9, <1>10, <1>12, <1>14, <1>17, Zenon DEF TabInv, TabTypes, Agreement

LEMMA TabStep == TabInv /\ [Tab!Next]_tabVars => TabInv'
<1> SUFFICES ASSUME TabInv, [Tab!Next]_tabVars PROVE TabInv'
  OBVIOUS
<1>1. RowsOK /\ TabTypes /\ CookiesOK /\ Agreement
  BY Zenon DEF TabInv
<1>2. CASE Tab!Next
  <2>1. Keeps
    BY <1>1, <1>2, StepKeeps
  <2>2. RowsOK'
    BY <2>1, Zenon DEF Keeps
  <2>3. TabTypes'
    BY <1>1, <1>2, <2>1, PlainStep, FlagsStep, RefreshStep, TasksStep, Zenon DEF TabTypes
  <2>4. CookiesOK' /\ Agreement'
    BY <1>1, <1>2, <2>1, CookiesStep, AgreementStep, Zenon
  <2> QED
    BY <2>2, <2>3, <2>4, Zenon DEF TabInv
<1>3. CASE UNCHANGED tabVars
  BY <1>3, ZenonT(60) DEF tabVars, TabInv, RowsOK, TabTypes, PlainTypes, FlagTypes, RefreshTypes, TaskTypes,
     CookiesOK, Agreement, Beginning, Settled, Started, Asks, Knows, Tab!Spent, Tab!Waiting, Tab!Free
<1> QED
  BY <1>2, <1>3

\* What is exercised is one of the two, and the other stands still.
LEMMA BothRun == BothSpec => Spec /\ Tab!Init /\ [][Tab!Next]_tabVars
<1>1. BothInit => Init /\ Tab!Init
  BY Zenon DEF BothInit
<1>2. [BothNext]_<<part, vars, tabVars>> => [Next]_vars /\ [Tab!Next]_tabVars
  BY Zenon DEF BothNext, AtRest
<1> QED
  BY <1>1, <1>2, PTL DEF BothSpec, Spec

LEMMA TabInvariance == BothSpec => []TabInv
BY BothRun, TabInit, TabStep, PTL

\* The type invariants of both ends.
THEOREM BothTypesCorrect == BothSpec => []SessionTypeOK
<1>1. TabInv => Tab!TypeOK
  <2> SUFFICES ASSUME TabInv PROVE Tab!TypeOK
    OBVIOUS
  <2>1. RowsOK /\ PlainTypes /\ FlagTypes /\ RefreshTypes /\ TaskTypes
    BY Zenon DEF TabInv, TabTypes
  <2>2. \A n \in DOMAIN sessions : sessions[n] \in [who : Accounts, live : BOOLEAN, family : 1..MaxSessions]
    BY <2>1, LenProperties, ElementOfSeq DEF RowsOK, Rows
  <2>3. crossed \subseteq {"late", "other tab"} /\ {isLoading, disturbed, reused} \subseteq BOOLEAN
    BY <2>1, Zenon DEF FlagTypes
  <2>4. refresh # None => refresh \in [cookie : 0..Len(sessions), served : BOOLEAN, successor : 0..Len(sessions)]
    <3> DEFINE N == 0..Len(sessions)
    <3>1. refresh # None => refresh \in Tab!Renewals /\ refresh.cookie \in N /\ refresh.successor \in N
      BY <2>1 DEF RefreshTypes
    <3> HIDE DEF N
    <3>2. refresh # None => refresh \in [cookie : N, served : BOOLEAN, successor : N]
      BY <3>1 DEF Tab!Renewals
    <3> QED
      BY <3>2 DEF N
  <2>5. \A t \in Tasks : ~Tab!Free(t) => tasks[t].kind \in {"page", "session", "login", "logout"}
    <3> SUFFICES ASSUME NEW t \in Tasks, tasks[t] # None PROVE tasks[t].kind \in {"page", "session", "login", "logout"}
      BY DEF Tab!Free
    <3>1. tasks[t] \in Tab!Begun
      BY <2>1 DEF TaskTypes
    <3> QED
      BY <3>1 DEF Tab!Begun
  <2>6. jar \in 0..Len(sessions) /\ token \in Accounts \cup {None} /\ user \in Accounts \cup {None}
    BY <2>1 DEF PlainTypes
  <2> QED
    BY <2>2, <2>3, <2>4, <2>5, <2>6, Zenon DEF Tab!TypeOK
<1>2. TypeOK /\ Tab!TypeOK => SessionTypeOK
  BY Zenon DEF SessionTypeOK
<1> QED
  BY BothRun, TypeCorrectness, TabInvariance, <1>1, <1>2, PTL

\* The token and the user of a tab name the same account, a request that goes out again
\* does so for the account it was made for, and no cookie is presented twice, however
\* many requests are refused at once (services/api.ts, AuthProvider): but for answers
\* that are late for another user, and what other tabs do.
THEOREM TabsAgree == BothSpec => []TabAgrees
<1>1. TabInv => Tab!SessionAgrees
  <2> SUFFICES ASSUME TabInv, crossed = {}
               PROVE  /\ token = user \/ (token # None /\ Tab!Asking)
                      /\ \A t \in Tasks : tasks[t] # None /\ tasks[t].kind = "page" /\ tasks[t].stage = "again"
                                        => tasks[t].as = tasks[t].for
    BY Zenon DEF Tab!SessionAgrees, Tab!Free
  <2>1. (isLoading => Beginning) /\ (~isLoading => Settled)
    BY AgreementIs, Zenon DEF TabInv
  <2>2. CASE isLoading
    <3>1. Beginning
      BY <2>1, <2>2
    <3>2. ASSUME token # None PROVE Tab!Asking
      <4>1. PICK t \in Tasks : Started(t)
        BY <3>1, <3>2, Zenon DEF Beginning
      <4>2. tasks[t] # None /\ tasks[t].kind = "session" /\ tasks[t].stage # "waiting"
        BY <3>1, <3>2, <4>1, Zenon DEF Beginning, Started
      <4> QED
        BY <4>2, Zenon DEF Tab!Asking, Tab!Free
    <3>3. user = None /\ \A t \in Tasks : tasks[t] # None => tasks[t].kind = "session"
      BY <3>1, Zenon DEF Beginning, Started
    <3> QED
      BY <3>2, <3>3
  <2>3. CASE ~isLoading
    <3>1. Settled
      BY <2>1, <2>3
    <3> QED
      BY <3>1 DEF Settled, Asks, Started, Knows
  <2> QED
    BY <2>2, <2>3
<1>2. TabInv => Tab!PresentsOnce
  BY Zenon DEF TabInv, CookiesOK, Tab!PresentsOnce
<1>3. TabInv => TabAgrees
  BY <1>1, <1>2, Zenon DEF TabAgrees
<1> QED
  BY TabInvariance, <1>3, PTL

=============================================================================
