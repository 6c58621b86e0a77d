--------------------------- MODULE BankSyncProofs ---------------------------
(***************************************************************************)
(* Proofs about BankSync, for any number of requests, of accounts and      *)
(* transactions of the provider, and of ids.  What a request has read of   *)
(* the accounts is stale as soon as another one commits; the invariant     *)
(* says what of it is still true: which ids stand for which account        *)
(* (Reads), which rows a request has locked and therefore nobody else can  *)
(* delete (Locks), and what a sync that gets to its commit writes (Syncs). *)
(***************************************************************************)
EXTENDS BankSync, TLAPS

Applying == {"insert", "account", "connection", "commit"}
Inserted == {"account", "connection", "commit"}
Creating == {"reConnection", "reCommit"}
Managing == {"reRead", "reWrite", "dcConnection", "dcDelete", "dcCommit"} \cup Creating

\* A request has an account exactly while it syncs, and nobody reconnects or
\* disconnects before there is a connection.
Phases ==
  \A r \in Requests :
    /\ acct[r] # None <=> pc[r] \in Running \cup {"claim"}
    /\ pc[r] \in {"existing"} \cup Applying => \A p \in rows[r] : p[1] \in Feed
    /\ pc[r] \in {"reWrite"} \cup Creating => \A p \in rows[r] : p[1] \in External
    /\ pc[r] \in Managing => connection # "none"

\* An id that was issued, and is not one of an account that a reconnect has yet to commit.
Settled(i) ==
  /\ i \in issued
  /\ \A r \in Requests : pc[r] \in Creating => \A p \in rows[r] : p[2] # i

\* Whatever names an id names a settled one, so that no id gets another account.
IdsAreSettled ==
  /\ \A i \in Stored : Settled(i)
  /\ \A p \in Imported : Settled(p[2])
  /\ \A r \in Requests : acct[r] # None => Settled(acct[r])
  /\ \A r \in Requests : pc[r] \in {"existing", "reWrite"} \cup Applying =>
        \A p \in rows[r] : Settled(p[2])

\* The accounts a reconnect has yet to commit are issued, and new: neither stored nor
\* another reconnect's.
NewAccounts ==
  \A r \in Requests : pc[r] \in Creating =>
    /\ \A p \in rows[r] : p[2] \in issued /\ \A i \in Ids : account[i] # p[1]
    /\ \A p, q \in rows[r] : p[1] = q[1] \/ p[2] = q[2] => p = q
    /\ \A o \in Requests \ {r} : pc[o] \in Creating =>
          \A p \in rows[r], q \in rows[o] : p[1] # q[1] /\ p[2] # q[2]

OneRowPerAccount == \A i, j \in Stored : account[i] = account[j] => i = j

\* An id that was read, and is stored still, stands for the account it stood for.
AccountsRead ==
  \A r \in Requests : \A p \in rows[r] : p[2] \in Stored =>
    /\ pc[r] \in {"existing"} \cup Applying => account[p[2]] = OwnerOf[p[1]]
    /\ pc[r] = "reWrite" => account[p[2]] = p[1]

Reads == TypeOK /\ Phases /\ IdsAreSettled /\ NewAccounts /\ OneRowPerAccount /\ AccountsRead

ConnectionLock ==
  \A r \in Requests : connLock = r <=> pc[r] \in {"commit", "reCommit", "dcDelete", "dcCommit"}

\* An account is locked by a sync of it, a disconnect or a reconnect, and is stored.
LockHolders ==
  \A i \in Ids : rowLock[i] # None =>
    /\ i \in Stored
    /\ \/ pc[rowLock[i]] \in {"connection", "commit"} /\ acct[rowLock[i]] = i
       \/ pc[rowLock[i]] \in {"dcCommit"} \cup Creating

\* A sync holds its account, a disconnect every account, and a reconnect every account
\* that it does not create.
AccountsHeld ==
  \A r \in Requests :
    /\ pc[r] \in {"connection", "commit"} => rowLock[acct[r]] = r
    /\ pc[r] = "dcCommit" => \A i \in Stored : rowLock[i] = r
ReconnectCovers ==
  \A r \in Requests : pc[r] \in Creating => \A e \in External :
    \/ \E i \in Ids : account[i] = e /\ rowLock[i] = r
    \/ \E p \in rows[r] : p[1] = e

\* Rows inserted and not committed keep their accounts from being deleted.
KeyShares ==
  /\ \A r \in Requests : pc[r] \in Inserted => \A p \in rows[r] : r \in keyShare[p[2]]
  /\ \A i \in Ids : \A r \in keyShare[i] : i \in Stored /\ pc[r] \in Inserted /\ ~Deleting(i)

Locks == ConnectionLock /\ LockHolders /\ AccountsHeld /\ ReconnectCovers /\ KeyShares

\* What was dismissed when a sync began stays so.
DismissedIsGone == \A r \in Syncing : dismissed[r] \subseteq Gone

Syncs == OneSyncPerAccount /\ DismissedIsGone /\ StaysDismissed

IInv == Reads /\ Locks /\ Syncs /\ AccountsMatchConnection

\* Of a bank with one account: a sync whose account is stored still has no row to write
\* under it that was imported.
NotYetImported ==
  \A r \in Requests : pc[r] \in Applying /\ acct[r] \in Stored =>
    \A p \in rows[r] : p[2] = acct[r] => \A q \in Imported : ~SameRow(p, q)

-----------------------------------------------------------------------------

\* createMany of new accounts: each gets the external account it was made for.
LEMMA CreatedAccounts ==
  ASSUME NEW S \in SUBSET (External \X Ids), \A p, q \in S : p[2] = q[2] => p = q
  PROVE  /\ \A p \in S : Created(S)[p[2]] = p[1]
         /\ \A i \in Ids : i \notin Targets(S) => Created(S)[i] = account[i]
         /\ \A i \in Ids : Created(S)[i] = account[i] \/ \E p \in S : p[2] = i /\ Created(S)[i] = p[1]
         /\ account \in [Ids -> External \cup {None}] => Created(S) \in [Ids -> External \cup {None}]
<1>1. ASSUME NEW p \in S PROVE Created(S)[p[2]] = p[1]
  <2>1. p[2] \in Ids /\ p[2] \in Targets(S)
    BY DEF Targets
  <2>2. Created(S)[p[2]] = (CHOOSE q \in S : q[2] = p[2])[1]
    BY <2>1 DEF Created
  <2>3. (CHOOSE q \in S : q[2] = p[2]) = p
    OBVIOUS
  <2> QED BY <2>2, <2>3
<1>2. \A i \in Ids : i \notin Targets(S) => Created(S)[i] = account[i]
  BY DEF Created
<1>3. \A i \in Targets(S) : \E p \in S : p[2] = i
  BY DEF Targets
<1>4. \A i \in Ids : Created(S)[i] = account[i] \/ \E p \in S : p[2] = i /\ Created(S)[i] = p[1]
  BY <1>1, <1>2, <1>3
<1>5. ASSUME account \in [Ids -> External \cup {None}] PROVE Created(S) \in [Ids -> External \cup {None}]
  <2>1. \A i \in Ids : Created(S)[i] \in External \cup {None}
    BY <1>4, <1>5
  <2>2. Created(S) = [i \in Ids |-> Created(S)[i]]
    BY DEF Created
  <2> QED BY <2>1, <2>2
<1> QED BY <1>1, <1>2, <1>4, <1>5

\* A step keeps every variable within its type.
LEMMA TypeStep ==
  ASSUME TypeOK, Phases, NewAccounts, [Next]_vars
  PROVE  TypeOK'
<1> USE NoneAssumption, BankAssumption DEF TypeOK, Running, Stored, Targets, tables, locks,
   locals
<1>1. ASSUME NEW r \in Requests, NEW i \in Ids, StartSync(r, i) PROVE TypeOK'
  BY <1>1 DEF StartSync, Goto
<1>2. ASSUME NEW r \in Requests, Claim(r) PROVE TypeOK'
  <2>1. Gone \subseteq Feed \X Ids
    BY DEF Gone
  <2>2. acct[r] \in Ids
    BY <1>2 DEF Claim, Phases
  <2> QED BY <1>2, <2>1, <2>2 DEF Claim, Goto
<1>3. ASSUME NEW r \in Requests, AlreadyInProgress(r) PROVE TypeOK'
  BY <1>3 DEF AlreadyInProgress, End, Goto
<1>4. ASSUME NEW r \in Requests, Load(r) PROVE TypeOK'
  BY <1>4 DEF Load, Goto
<1>5. ASSUME NEW r \in Requests, ReadAccounts(r) PROVE TypeOK'
  BY <1>5 DEF ReadAccounts, Goto
<1>6. ASSUME NEW r \in Requests, ReadExisting(r) PROVE TypeOK'
  BY <1>6 DEF ReadExisting, Goto
<1>7. ASSUME NEW r \in Requests, InsertRows(r) PROVE TypeOK'
  BY <1>7 DEF InsertRows, Goto
<1>8. ASSUME NEW r \in Requests, UpdateAccount(r) PROVE TypeOK'
  BY <1>8 DEF UpdateAccount, Goto
<1>9. ASSUME NEW r \in Requests, UpdateConnection(r) PROVE TypeOK'
  BY <1>9 DEF UpdateConnection, Goto
<1>10. ASSUME NEW r \in Requests, CommitSync(r) PROVE TypeOK'
  <2>1. rows[r] \subseteq Feed \X Ids
    BY <1>10 DEF CommitSync, Phases, Applying
  <2> QED BY <1>10, <2>1 DEF CommitSync, End, Goto
<1>11. ASSUME NEW r \in Requests, Connect(r) PROVE TypeOK'
  <2>1. PICK S \in Fresh(External) : account' = Created(S) /\ issued' = issued \cup Targets(S)
    BY <1>11 DEF Connect
  <2>2. S \in SUBSET (External \X Ids) /\ \A p, q \in S : p[2] = q[2] => p = q
    BY <2>1 DEF Fresh
  <2>3. Created(S) \in [Ids -> External \cup {None}]
    BY <2>2, CreatedAccounts
  <2>4. Stored' \subseteq issued'
    BY <2>1, <2>2, CreatedAccounts
  <2>5. issued' \subseteq Ids
    BY <2>1, <2>2
  <2> QED BY <1>11, <2>1, <2>3, <2>4, <2>5 DEF Connect
<1>12. ASSUME NEW r \in Requests, StartReconnect(r) PROVE TypeOK'
  BY <1>12 DEF StartReconnect, Goto
<1>13. ASSUME NEW r \in Requests, ReadStored(r) PROVE TypeOK'
  BY <1>13 DEF ReadStored, Goto
<1>14. ASSUME NEW r \in Requests, WriteAccounts(r) PROVE TypeOK'
  <2>1. PICK S \in Fresh(External \ {p[1] : p \in rows[r]}) :
          rows' = [rows EXCEPT ![r] = S] /\ issued' = issued \cup Targets(S)
    BY <1>14 DEF WriteAccounts
  <2>2. S \in SUBSET (External \X Ids)
    BY <2>1 DEF Fresh
  <2>3. issued' \subseteq Ids /\ issued \subseteq issued' /\ Stored' = Stored
    BY <1>14, <2>1, <2>2 DEF WriteAccounts
  <2> QED BY <1>14, <2>1, <2>2, <2>3 DEF WriteAccounts, Goto
<1>15. ASSUME NEW r \in Requests, Reactivate(r) PROVE TypeOK'
  BY <1>15 DEF Reactivate, Goto
<1>16. ASSUME NEW r \in Requests, CommitReconnect(r) PROVE TypeOK'
  <2>1. rows[r] \in SUBSET (External \X Ids) /\ \A p, q \in rows[r] : p[2] = q[2] => p = q
    BY <1>16 DEF CommitReconnect, Phases, NewAccounts, Creating
  <2>2. Created(rows[r]) \in [Ids -> External \cup {None}]
    BY <2>1, CreatedAccounts
  <2>3. Targets(rows[r]) \subseteq issued
    BY <1>16 DEF CommitReconnect, NewAccounts, Creating
  <2>4. account' = Created(rows[r]) /\ issued' = issued
    BY <1>16 DEF CommitReconnect
  <2>5. \A i \in Ids : Created(rows[r])[i] = account[i] \/ i \in Targets(rows[r])
    BY <2>1, CreatedAccounts
  <2>6. Stored' \subseteq issued'
    BY <2>3, <2>4, <2>5
  <2> QED BY <1>16, <2>2, <2>4, <2>6 DEF CommitReconnect, End, Goto
<1>17. ASSUME NEW r \in Requests, StartDisconnect(r) PROVE TypeOK'
  BY <1>17 DEF StartDisconnect, Goto
<1>18. ASSUME NEW r \in Requests, Revoke(r) PROVE TypeOK'
  BY <1>18 DEF Revoke, Goto
<1>19. ASSUME NEW r \in Requests, DeleteAccounts(r) PROVE TypeOK'
  BY <1>19 DEF DeleteAccounts, Goto
<1>20. ASSUME NEW r \in Requests, CommitDisconnect(r) PROVE TypeOK'
  BY <1>20 DEF CommitDisconnect, End, Goto
<1>21. ASSUME NEW r \in Requests, Abort(r) PROVE TypeOK'
  BY <1>21 DEF Abort, End, Goto
<1>22. ASSUME NEW p \in linked, Unlink(p) PROVE TypeOK'
  BY <1>22 DEF Unlink
<1>23. CASE UNCHANGED vars
  BY <1>23 DEF vars
<1> HIDE DEF TypeOK, Running, Stored, Targets
<1> QED BY <1>1, <1>2, <1>3, <1>4, <1>5, <1>6, <1>7, <1>8, <1>9, <1>10, <1>11, <1>12, <1>13,
   <1>14, <1>15, <1>16, <1>17, <1>18, <1>19, <1>20, <1>21, <1>22, <1>23 DEF Next, Sync,
   Manage

\* What a request's locals are of its statement, and that a connection once made is
\* never unmade.
LEMMA PhasesStep ==
  ASSUME TypeOK, Phases, [Next]_vars
  PROVE  Phases'
<1> USE NoneAssumption, BankAssumption DEF TypeOK, Phases, Stored, Fresh, Running, Applying,
   Inserted, Creating, Managing, tables, locks, locals
<1>1. ASSUME NEW r \in Requests, NEW i \in Ids, StartSync(r, i) PROVE Phases'
  BY <1>1 DEF StartSync, Goto
<1>2. ASSUME NEW r \in Requests, Claim(r) PROVE Phases'
  BY <1>2 DEF Claim, Goto
<1>3. ASSUME NEW r \in Requests, AlreadyInProgress(r) PROVE Phases'
  BY <1>3 DEF AlreadyInProgress, End, Goto
<1>4. ASSUME NEW r \in Requests, Load(r) PROVE Phases'
  BY <1>4 DEF Load, Goto
<1>5. ASSUME NEW r \in Requests, ReadAccounts(r) PROVE Phases'
  BY <1>5 DEF ReadAccounts, Goto
<1>6. ASSUME NEW r \in Requests, ReadExisting(r) PROVE Phases'
  BY <1>6 DEF ReadExisting, Goto
<1>7. ASSUME NEW r \in Requests, InsertRows(r) PROVE Phases'
  BY <1>7 DEF InsertRows, Goto
<1>8. ASSUME NEW r \in Requests, UpdateAccount(r) PROVE Phases'
  BY <1>8 DEF UpdateAccount, Goto
<1>9. ASSUME NEW r \in Requests, UpdateConnection(r) PROVE Phases'
  BY <1>9 DEF UpdateConnection, Goto
<1>10. ASSUME NEW r \in Requests, CommitSync(r) PROVE Phases'
  BY <1>10 DEF CommitSync, End, Goto
<1>11. ASSUME NEW r \in Requests, Connect(r) PROVE Phases'
  BY <1>11 DEF Connect, Goto
<1>12. ASSUME NEW r \in Requests, StartReconnect(r) PROVE Phases'
  BY <1>12 DEF StartReconnect, Goto
<1>13. ASSUME NEW r \in Requests, ReadStored(r) PROVE Phases'
  BY <1>13 DEF ReadStored, Goto
<1>14. ASSUME NEW r \in Requests, WriteAccounts(r) PROVE Phases'
  BY <1>14 DEF WriteAccounts, Goto
<1>15. ASSUME NEW r \in Requests, Reactivate(r) PROVE Phases'
  BY <1>15 DEF Reactivate, Goto
<1>16. ASSUME NEW r \in Requests, CommitReconnect(r) PROVE Phases'
  BY <1>16 DEF CommitReconnect, End, Goto
<1>17. ASSUME NEW r \in Requests, StartDisconnect(r) PROVE Phases'
  BY <1>17 DEF StartDisconnect, Goto
<1>18. ASSUME NEW r \in Requests, Revoke(r) PROVE Phases'
  BY <1>18 DEF Revoke, Goto
<1>19. ASSUME NEW r \in Requests, DeleteAccounts(r) PROVE Phases'
  BY <1>19 DEF DeleteAccounts, Goto
<1>20. ASSUME NEW r \in Requests, CommitDisconnect(r) PROVE Phases'
  BY <1>20 DEF CommitDisconnect, End, Goto
<1>21. ASSUME NEW r \in Requests, Abort(r) PROVE Phases'
  BY <1>21 DEF Abort, End, Goto
<1>22. ASSUME NEW p \in linked, Unlink(p) PROVE Phases'
  BY <1>22 DEF Unlink
<1>23. CASE UNCHANGED vars
  BY <1>23 DEF vars
<1> HIDE DEF TypeOK, Phases, Stored, Fresh, Running, Applying, Inserted, Creating, Managing
<1> QED BY <1>1, <1>2, <1>3, <1>4, <1>5, <1>6, <1>7, <1>8, <1>9, <1>10, <1>11, <1>12, <1>13,
   <1>14, <1>15, <1>16, <1>17, <1>18, <1>19, <1>20, <1>21, <1>22, <1>23 DEF Next, Sync,
   Manage

\* A first connection creates accounts under ids nobody had, one for each account of the
\* provider.
LEMMA ConnectCreates ==
  ASSUME NEW r \in Requests, Connect(r)
  PROVE  /\ issued \subseteq issued'
         /\ \A i \in Ids : account'[i] # account[i] => i \notin issued /\ i \in issued'
         /\ \A i, j \in Ids : account'[i] # account[i] /\ account'[j] # account[j]
                              /\ account'[i] = account'[j] => i = j
         /\ \A e \in External : \E i \in Ids : account'[i] = e
<1>1. PICK S \in Fresh(External) : account' = Created(S) /\ issued' = issued \cup Targets(S)
  BY DEF Connect
<1>2. S \in SUBSET (External \X Ids) /\ \A p, q \in S : p[2] = q[2] => p = q
  BY <1>1 DEF Fresh
<1>3. /\ \A i \in Ids : account'[i] = account[i] \/ \E p \in S : p[2] = i /\ account'[i] = p[1]
      /\ \A p \in S : account'[p[2]] = p[1]
  BY <1>1, <1>2, CreatedAccounts
<1>4. /\ \A e \in External : \E p \in S : p[1] = e
      /\ \A p, q \in S : p[1] = q[1] => p = q
      /\ \A p \in S : p[2] \in Ids \ issued
  BY <1>1 DEF Fresh
<1>5. issued' = issued \cup {p[2] : p \in S}
  BY <1>1 DEF Targets
<1> QED BY <1>3, <1>4, <1>5

\* A reconnect creates the accounts it set out to create, and no other.
LEMMA ReconnectCreates ==
  ASSUME Reads, NEW r \in Requests, CommitReconnect(r)
  PROVE  /\ \A i \in Ids : account'[i] = account[i] \/ \E p \in rows[r] : p[2] = i /\ account'[i] = p[1]
         /\ \A p \in rows[r] : account'[p[2]] = p[1]
<1> USE DEF Reads, TypeOK
<1>1. rows[r] \in SUBSET (External \X Ids) /\ \A p, q \in rows[r] : p[2] = q[2] => p = q
  BY DEF CommitReconnect, Phases, NewAccounts, Creating
<1> QED BY <1>1, CreatedAccounts DEF CommitReconnect

\* No id that anything names is given to another account: ids are issued once
\* (the primary keys of financial_accounts).
LEMMA IdsAreSettledStep ==
  ASSUME Reads, [Next]_vars
  PROVE  IdsAreSettled'
<1> USE NoneAssumption, BankAssumption DEF Reads, TypeOK, Phases, IdsAreSettled,
   NewAccounts, OneRowPerAccount, AccountsRead, Running, Applying, Inserted, Creating,
   Managing, Settled, Imported, Copies, Uncommitted, Fresh, Stored, Targets, tables, locks,
   locals
<1>1. ASSUME NEW r \in Requests, NEW i \in Ids, StartSync(r, i) PROVE IdsAreSettled'
  BY <1>1 DEF StartSync, Goto
<1>2. ASSUME NEW r \in Requests, Claim(r) PROVE IdsAreSettled'
  BY <1>2 DEF Claim, Goto
<1>3. ASSUME NEW r \in Requests, AlreadyInProgress(r) PROVE IdsAreSettled'
  BY <1>3 DEF AlreadyInProgress, End, Goto
<1>4. ASSUME NEW r \in Requests, Load(r) PROVE IdsAreSettled'
  BY <1>4 DEF Load, Goto
<1>5. ASSUME NEW r \in Requests, ReadAccounts(r) PROVE IdsAreSettled'
  BY <1>5 DEF ReadAccounts, Goto
<1>6. ASSUME NEW r \in Requests, ReadExisting(r) PROVE IdsAreSettled'
  BY <1>6 DEF ReadExisting, Goto
<1>7. ASSUME NEW r \in Requests, InsertRows(r) PROVE IdsAreSettled'
  BY <1>7 DEF InsertRows, Goto
<1>8. ASSUME NEW r \in Requests, UpdateAccount(r) PROVE IdsAreSettled'
  BY <1>8 DEF UpdateAccount, Goto
<1>9. ASSUME NEW r \in Requests, UpdateConnection(r) PROVE IdsAreSettled'
  BY <1>9 DEF UpdateConnection, Goto
<1>10. ASSUME NEW r \in Requests, CommitSync(r) PROVE IdsAreSettled'
  BY <1>10 DEF CommitSync, End, Goto
<1>11. ASSUME NEW r \in Requests, Connect(r) PROVE IdsAreSettled'
  <2>1. /\ issued \subseteq issued'
        /\ \A i \in Ids : account'[i] # account[i] => i \notin issued /\ i \in issued'
        /\ \A i, j \in Ids : account'[i] # account[i] /\ account'[j] # account[j]
                             /\ account'[i] = account'[j] => i = j
        /\ \A e \in External : \E i \in Ids : account'[i] = e
    BY <1>11, ConnectCreates
  <2>2. connection = "none" /\ connection' = "ACTIVE"
        /\ UNCHANGED <<linked, unlinked, syncLocks, locks, pc, locals>>
    BY <1>11 DEF Connect
  <2> QED BY <2>1, <2>2
<1>12. ASSUME NEW r \in Requests, StartReconnect(r) PROVE IdsAreSettled'
  BY <1>12 DEF StartReconnect, Goto
<1>13. ASSUME NEW r \in Requests, ReadStored(r) PROVE IdsAreSettled'
  BY <1>13 DEF ReadStored, Goto
<1>14. ASSUME NEW r \in Requests, WriteAccounts(r) PROVE IdsAreSettled'
  BY <1>14 DEF WriteAccounts, Goto
<1>15. ASSUME NEW r \in Requests, Reactivate(r) PROVE IdsAreSettled'
  BY <1>15 DEF Reactivate, Goto
<1>16. ASSUME NEW r \in Requests, CommitReconnect(r) PROVE IdsAreSettled'
  <2>1. /\ \A i \in Ids : account'[i] = account[i] \/ \E p \in rows[r] : p[2] = i /\ account'[i] = p[1]
        /\ \A p \in rows[r] : account'[p[2]] = p[1]
    BY <1>16, ReconnectCreates
  <2>2. /\ pc[r] = "reCommit" /\ pc' = [pc EXCEPT ![r] = "idle"]
        /\ acct' = [acct EXCEPT ![r] = None] /\ rows' = [rows EXCEPT ![r] = {}]
        /\ dismissed' = [dismissed EXCEPT ![r] = {}]
        /\ UNCHANGED <<issued, linked, unlinked>>
    BY <1>16 DEF CommitReconnect, End, Goto
  <2> QED BY <2>1, <2>2
<1>17. ASSUME NEW r \in Requests, StartDisconnect(r) PROVE IdsAreSettled'
  BY <1>17 DEF StartDisconnect, Goto
<1>18. ASSUME NEW r \in Requests, Revoke(r) PROVE IdsAreSettled'
  BY <1>18 DEF Revoke, Goto
<1>19. ASSUME NEW r \in Requests, DeleteAccounts(r) PROVE IdsAreSettled'
  BY <1>19 DEF DeleteAccounts, Goto
<1>20. ASSUME NEW r \in Requests, CommitDisconnect(r) PROVE IdsAreSettled'
  BY <1>20 DEF CommitDisconnect, End, Goto
<1>21. ASSUME NEW r \in Requests, Abort(r) PROVE IdsAreSettled'
  BY <1>21 DEF Abort, End, Goto
<1>22. ASSUME NEW p \in linked, Unlink(p) PROVE IdsAreSettled'
  BY <1>22 DEF Unlink
<1>23. CASE UNCHANGED vars
  BY <1>23 DEF vars
<1> HIDE DEF Reads, TypeOK, Phases, IdsAreSettled, NewAccounts, OneRowPerAccount,
   AccountsRead, Running, Applying, Inserted, Creating, Managing, Settled, Imported, Copies,
   Uncommitted, Fresh, Stored, Targets
<1> QED BY <1>1, <1>2, <1>3, <1>4, <1>5, <1>6, <1>7, <1>8, <1>9, <1>10, <1>11, <1>12, <1>13,
   <1>14, <1>15, <1>16, <1>17, <1>18, <1>19, <1>20, <1>21, <1>22, <1>23 DEF Next, Sync,
   Manage

\* reconcileFinancialAccounts creates an account that is not there, and the unique index
\* on it refuses a second one.
LEMMA NewAccountsStep ==
  ASSUME Reads, [Next]_vars
  PROVE  NewAccounts'
<1> USE NoneAssumption, BankAssumption DEF Reads, TypeOK, Phases, IdsAreSettled,
   NewAccounts, OneRowPerAccount, AccountsRead, Running, Applying, Inserted, Creating,
   Managing, Settled, Uncommitted, Fresh, Stored, Targets, tables, locks, locals
<1>1. ASSUME NEW r \in Requests, NEW i \in Ids, StartSync(r, i) PROVE NewAccounts'
  BY <1>1 DEF StartSync, Goto
<1>2. ASSUME NEW r \in Requests, Claim(r) PROVE NewAccounts'
  BY <1>2 DEF Claim, Goto
<1>3. ASSUME NEW r \in Requests, AlreadyInProgress(r) PROVE NewAccounts'
  BY <1>3 DEF AlreadyInProgress, End, Goto
<1>4. ASSUME NEW r \in Requests, Load(r) PROVE NewAccounts'
  BY <1>4 DEF Load, Goto
<1>5. ASSUME NEW r \in Requests, ReadAccounts(r) PROVE NewAccounts'
  BY <1>5 DEF ReadAccounts, Goto
<1>6. ASSUME NEW r \in Requests, ReadExisting(r) PROVE NewAccounts'
  BY <1>6 DEF ReadExisting, Goto
<1>7. ASSUME NEW r \in Requests, InsertRows(r) PROVE NewAccounts'
  BY <1>7 DEF InsertRows, Goto
<1>8. ASSUME NEW r \in Requests, UpdateAccount(r) PROVE NewAccounts'
  BY <1>8 DEF UpdateAccount, Goto
<1>9. ASSUME NEW r \in Requests, UpdateConnection(r) PROVE NewAccounts'
  BY <1>9 DEF UpdateConnection, Goto
<1>10. ASSUME NEW r \in Requests, CommitSync(r) PROVE NewAccounts'
  BY <1>10 DEF CommitSync, End, Goto
<1>11. ASSUME NEW r \in Requests, Connect(r) PROVE NewAccounts'
  <2>1. /\ issued \subseteq issued'
        /\ \A i \in Ids : account'[i] # account[i] => i \notin issued /\ i \in issued'
        /\ \A i, j \in Ids : account'[i] # account[i] /\ account'[j] # account[j]
                             /\ account'[i] = account'[j] => i = j
        /\ \A e \in External : \E i \in Ids : account'[i] = e
    BY <1>11, ConnectCreates
  <2>2. connection = "none" /\ connection' = "ACTIVE"
        /\ UNCHANGED <<linked, unlinked, syncLocks, locks, pc, locals>>
    BY <1>11 DEF Connect
  <2> QED BY <2>1, <2>2
<1>12. ASSUME NEW r \in Requests, StartReconnect(r) PROVE NewAccounts'
  BY <1>12 DEF StartReconnect, Goto
<1>13. ASSUME NEW r \in Requests, ReadStored(r) PROVE NewAccounts'
  BY <1>13 DEF ReadStored, Goto
<1>14. ASSUME NEW r \in Requests, WriteAccounts(r) PROVE NewAccounts'
  <2>1. PICK S \in Fresh(External \ {p[1] : p \in rows[r]}) :
          rows' = [rows EXCEPT ![r] = S] /\ issued' = issued \cup Targets(S)
    BY <1>14 DEF WriteAccounts
  <2>2. /\ \A p \in S : p[2] \in Ids \ issued /\ p[1] \in External \ {q[1] : q \in rows[r]}
        /\ \A p, q \in S : p[1] = q[1] \/ p[2] = q[2] => p = q
    BY <2>1 DEF Fresh
  <2>3. \A p \in S : \A i \in Ids : account[i] # p[1]
    BY <1>14, <2>2 DEF WriteAccounts
  <2>4. \A o \in Requests \ {r} : pc[o] \in Creating => \A q \in rows[o] :
          q \in Uncommitted(r) /\ q[2] \in issued
    BY SMTT(30)
  <2>5. \A q \in Uncommitted(r), p \in S : p[1] # q[1]
    BY <1>14, <2>2, SMTT(30) DEF WriteAccounts
  <2> HIDE DEF Uncommitted
  <2> QED BY <1>14, <2>1, <2>2, <2>3, <2>4, <2>5, SMTT(30) DEF WriteAccounts, Goto
<1>15. ASSUME NEW r \in Requests, Reactivate(r) PROVE NewAccounts'
  BY <1>15 DEF Reactivate, Goto
<1>16. ASSUME NEW r \in Requests, CommitReconnect(r) PROVE NewAccounts'
  <2>1. /\ \A i \in Ids : account'[i] = account[i] \/ \E p \in rows[r] : p[2] = i /\ account'[i] = p[1]
        /\ \A p \in rows[r] : account'[p[2]] = p[1]
    BY <1>16, ReconnectCreates
  <2>2. /\ pc[r] = "reCommit" /\ pc' = [pc EXCEPT ![r] = "idle"]
        /\ acct' = [acct EXCEPT ![r] = None] /\ rows' = [rows EXCEPT ![r] = {}]
        /\ dismissed' = [dismissed EXCEPT ![r] = {}]
        /\ UNCHANGED <<issued, linked, unlinked>>
    BY <1>16 DEF CommitReconnect, End, Goto
  <2> QED BY <2>1, <2>2
<1>17. ASSUME NEW r \in Requests, StartDisconnect(r) PROVE NewAccounts'
  BY <1>17 DEF StartDisconnect, Goto
<1>18. ASSUME NEW r \in Requests, Revoke(r) PROVE NewAccounts'
  BY <1>18 DEF Revoke, Goto
<1>19. ASSUME NEW r \in Requests, DeleteAccounts(r) PROVE NewAccounts'
  BY <1>19 DEF DeleteAccounts, Goto
<1>20. ASSUME NEW r \in Requests, CommitDisconnect(r) PROVE NewAccounts'
  BY <1>20 DEF CommitDisconnect, End, Goto
<1>21. ASSUME NEW r \in Requests, Abort(r) PROVE NewAccounts'
  BY <1>21 DEF Abort, End, Goto
<1>22. ASSUME NEW p \in linked, Unlink(p) PROVE NewAccounts'
  BY <1>22 DEF Unlink
<1>23. CASE UNCHANGED vars
  BY <1>23 DEF vars
<1> HIDE DEF Reads, TypeOK, Phases, IdsAreSettled, NewAccounts, OneRowPerAccount,
   AccountsRead, Running, Applying, Inserted, Creating, Managing, Settled, Uncommitted,
   Fresh, Stored, Targets
<1> QED BY <1>1, <1>2, <1>3, <1>4, <1>5, <1>6, <1>7, <1>8, <1>9, <1>10, <1>11, <1>12, <1>13,
   <1>14, <1>15, <1>16, <1>17, <1>18, <1>19, <1>20, <1>21, <1>22, <1>23 DEF Next, Sync,
   Manage

\* An account of the provider has one row.
LEMMA OneRowPerAccountStep ==
  ASSUME Reads, AccountsMatchConnection, [Next]_vars
  PROVE  OneRowPerAccount'
<1> USE NoneAssumption, BankAssumption DEF Reads, TypeOK, Phases, IdsAreSettled,
   NewAccounts, OneRowPerAccount, AccountsRead, Running, Applying, Inserted, Creating,
   Managing, Settled, Uncommitted, Fresh, Stored, Targets, AccountsMatchConnection, tables,
   locks, locals
<1>1. ASSUME NEW r \in Requests, NEW i \in Ids, StartSync(r, i) PROVE OneRowPerAccount'
  BY <1>1 DEF StartSync, Goto
<1>2. ASSUME NEW r \in Requests, Claim(r) PROVE OneRowPerAccount'
  BY <1>2 DEF Claim, Goto
<1>3. ASSUME NEW r \in Requests, AlreadyInProgress(r) PROVE OneRowPerAccount'
  BY <1>3 DEF AlreadyInProgress, End, Goto
<1>4. ASSUME NEW r \in Requests, Load(r) PROVE OneRowPerAccount'
  BY <1>4 DEF Load, Goto
<1>5. ASSUME NEW r \in Requests, ReadAccounts(r) PROVE OneRowPerAccount'
  BY <1>5 DEF ReadAccounts, Goto
<1>6. ASSUME NEW r \in Requests, ReadExisting(r) PROVE OneRowPerAccount'
  BY <1>6 DEF ReadExisting, Goto
<1>7. ASSUME NEW r \in Requests, InsertRows(r) PROVE OneRowPerAccount'
  BY <1>7 DEF InsertRows, Goto
<1>8. ASSUME NEW r \in Requests, UpdateAccount(r) PROVE OneRowPerAccount'
  BY <1>8 DEF UpdateAccount, Goto
<1>9. ASSUME NEW r \in Requests, UpdateConnection(r) PROVE OneRowPerAccount'
  BY <1>9 DEF UpdateConnection, Goto
<1>10. ASSUME NEW r \in Requests, CommitSync(r) PROVE OneRowPerAccount'
  BY <1>10 DEF CommitSync, End, Goto
<1>11. ASSUME NEW r \in Requests, Connect(r) PROVE OneRowPerAccount'
  <2>1. /\ issued \subseteq issued'
        /\ \A i \in Ids : account'[i] # account[i] => i \notin issued /\ i \in issued'
        /\ \A i, j \in Ids : account'[i] # account[i] /\ account'[j] # account[j]
                             /\ account'[i] = account'[j] => i = j
        /\ \A e \in External : \E i \in Ids : account'[i] = e
    BY <1>11, ConnectCreates
  <2>2. connection = "none" /\ connection' = "ACTIVE"
        /\ UNCHANGED <<linked, unlinked, syncLocks, locks, pc, locals>>
    BY <1>11 DEF Connect
  <2> QED BY <2>1, <2>2
<1>12. ASSUME NEW r \in Requests, StartReconnect(r) PROVE OneRowPerAccount'
  BY <1>12 DEF StartReconnect, Goto
<1>13. ASSUME NEW r \in Requests, ReadStored(r) PROVE OneRowPerAccount'
  BY <1>13 DEF ReadStored, Goto
<1>14. ASSUME NEW r \in Requests, WriteAccounts(r) PROVE OneRowPerAccount'
  BY <1>14 DEF WriteAccounts, Goto
<1>15. ASSUME NEW r \in Requests, Reactivate(r) PROVE OneRowPerAccount'
  BY <1>15 DEF Reactivate, Goto
<1>16. ASSUME NEW r \in Requests, CommitReconnect(r) PROVE OneRowPerAccount'
  <2>1. /\ \A i \in Ids : account'[i] = account[i] \/ \E p \in rows[r] : p[2] = i /\ account'[i] = p[1]
        /\ \A p \in rows[r] : account'[p[2]] = p[1]
    BY <1>16, ReconnectCreates
  <2>2. /\ pc[r] = "reCommit" /\ pc' = [pc EXCEPT ![r] = "idle"]
        /\ acct' = [acct EXCEPT ![r] = None] /\ rows' = [rows EXCEPT ![r] = {}]
        /\ dismissed' = [dismissed EXCEPT ![r] = {}]
        /\ UNCHANGED <<issued, linked, unlinked>>
    BY <1>16 DEF CommitReconnect, End, Goto
  <2> QED BY <2>1, <2>2
<1>17. ASSUME NEW r \in Requests, StartDisconnect(r) PROVE OneRowPerAccount'
  BY <1>17 DEF StartDisconnect, Goto
<1>18. ASSUME NEW r \in Requests, Revoke(r) PROVE OneRowPerAccount'
  BY <1>18 DEF Revoke, Goto
<1>19. ASSUME NEW r \in Requests, DeleteAccounts(r) PROVE OneRowPerAccount'
  BY <1>19 DEF DeleteAccounts, Goto
<1>20. ASSUME NEW r \in Requests, CommitDisconnect(r) PROVE OneRowPerAccount'
  BY <1>20 DEF CommitDisconnect, End, Goto
<1>21. ASSUME NEW r \in Requests, Abort(r) PROVE OneRowPerAccount'
  BY <1>21 DEF Abort, End, Goto
<1>22. ASSUME NEW p \in linked, Unlink(p) PROVE OneRowPerAccount'
  BY <1>22 DEF Unlink
<1>23. CASE UNCHANGED vars
  BY <1>23 DEF vars
<1> HIDE DEF Reads, TypeOK, Phases, IdsAreSettled, NewAccounts, OneRowPerAccount,
   AccountsRead, Running, Applying, Inserted, Creating, Managing, Settled, Uncommitted,
   Fresh, Stored, Targets, AccountsMatchConnection
<1> QED BY <1>1, <1>2, <1>3, <1>4, <1>5, <1>6, <1>7, <1>8, <1>9, <1>10, <1>11, <1>12, <1>13,
   <1>14, <1>15, <1>16, <1>17, <1>18, <1>19, <1>20, <1>21, <1>22, <1>23 DEF Next, Sync,
   Manage

\* What a sync or a reconnect read of an account is true of it while it is stored.
LEMMA AccountsReadStep ==
  ASSUME Reads, [Next]_vars
  PROVE  AccountsRead'
<1> USE NoneAssumption, BankAssumption DEF Reads, TypeOK, Phases, IdsAreSettled,
   NewAccounts, OneRowPerAccount, AccountsRead, Running, Applying, Inserted, Creating,
   Managing, Settled, Uncommitted, Fresh, Stored, Targets, tables, locks, locals
<1>1. ASSUME NEW r \in Requests, NEW i \in Ids, StartSync(r, i) PROVE AccountsRead'
  BY <1>1 DEF StartSync, Goto
<1>2. ASSUME NEW r \in Requests, Claim(r) PROVE AccountsRead'
  BY <1>2 DEF Claim, Goto
<1>3. ASSUME NEW r \in Requests, AlreadyInProgress(r) PROVE AccountsRead'
  BY <1>3 DEF AlreadyInProgress, End, Goto
<1>4. ASSUME NEW r \in Requests, Load(r) PROVE AccountsRead'
  BY <1>4 DEF Load, Goto
<1>5. ASSUME NEW r \in Requests, ReadAccounts(r) PROVE AccountsRead'
  BY <1>5 DEF ReadAccounts, Goto
<1>6. ASSUME NEW r \in Requests, ReadExisting(r) PROVE AccountsRead'
  BY <1>6 DEF ReadExisting, Goto
<1>7. ASSUME NEW r \in Requests, InsertRows(r) PROVE AccountsRead'
  BY <1>7 DEF InsertRows, Goto
<1>8. ASSUME NEW r \in Requests, UpdateAccount(r) PROVE AccountsRead'
  BY <1>8 DEF UpdateAccount, Goto
<1>9. ASSUME NEW r \in Requests, UpdateConnection(r) PROVE AccountsRead'
  BY <1>9 DEF UpdateConnection, Goto
<1>10. ASSUME NEW r \in Requests, CommitSync(r) PROVE AccountsRead'
  BY <1>10 DEF CommitSync, End, Goto
<1>11. ASSUME NEW r \in Requests, Connect(r) PROVE AccountsRead'
  <2>1. /\ issued \subseteq issued'
        /\ \A i \in Ids : account'[i] # account[i] => i \notin issued /\ i \in issued'
        /\ \A i, j \in Ids : account'[i] # account[i] /\ account'[j] # account[j]
                             /\ account'[i] = account'[j] => i = j
        /\ \A e \in External : \E i \in Ids : account'[i] = e
    BY <1>11, ConnectCreates
  <2>2. connection = "none" /\ connection' = "ACTIVE"
        /\ UNCHANGED <<linked, unlinked, syncLocks, locks, pc, locals>>
    BY <1>11 DEF Connect
  <2> QED BY <2>1, <2>2
<1>12. ASSUME NEW r \in Requests, StartReconnect(r) PROVE AccountsRead'
  BY <1>12 DEF StartReconnect, Goto
<1>13. ASSUME NEW r \in Requests, ReadStored(r) PROVE AccountsRead'
  BY <1>13 DEF ReadStored, Goto
<1>14. ASSUME NEW r \in Requests, WriteAccounts(r) PROVE AccountsRead'
  BY <1>14 DEF WriteAccounts, Goto
<1>15. ASSUME NEW r \in Requests, Reactivate(r) PROVE AccountsRead'
  BY <1>15 DEF Reactivate, Goto
<1>16. ASSUME NEW r \in Requests, CommitReconnect(r) PROVE AccountsRead'
  <2>1. /\ \A i \in Ids : account'[i] = account[i] \/ \E p \in rows[r] : p[2] = i /\ account'[i] = p[1]
        /\ \A p \in rows[r] : account'[p[2]] = p[1]
    BY <1>16, ReconnectCreates
  <2>2. /\ pc[r] = "reCommit" /\ pc' = [pc EXCEPT ![r] = "idle"]
        /\ acct' = [acct EXCEPT ![r] = None] /\ rows' = [rows EXCEPT ![r] = {}]
        /\ dismissed' = [dismissed EXCEPT ![r] = {}]
        /\ UNCHANGED <<issued, linked, unlinked>>
    BY <1>16 DEF CommitReconnect, End, Goto
  <2> QED BY <2>1, <2>2
<1>17. ASSUME NEW r \in Requests, StartDisconnect(r) PROVE AccountsRead'
  BY <1>17 DEF StartDisconnect, Goto
<1>18. ASSUME NEW r \in Requests, Revoke(r) PROVE AccountsRead'
  BY <1>18 DEF Revoke, Goto
<1>19. ASSUME NEW r \in Requests, DeleteAccounts(r) PROVE AccountsRead'
  BY <1>19 DEF DeleteAccounts, Goto
<1>20. ASSUME NEW r \in Requests, CommitDisconnect(r) PROVE AccountsRead'
  BY <1>20 DEF CommitDisconnect, End, Goto
<1>21. ASSUME NEW r \in Requests, Abort(r) PROVE AccountsRead'
  BY <1>21 DEF Abort, End, Goto
<1>22. ASSUME NEW p \in linked, Unlink(p) PROVE AccountsRead'
  BY <1>22 DEF Unlink
<1>23. CASE UNCHANGED vars
  BY <1>23 DEF vars
<1> HIDE DEF Reads, TypeOK, Phases, IdsAreSettled, NewAccounts, OneRowPerAccount,
   AccountsRead, Running, Applying, Inserted, Creating, Managing, Settled, Uncommitted,
   Fresh, Stored, Targets
<1> QED BY <1>1, <1>2, <1>3, <1>4, <1>5, <1>6, <1>7, <1>8, <1>9, <1>10, <1>11, <1>12, <1>13,
   <1>14, <1>15, <1>16, <1>17, <1>18, <1>19, <1>20, <1>21, <1>22, <1>23 DEF Next, Sync,
   Manage

\* What is linked was imported.
LEMMA LinkedIsImported == ASSUME TypeOK PROVE linked \subseteq Imported
BY DEF TypeOK, Imported, Copies

\* The connection row is held from its update to the commit.
LEMMA ConnectionLockStep ==
  ASSUME TypeOK, ConnectionLock, [Next]_vars
  PROVE  ConnectionLock'
<1> USE NoneAssumption, BankAssumption DEF ConnectionLock, TypeOK, Stored, Running, tables,
   locks, locals
<1>1. ASSUME NEW r \in Requests, NEW i \in Ids, StartSync(r, i) PROVE ConnectionLock'
  BY <1>1 DEF StartSync, Goto
<1>2. ASSUME NEW r \in Requests, Claim(r) PROVE ConnectionLock'
  BY <1>2 DEF Claim, Goto
<1>3. ASSUME NEW r \in Requests, AlreadyInProgress(r) PROVE ConnectionLock'
  BY <1>3 DEF AlreadyInProgress, End, Goto
<1>4. ASSUME NEW r \in Requests, Load(r) PROVE ConnectionLock'
  BY <1>4 DEF Load, Goto
<1>5. ASSUME NEW r \in Requests, ReadAccounts(r) PROVE ConnectionLock'
  BY <1>5 DEF ReadAccounts, Goto
<1>6. ASSUME NEW r \in Requests, ReadExisting(r) PROVE ConnectionLock'
  BY <1>6 DEF ReadExisting, Goto
<1>7. ASSUME NEW r \in Requests, InsertRows(r) PROVE ConnectionLock'
  BY <1>7 DEF InsertRows, Goto
<1>8. ASSUME NEW r \in Requests, UpdateAccount(r) PROVE ConnectionLock'
  BY <1>8 DEF UpdateAccount, Goto
<1>9. ASSUME NEW r \in Requests, UpdateConnection(r) PROVE ConnectionLock'
  BY <1>9 DEF UpdateConnection, Goto
<1>10. ASSUME NEW r \in Requests, CommitSync(r) PROVE ConnectionLock'
  BY <1>10 DEF CommitSync, End, Goto
<1>11. ASSUME NEW r \in Requests, Connect(r) PROVE ConnectionLock'
  BY <1>11 DEF Connect, Goto
<1>12. ASSUME NEW r \in Requests, StartReconnect(r) PROVE ConnectionLock'
  BY <1>12 DEF StartReconnect, Goto
<1>13. ASSUME NEW r \in Requests, ReadStored(r) PROVE ConnectionLock'
  BY <1>13 DEF ReadStored, Goto
<1>14. ASSUME NEW r \in Requests, WriteAccounts(r) PROVE ConnectionLock'
  BY <1>14 DEF WriteAccounts, Goto
<1>15. ASSUME NEW r \in Requests, Reactivate(r) PROVE ConnectionLock'
  BY <1>15 DEF Reactivate, Goto
<1>16. ASSUME NEW r \in Requests, CommitReconnect(r) PROVE ConnectionLock'
  BY <1>16 DEF CommitReconnect, End, Goto
<1>17. ASSUME NEW r \in Requests, StartDisconnect(r) PROVE ConnectionLock'
  BY <1>17 DEF StartDisconnect, Goto
<1>18. ASSUME NEW r \in Requests, Revoke(r) PROVE ConnectionLock'
  BY <1>18 DEF Revoke, Goto
<1>19. ASSUME NEW r \in Requests, DeleteAccounts(r) PROVE ConnectionLock'
  BY <1>19 DEF DeleteAccounts, Goto
<1>20. ASSUME NEW r \in Requests, CommitDisconnect(r) PROVE ConnectionLock'
  BY <1>20 DEF CommitDisconnect, End, Goto
<1>21. ASSUME NEW r \in Requests, Abort(r) PROVE ConnectionLock'
  BY <1>21 DEF Abort, End, Goto
<1>22. ASSUME NEW p \in linked, Unlink(p) PROVE ConnectionLock'
  BY <1>22 DEF Unlink
<1>23. CASE UNCHANGED vars
  BY <1>23 DEF vars
<1> HIDE DEF ConnectionLock, TypeOK, Stored, Running
<1> QED BY <1>1, <1>2, <1>3, <1>4, <1>5, <1>6, <1>7, <1>8, <1>9, <1>10, <1>11, <1>12, <1>13,
   <1>14, <1>15, <1>16, <1>17, <1>18, <1>19, <1>20, <1>21, <1>22, <1>23 DEF Next, Sync,
   Manage

\* Only what a sync, a disconnect or a reconnect locks is locked, and it is stored.
LEMMA LockHoldersStep ==
  ASSUME Reads, Locks, [Next]_vars
  PROVE  LockHolders'
<1> USE NoneAssumption, BankAssumption DEF Locks, ConnectionLock, LockHolders, AccountsHeld,
   ReconnectCovers, KeyShares, Deleting, Reads, TypeOK, Phases, IdsAreSettled, NewAccounts,
   OneRowPerAccount, AccountsRead, Running, Applying, Inserted, Creating, Managing, Settled,
   Uncommitted, Fresh, Stored, Targets, tables, locks, locals
<1>1. ASSUME NEW r \in Requests, NEW i \in Ids, StartSync(r, i) PROVE LockHolders'
  BY <1>1 DEF StartSync, Goto
<1>2. ASSUME NEW r \in Requests, Claim(r) PROVE LockHolders'
  BY <1>2 DEF Claim, Goto
<1>3. ASSUME NEW r \in Requests, AlreadyInProgress(r) PROVE LockHolders'
  BY <1>3 DEF AlreadyInProgress, End, Goto
<1>4. ASSUME NEW r \in Requests, Load(r) PROVE LockHolders'
  BY <1>4 DEF Load, Goto
<1>5. ASSUME NEW r \in Requests, ReadAccounts(r) PROVE LockHolders'
  BY <1>5 DEF ReadAccounts, Goto
<1>6. ASSUME NEW r \in Requests, ReadExisting(r) PROVE LockHolders'
  BY <1>6 DEF ReadExisting, Goto
<1>7. ASSUME NEW r \in Requests, InsertRows(r) PROVE LockHolders'
  BY <1>7 DEF InsertRows, Goto
<1>8. ASSUME NEW r \in Requests, UpdateAccount(r) PROVE LockHolders'
  BY <1>8 DEF UpdateAccount, Goto
<1>9. ASSUME NEW r \in Requests, UpdateConnection(r) PROVE LockHolders'
  BY <1>9 DEF UpdateConnection, Goto
<1>10. ASSUME NEW r \in Requests, CommitSync(r) PROVE LockHolders'
  BY <1>10 DEF CommitSync, End, Goto
<1>11. ASSUME NEW r \in Requests, Connect(r) PROVE LockHolders'
  <2>1. /\ issued \subseteq issued'
        /\ \A i \in Ids : account'[i] # account[i] => i \notin issued /\ i \in issued'
        /\ \A i, j \in Ids : account'[i] # account[i] /\ account'[j] # account[j]
                             /\ account'[i] = account'[j] => i = j
        /\ \A e \in External : \E i \in Ids : account'[i] = e
    BY <1>11, ConnectCreates
  <2>2. connection = "none" /\ connection' = "ACTIVE"
        /\ UNCHANGED <<linked, unlinked, syncLocks, locks, pc, locals>>
    BY <1>11 DEF Connect
  <2> QED BY <2>1, <2>2
<1>12. ASSUME NEW r \in Requests, StartReconnect(r) PROVE LockHolders'
  BY <1>12 DEF StartReconnect, Goto
<1>13. ASSUME NEW r \in Requests, ReadStored(r) PROVE LockHolders'
  BY <1>13 DEF ReadStored, Goto
<1>14. ASSUME NEW r \in Requests, WriteAccounts(r) PROVE LockHolders'
  BY <1>14 DEF WriteAccounts, Goto
<1>15. ASSUME NEW r \in Requests, Reactivate(r) PROVE LockHolders'
  BY <1>15 DEF Reactivate, Goto
<1>16. ASSUME NEW r \in Requests, CommitReconnect(r) PROVE LockHolders'
  <2>1. /\ \A i \in Ids : account'[i] = account[i] \/ \E p \in rows[r] : p[2] = i /\ account'[i] = p[1]
        /\ \A p \in rows[r] : account'[p[2]] = p[1]
    BY <1>16, ReconnectCreates
  <2>2. /\ pc[r] = "reCommit" /\ pc' = [pc EXCEPT ![r] = "idle"]
        /\ acct' = [acct EXCEPT ![r] = None] /\ rows' = [rows EXCEPT ![r] = {}]
        /\ dismissed' = [dismissed EXCEPT ![r] = {}]
        /\ UNCHANGED <<issued, linked, unlinked>>
    BY <1>16 DEF CommitReconnect, End, Goto
  <2>3. /\ connLock' = IF connLock = r THEN None ELSE connLock
        /\ rowLock' = [i \in Ids |-> IF rowLock[i] = r THEN None ELSE rowLock[i]]
        /\ keyShare' = [i \in Ids |-> keyShare[i] \ {r}]
        /\ connection' = "ACTIVE"
    BY <1>16 DEF CommitReconnect, End
  <2> QED BY <2>1, <2>2, <2>3
<1>17. ASSUME NEW r \in Requests, StartDisconnect(r) PROVE LockHolders'
  BY <1>17 DEF StartDisconnect, Goto
<1>18. ASSUME NEW r \in Requests, Revoke(r) PROVE LockHolders'
  BY <1>18 DEF Revoke, Goto
<1>19. ASSUME NEW r \in Requests, DeleteAccounts(r) PROVE LockHolders'
  BY <1>19 DEF DeleteAccounts, Goto
<1>20. ASSUME NEW r \in Requests, CommitDisconnect(r) PROVE LockHolders'
  BY <1>20 DEF CommitDisconnect, End, Goto
<1>21. ASSUME NEW r \in Requests, Abort(r) PROVE LockHolders'
  BY <1>21 DEF Abort, End, Goto
<1>22. ASSUME NEW p \in linked, Unlink(p) PROVE LockHolders'
  BY <1>22 DEF Unlink
<1>23. CASE UNCHANGED vars
  BY <1>23 DEF vars
<1> HIDE DEF Locks, ConnectionLock, LockHolders, AccountsHeld, ReconnectCovers, KeyShares,
   Deleting, Reads, TypeOK, Phases, IdsAreSettled, NewAccounts, OneRowPerAccount,
   AccountsRead, Running, Applying, Inserted, Creating, Managing, Settled, Uncommitted,
   Fresh, Stored, Targets
<1> QED BY <1>1, <1>2, <1>3, <1>4, <1>5, <1>6, <1>7, <1>8, <1>9, <1>10, <1>11, <1>12, <1>13,
   <1>14, <1>15, <1>16, <1>17, <1>18, <1>19, <1>20, <1>21, <1>22, <1>23 DEF Next, Sync,
   Manage

\* A sync past its update holds its account; a disconnect past its deletion holds all.
LEMMA AccountsHeldStep ==
  ASSUME Reads, Locks, [Next]_vars
  PROVE  AccountsHeld'
<1> USE NoneAssumption, BankAssumption DEF Locks, ConnectionLock, LockHolders, AccountsHeld,
   ReconnectCovers, KeyShares, Deleting, Reads, TypeOK, Phases, IdsAreSettled, NewAccounts,
   OneRowPerAccount, AccountsRead, Running, Applying, Inserted, Creating, Managing, Settled,
   Uncommitted, Fresh, Stored, Targets, tables, locks, locals
<1>1. ASSUME NEW r \in Requests, NEW i \in Ids, StartSync(r, i) PROVE AccountsHeld'
  BY <1>1 DEF StartSync, Goto
<1>2. ASSUME NEW r \in Requests, Claim(r) PROVE AccountsHeld'
  BY <1>2 DEF Claim, Goto
<1>3. ASSUME NEW r \in Requests, AlreadyInProgress(r) PROVE AccountsHeld'
  BY <1>3 DEF AlreadyInProgress, End, Goto
<1>4. ASSUME NEW r \in Requests, Load(r) PROVE AccountsHeld'
  BY <1>4 DEF Load, Goto
<1>5. ASSUME NEW r \in Requests, ReadAccounts(r) PROVE AccountsHeld'
  BY <1>5 DEF ReadAccounts, Goto
<1>6. ASSUME NEW r \in Requests, ReadExisting(r) PROVE AccountsHeld'
  BY <1>6 DEF ReadExisting, Goto
<1>7. ASSUME NEW r \in Requests, InsertRows(r) PROVE AccountsHeld'
  BY <1>7 DEF InsertRows, Goto
<1>8. ASSUME NEW r \in Requests, UpdateAccount(r) PROVE AccountsHeld'
  BY <1>8 DEF UpdateAccount, Goto
<1>9. ASSUME NEW r \in Requests, UpdateConnection(r) PROVE AccountsHeld'
  BY <1>9 DEF UpdateConnection, Goto
<1>10. ASSUME NEW r \in Requests, CommitSync(r) PROVE AccountsHeld'
  BY <1>10 DEF CommitSync, End, Goto
<1>11. ASSUME NEW r \in Requests, Connect(r) PROVE AccountsHeld'
  <2>1. /\ issued \subseteq issued'
        /\ \A i \in Ids : account'[i] # account[i] => i \notin issued /\ i \in issued'
        /\ \A i, j \in Ids : account'[i] # account[i] /\ account'[j] # account[j]
                             /\ account'[i] = account'[j] => i = j
        /\ \A e \in External : \E i \in Ids : account'[i] = e
    BY <1>11, ConnectCreates
  <2>2. connection = "none" /\ connection' = "ACTIVE"
        /\ UNCHANGED <<linked, unlinked, syncLocks, locks, pc, locals>>
    BY <1>11 DEF Connect
  <2> QED BY <2>1, <2>2
<1>12. ASSUME NEW r \in Requests, StartReconnect(r) PROVE AccountsHeld'
  BY <1>12 DEF StartReconnect, Goto
<1>13. ASSUME NEW r \in Requests, ReadStored(r) PROVE AccountsHeld'
  BY <1>13 DEF ReadStored, Goto
<1>14. ASSUME NEW r \in Requests, WriteAccounts(r) PROVE AccountsHeld'
  BY <1>14 DEF WriteAccounts, Goto
<1>15. ASSUME NEW r \in Requests, Reactivate(r) PROVE AccountsHeld'
  BY <1>15 DEF Reactivate, Goto
<1>16. ASSUME NEW r \in Requests, CommitReconnect(r) PROVE AccountsHeld'
  <2>1. /\ \A i \in Ids : account'[i] = account[i] \/ \E p \in rows[r] : p[2] = i /\ account'[i] = p[1]
        /\ \A p \in rows[r] : account'[p[2]] = p[1]
    BY <1>16, ReconnectCreates
  <2>2. /\ pc[r] = "reCommit" /\ pc' = [pc EXCEPT ![r] = "idle"]
        /\ acct' = [acct EXCEPT ![r] = None] /\ rows' = [rows EXCEPT ![r] = {}]
        /\ dismissed' = [dismissed EXCEPT ![r] = {}]
        /\ UNCHANGED <<issued, linked, unlinked>>
    BY <1>16 DEF CommitReconnect, End, Goto
  <2>3. /\ connLock' = IF connLock = r THEN None ELSE connLock
        /\ rowLock' = [i \in Ids |-> IF rowLock[i] = r THEN None ELSE rowLock[i]]
        /\ keyShare' = [i \in Ids |-> keyShare[i] \ {r}]
        /\ connection' = "ACTIVE"
    BY <1>16 DEF CommitReconnect, End
  <2> QED BY <2>1, <2>2, <2>3
<1>17. ASSUME NEW r \in Requests, StartDisconnect(r) PROVE AccountsHeld'
  BY <1>17 DEF StartDisconnect, Goto
<1>18. ASSUME NEW r \in Requests, Revoke(r) PROVE AccountsHeld'
  BY <1>18 DEF Revoke, Goto
<1>19. ASSUME NEW r \in Requests, DeleteAccounts(r) PROVE AccountsHeld'
  BY <1>19 DEF DeleteAccounts, Goto
<1>20. ASSUME NEW r \in Requests, CommitDisconnect(r) PROVE AccountsHeld'
  BY <1>20 DEF CommitDisconnect, End, Goto
<1>21. ASSUME NEW r \in Requests, Abort(r) PROVE AccountsHeld'
  BY <1>21 DEF Abort, End, Goto
<1>22. ASSUME NEW p \in linked, Unlink(p) PROVE AccountsHeld'
  BY <1>22 DEF Unlink
<1>23. CASE UNCHANGED vars
  BY <1>23 DEF vars
<1> HIDE DEF Locks, ConnectionLock, LockHolders, AccountsHeld, ReconnectCovers, KeyShares,
   Deleting, Reads, TypeOK, Phases, IdsAreSettled, NewAccounts, OneRowPerAccount,
   AccountsRead, Running, Applying, Inserted, Creating, Managing, Settled, Uncommitted,
   Fresh, Stored, Targets
<1> QED BY <1>1, <1>2, <1>3, <1>4, <1>5, <1>6, <1>7, <1>8, <1>9, <1>10, <1>11, <1>12, <1>13,
   <1>14, <1>15, <1>16, <1>17, <1>18, <1>19, <1>20, <1>21, <1>22, <1>23 DEF Next, Sync,
   Manage

\* A reconnect holds or creates a row for every account of the provider.
LEMMA ReconnectCoversStep ==
  ASSUME Reads, Locks, [Next]_vars
  PROVE  ReconnectCovers'
<1> USE NoneAssumption, BankAssumption DEF Locks, ConnectionLock, LockHolders, AccountsHeld,
   ReconnectCovers, KeyShares, Deleting, Reads, TypeOK, Phases, IdsAreSettled, NewAccounts,
   OneRowPerAccount, AccountsRead, Running, Applying, Inserted, Creating, Managing, Settled,
   Uncommitted, Fresh, Stored, Targets, tables, locks, locals
<1>1. ASSUME NEW r \in Requests, NEW i \in Ids, StartSync(r, i) PROVE ReconnectCovers'
  BY <1>1, SMTT(30) DEF StartSync, Goto
<1>2. ASSUME NEW r \in Requests, Claim(r) PROVE ReconnectCovers'
  BY <1>2, SMTT(30) DEF Claim, Goto
<1>3. ASSUME NEW r \in Requests, AlreadyInProgress(r) PROVE ReconnectCovers'
  BY <1>3, SMTT(30) DEF AlreadyInProgress, End, Goto
<1>4. ASSUME NEW r \in Requests, Load(r) PROVE ReconnectCovers'
  BY <1>4, SMTT(30) DEF Load, Goto
<1>5. ASSUME NEW r \in Requests, ReadAccounts(r) PROVE ReconnectCovers'
  BY <1>5, SMTT(30) DEF ReadAccounts, Goto
<1>6. ASSUME NEW r \in Requests, ReadExisting(r) PROVE ReconnectCovers'
  BY <1>6, SMTT(30) DEF ReadExisting, Goto
<1>7. ASSUME NEW r \in Requests, InsertRows(r) PROVE ReconnectCovers'
  BY <1>7, SMTT(30) DEF InsertRows, Goto
<1>8. ASSUME NEW r \in Requests, UpdateAccount(r) PROVE ReconnectCovers'
  BY <1>8, SMTT(30) DEF UpdateAccount, Goto
<1>9. ASSUME NEW r \in Requests, UpdateConnection(r) PROVE ReconnectCovers'
  BY <1>9, SMTT(30) DEF UpdateConnection, Goto
<1>10. ASSUME NEW r \in Requests, CommitSync(r) PROVE ReconnectCovers'
  BY <1>10, SMTT(30) DEF CommitSync, End, Goto
<1>11. ASSUME NEW r \in Requests, Connect(r) PROVE ReconnectCovers'
  <2>1. /\ issued \subseteq issued'
        /\ \A i \in Ids : account'[i] # account[i] => i \notin issued /\ i \in issued'
        /\ \A i, j \in Ids : account'[i] # account[i] /\ account'[j] # account[j]
                             /\ account'[i] = account'[j] => i = j
        /\ \A e \in External : \E i \in Ids : account'[i] = e
    BY <1>11, ConnectCreates
  <2>2. connection = "none" /\ connection' = "ACTIVE"
        /\ UNCHANGED <<linked, unlinked, syncLocks, locks, pc, locals>>
    BY <1>11 DEF Connect
  <2> QED BY <2>1, <2>2, SMTT(30)
<1>12. ASSUME NEW r \in Requests, StartReconnect(r) PROVE ReconnectCovers'
  BY <1>12, SMTT(30) DEF StartReconnect, Goto
<1>13. ASSUME NEW r \in Requests, ReadStored(r) PROVE ReconnectCovers'
  BY <1>13, SMTT(30) DEF ReadStored, Goto
<1>14. ASSUME NEW r \in Requests, WriteAccounts(r) PROVE ReconnectCovers'
  <2>1. PICK S \in Fresh(External \ {p[1] : p \in rows[r]}) :
          rows' = [rows EXCEPT ![r] = S] /\ issued' = issued \cup Targets(S)
    BY <1>14 DEF WriteAccounts
  <2>2. /\ \A p \in S : p[2] \in Ids \ issued /\ p[1] \in External \ {q[1] : q \in rows[r]}
        /\ \A p, q \in S : p[1] = q[1] \/ p[2] = q[2] => p = q
    BY <2>1 DEF Fresh
  <2>3. \A e \in External : e \notin {p[1] : p \in rows[r]} => \E p \in S : p[1] = e
    BY <2>1 DEF Fresh
  <2>4. \A p \in rows[r] : p[2] \in Stored /\ account'[p[2]] = p[1] /\ rowLock'[p[2]] = r
    BY <1>14 DEF WriteAccounts
  <2>5. rows'[r] = S
    BY <2>1
  <2>6. ASSUME NEW e \in External
        PROVE  \/ \E i \in Ids : account'[i] = e /\ rowLock'[i] = r
               \/ \E p \in rows'[r] : p[1] = e
    <3>1. CASE \E p \in rows[r] : p[1] = e
      BY <2>4, <3>1
    <3>2. CASE e \notin {p[1] : p \in rows[r]}
      BY <2>3, <2>5, <3>2
    <3> QED BY <3>1, <3>2
  <2>7. \A o \in Requests \ {r} : /\ pc'[o] = pc[o] /\ rows'[o] = rows[o]
                                 /\ \A i \in Ids : rowLock[i] = o => rowLock'[i] = o
    BY <1>14, <2>1 DEF WriteAccounts, Goto
  <2>8. account' = account
    BY <1>14 DEF WriteAccounts
  <2>9. ASSUME NEW o \in Requests, pc'[o] \in Creating, NEW e \in External
         PROVE  \/ \E i \in Ids : account'[i] = e /\ rowLock'[i] = o
                \/ \E p \in rows'[o] : p[1] = e
    <3>1. CASE o = r
      BY <2>6, <3>1
    <3>2. CASE o # r
      <4>1. o \in Requests \ {r} /\ pc[o] \in Creating
        BY <2>7, <2>9, <3>2
      <4> QED BY <2>7, <2>8, <4>1
    <3> QED BY <3>1, <3>2
  <2> HIDE DEF Creating
  <2> QED BY <2>9
<1>15. ASSUME NEW r \in Requests, Reactivate(r) PROVE ReconnectCovers'
  BY <1>15, SMTT(30) DEF Reactivate, Goto
<1>16. ASSUME NEW r \in Requests, CommitReconnect(r) PROVE ReconnectCovers'
  <2>1. /\ \A i \in Ids : account'[i] = account[i] \/ \E p \in rows[r] : p[2] = i /\ account'[i] = p[1]
        /\ \A p \in rows[r] : account'[p[2]] = p[1]
    BY <1>16, ReconnectCreates
  <2>2. /\ pc[r] = "reCommit" /\ pc' = [pc EXCEPT ![r] = "idle"]
        /\ acct' = [acct EXCEPT ![r] = None] /\ rows' = [rows EXCEPT ![r] = {}]
        /\ dismissed' = [dismissed EXCEPT ![r] = {}]
        /\ UNCHANGED <<issued, linked, unlinked>>
    BY <1>16 DEF CommitReconnect, End, Goto
  <2>3. /\ connLock' = IF connLock = r THEN None ELSE connLock
        /\ rowLock' = [i \in Ids |-> IF rowLock[i] = r THEN None ELSE rowLock[i]]
        /\ keyShare' = [i \in Ids |-> keyShare[i] \ {r}]
        /\ connection' = "ACTIVE"
    BY <1>16 DEF CommitReconnect, End
  <2> QED BY <2>1, <2>2, <2>3, SMTT(30)
<1>17. ASSUME NEW r \in Requests, StartDisconnect(r) PROVE ReconnectCovers'
  BY <1>17, SMTT(30) DEF StartDisconnect, Goto
<1>18. ASSUME NEW r \in Requests, Revoke(r) PROVE ReconnectCovers'
  BY <1>18, SMTT(30) DEF Revoke, Goto
<1>19. ASSUME NEW r \in Requests, DeleteAccounts(r) PROVE ReconnectCovers'
  BY <1>19, SMTT(30) DEF DeleteAccounts, Goto
<1>20. ASSUME NEW r \in Requests, CommitDisconnect(r) PROVE ReconnectCovers'
  BY <1>20, SMTT(30) DEF CommitDisconnect, End, Goto
<1>21. ASSUME NEW r \in Requests, Abort(r) PROVE ReconnectCovers'
  BY <1>21, SMTT(30) DEF Abort, End, Goto
<1>22. ASSUME NEW p \in linked, Unlink(p) PROVE ReconnectCovers'
  BY <1>22, SMTT(30) DEF Unlink
<1>23. CASE UNCHANGED vars
  BY <1>23, SMTT(30) DEF vars
<1> HIDE DEF Locks, ConnectionLock, LockHolders, AccountsHeld, ReconnectCovers, KeyShares,
   Deleting, Reads, TypeOK, Phases, IdsAreSettled, NewAccounts, OneRowPerAccount,
   AccountsRead, Running, Applying, Inserted, Creating, Managing, Settled, Uncommitted,
   Fresh, Stored, Targets
<1> QED BY <1>1, <1>2, <1>3, <1>4, <1>5, <1>6, <1>7, <1>8, <1>9, <1>10, <1>11, <1>12, <1>13,
   <1>14, <1>15, <1>16, <1>17, <1>18, <1>19, <1>20, <1>21, <1>22, <1>23 DEF Next, Sync,
   Manage

\* A foreign key check keeps the account of an inserted row until the commit.
LEMMA KeySharesStep ==
  ASSUME Reads, Locks, [Next]_vars
  PROVE  KeyShares'
<1> USE NoneAssumption, BankAssumption DEF Locks, ConnectionLock, LockHolders, AccountsHeld,
   ReconnectCovers, KeyShares, Deleting, Reads, TypeOK, Phases, IdsAreSettled, NewAccounts,
   OneRowPerAccount, AccountsRead, Running, Applying, Inserted, Creating, Managing, Settled,
   Uncommitted, Fresh, Stored, Targets, tables, locks, locals
<1>1. ASSUME NEW r \in Requests, NEW i \in Ids, StartSync(r, i) PROVE KeyShares'
  BY <1>1 DEF StartSync, Goto
<1>2. ASSUME NEW r \in Requests, Claim(r) PROVE KeyShares'
  BY <1>2 DEF Claim, Goto
<1>3. ASSUME NEW r \in Requests, AlreadyInProgress(r) PROVE KeyShares'
  BY <1>3 DEF AlreadyInProgress, End, Goto
<1>4. ASSUME NEW r \in Requests, Load(r) PROVE KeyShares'
  BY <1>4 DEF Load, Goto
<1>5. ASSUME NEW r \in Requests, ReadAccounts(r) PROVE KeyShares'
  BY <1>5 DEF ReadAccounts, Goto
<1>6. ASSUME NEW r \in Requests, ReadExisting(r) PROVE KeyShares'
  BY <1>6 DEF ReadExisting, Goto
<1>7. ASSUME NEW r \in Requests, InsertRows(r) PROVE KeyShares'
  BY <1>7 DEF InsertRows, Goto
<1>8. ASSUME NEW r \in Requests, UpdateAccount(r) PROVE KeyShares'
  BY <1>8 DEF UpdateAccount, Goto
<1>9. ASSUME NEW r \in Requests, UpdateConnection(r) PROVE KeyShares'
  BY <1>9 DEF UpdateConnection, Goto
<1>10. ASSUME NEW r \in Requests, CommitSync(r) PROVE KeyShares'
  BY <1>10 DEF CommitSync, End, Goto
<1>11. ASSUME NEW r \in Requests, Connect(r) PROVE KeyShares'
  <2>1. /\ issued \subseteq issued'
        /\ \A i \in Ids : account'[i] # account[i] => i \notin issued /\ i \in issued'
        /\ \A i, j \in Ids : account'[i] # account[i] /\ account'[j] # account[j]
                             /\ account'[i] = account'[j] => i = j
        /\ \A e \in External : \E i \in Ids : account'[i] = e
    BY <1>11, ConnectCreates
  <2>2. connection = "none" /\ connection' = "ACTIVE"
        /\ UNCHANGED <<linked, unlinked, syncLocks, locks, pc, locals>>
    BY <1>11 DEF Connect
  <2> QED BY <2>1, <2>2
<1>12. ASSUME NEW r \in Requests, StartReconnect(r) PROVE KeyShares'
  BY <1>12 DEF StartReconnect, Goto
<1>13. ASSUME NEW r \in Requests, ReadStored(r) PROVE KeyShares'
  BY <1>13 DEF ReadStored, Goto
<1>14. ASSUME NEW r \in Requests, WriteAccounts(r) PROVE KeyShares'
  BY <1>14 DEF WriteAccounts, Goto
<1>15. ASSUME NEW r \in Requests, Reactivate(r) PROVE KeyShares'
  BY <1>15 DEF Reactivate, Goto
<1>16. ASSUME NEW r \in Requests, CommitReconnect(r) PROVE KeyShares'
  <2>1. /\ \A i \in Ids : account'[i] = account[i] \/ \E p \in rows[r] : p[2] = i /\ account'[i] = p[1]
        /\ \A p \in rows[r] : account'[p[2]] = p[1]
    BY <1>16, ReconnectCreates
  <2>2. /\ pc[r] = "reCommit" /\ pc' = [pc EXCEPT ![r] = "idle"]
        /\ acct' = [acct EXCEPT ![r] = None] /\ rows' = [rows EXCEPT ![r] = {}]
        /\ dismissed' = [dismissed EXCEPT ![r] = {}]
        /\ UNCHANGED <<issued, linked, unlinked>>
    BY <1>16 DEF CommitReconnect, End, Goto
  <2>3. /\ connLock' = IF connLock = r THEN None ELSE connLock
        /\ rowLock' = [i \in Ids |-> IF rowLock[i] = r THEN None ELSE rowLock[i]]
        /\ keyShare' = [i \in Ids |-> keyShare[i] \ {r}]
        /\ connection' = "ACTIVE"
    BY <1>16 DEF CommitReconnect, End
  <2> QED BY <2>1, <2>2, <2>3
<1>17. ASSUME NEW r \in Requests, StartDisconnect(r) PROVE KeyShares'
  BY <1>17 DEF StartDisconnect, Goto
<1>18. ASSUME NEW r \in Requests, Revoke(r) PROVE KeyShares'
  BY <1>18 DEF Revoke, Goto
<1>19. ASSUME NEW r \in Requests, DeleteAccounts(r) PROVE KeyShares'
  BY <1>19 DEF DeleteAccounts, Goto
<1>20. ASSUME NEW r \in Requests, CommitDisconnect(r) PROVE KeyShares'
  BY <1>20 DEF CommitDisconnect, End, Goto
<1>21. ASSUME NEW r \in Requests, Abort(r) PROVE KeyShares'
  BY <1>21 DEF Abort, End, Goto
<1>22. ASSUME NEW p \in linked, Unlink(p) PROVE KeyShares'
  BY <1>22 DEF Unlink
<1>23. CASE UNCHANGED vars
  BY <1>23 DEF vars
<1> HIDE DEF Locks, ConnectionLock, LockHolders, AccountsHeld, ReconnectCovers, KeyShares,
   Deleting, Reads, TypeOK, Phases, IdsAreSettled, NewAccounts, OneRowPerAccount,
   AccountsRead, Running, Applying, Inserted, Creating, Managing, Settled, Uncommitted,
   Fresh, Stored, Targets
<1> QED BY <1>1, <1>2, <1>3, <1>4, <1>5, <1>6, <1>7, <1>8, <1>9, <1>10, <1>11, <1>12, <1>13,
   <1>14, <1>15, <1>16, <1>17, <1>18, <1>19, <1>20, <1>21, <1>22, <1>23 DEF Next, Sync,
   Manage

\* The Map holds an account exactly while its one sync runs.
LEMMA OneSyncStep ==
  ASSUME TypeOK, Phases, OneSyncPerAccount, [Next]_vars
  PROVE  OneSyncPerAccount'
<1> USE NoneAssumption, BankAssumption DEF TypeOK, Phases, OneSyncPerAccount, Syncing,
   Stored, Running, Applying, Inserted, Creating, Managing, tables, locks, locals
<1>1. ASSUME NEW r \in Requests, NEW i \in Ids, StartSync(r, i) PROVE OneSyncPerAccount'
  BY <1>1 DEF StartSync, Goto
<1>2. ASSUME NEW r \in Requests, Claim(r) PROVE OneSyncPerAccount'
  BY <1>2 DEF Claim, Goto
<1>3. ASSUME NEW r \in Requests, AlreadyInProgress(r) PROVE OneSyncPerAccount'
  BY <1>3 DEF AlreadyInProgress, End, Goto
<1>4. ASSUME NEW r \in Requests, Load(r) PROVE OneSyncPerAccount'
  BY <1>4 DEF Load, Goto
<1>5. ASSUME NEW r \in Requests, ReadAccounts(r) PROVE OneSyncPerAccount'
  BY <1>5 DEF ReadAccounts, Goto
<1>6. ASSUME NEW r \in Requests, ReadExisting(r) PROVE OneSyncPerAccount'
  BY <1>6 DEF ReadExisting, Goto
<1>7. ASSUME NEW r \in Requests, InsertRows(r) PROVE OneSyncPerAccount'
  BY <1>7 DEF InsertRows, Goto
<1>8. ASSUME NEW r \in Requests, UpdateAccount(r) PROVE OneSyncPerAccount'
  BY <1>8 DEF UpdateAccount, Goto
<1>9. ASSUME NEW r \in Requests, UpdateConnection(r) PROVE OneSyncPerAccount'
  BY <1>9 DEF UpdateConnection, Goto
<1>10. ASSUME NEW r \in Requests, CommitSync(r) PROVE OneSyncPerAccount'
  BY <1>10 DEF CommitSync, End, Goto
<1>11. ASSUME NEW r \in Requests, Connect(r) PROVE OneSyncPerAccount'
  BY <1>11 DEF Connect, Goto
<1>12. ASSUME NEW r \in Requests, StartReconnect(r) PROVE OneSyncPerAccount'
  BY <1>12 DEF StartReconnect, Goto
<1>13. ASSUME NEW r \in Requests, ReadStored(r) PROVE OneSyncPerAccount'
  BY <1>13 DEF ReadStored, Goto
<1>14. ASSUME NEW r \in Requests, WriteAccounts(r) PROVE OneSyncPerAccount'
  BY <1>14 DEF WriteAccounts, Goto
<1>15. ASSUME NEW r \in Requests, Reactivate(r) PROVE OneSyncPerAccount'
  BY <1>15 DEF Reactivate, Goto
<1>16. ASSUME NEW r \in Requests, CommitReconnect(r) PROVE OneSyncPerAccount'
  BY <1>16 DEF CommitReconnect, End, Goto
<1>17. ASSUME NEW r \in Requests, StartDisconnect(r) PROVE OneSyncPerAccount'
  BY <1>17 DEF StartDisconnect, Goto
<1>18. ASSUME NEW r \in Requests, Revoke(r) PROVE OneSyncPerAccount'
  BY <1>18 DEF Revoke, Goto
<1>19. ASSUME NEW r \in Requests, DeleteAccounts(r) PROVE OneSyncPerAccount'
  BY <1>19 DEF DeleteAccounts, Goto
<1>20. ASSUME NEW r \in Requests, CommitDisconnect(r) PROVE OneSyncPerAccount'
  BY <1>20 DEF CommitDisconnect, End, Goto
<1>21. ASSUME NEW r \in Requests, Abort(r) PROVE OneSyncPerAccount'
  BY <1>21 DEF Abort, End, Goto
<1>22. ASSUME NEW p \in linked, Unlink(p) PROVE OneSyncPerAccount'
  BY <1>22 DEF Unlink
<1>23. CASE UNCHANGED vars
  BY <1>23 DEF vars
<1> HIDE DEF TypeOK, Phases, OneSyncPerAccount, Syncing, Stored, Running, Applying,
   Inserted, Creating, Managing
<1> QED BY <1>1, <1>2, <1>3, <1>4, <1>5, <1>6, <1>7, <1>8, <1>9, <1>10, <1>11, <1>12, <1>13,
   <1>14, <1>15, <1>16, <1>17, <1>18, <1>19, <1>20, <1>21, <1>22, <1>23 DEF Next, Sync,
   Manage

\* A row that was dismissed when a sync began stays dismissed.
LEMMA DismissedIsGoneStep ==
  ASSUME TypeOK, Phases, DismissedIsGone, [Next]_vars
  PROVE  DismissedIsGone'
<1> USE NoneAssumption, BankAssumption DEF TypeOK, Phases, DismissedIsGone, Gone, Syncing,
   Stored, Running, Applying, Inserted, Creating, Managing, tables, locks, locals
<1>1. ASSUME NEW r \in Requests, NEW i \in Ids, StartSync(r, i) PROVE DismissedIsGone'
  BY <1>1 DEF StartSync, Goto
<1>2. ASSUME NEW r \in Requests, Claim(r) PROVE DismissedIsGone'
  BY <1>2 DEF Claim, Goto
<1>3. ASSUME NEW r \in Requests, AlreadyInProgress(r) PROVE DismissedIsGone'
  BY <1>3 DEF AlreadyInProgress, End, Goto
<1>4. ASSUME NEW r \in Requests, Load(r) PROVE DismissedIsGone'
  BY <1>4 DEF Load, Goto
<1>5. ASSUME NEW r \in Requests, ReadAccounts(r) PROVE DismissedIsGone'
  BY <1>5 DEF ReadAccounts, Goto
<1>6. ASSUME NEW r \in Requests, ReadExisting(r) PROVE DismissedIsGone'
  BY <1>6 DEF ReadExisting, Goto
<1>7. ASSUME NEW r \in Requests, InsertRows(r) PROVE DismissedIsGone'
  BY <1>7 DEF InsertRows, Goto
<1>8. ASSUME NEW r \in Requests, UpdateAccount(r) PROVE DismissedIsGone'
  BY <1>8 DEF UpdateAccount, Goto
<1>9. ASSUME NEW r \in Requests, UpdateConnection(r) PROVE DismissedIsGone'
  BY <1>9 DEF UpdateConnection, Goto
<1>10. ASSUME NEW r \in Requests, CommitSync(r) PROVE DismissedIsGone'
  BY <1>10 DEF CommitSync, End, Goto
<1>11. ASSUME NEW r \in Requests, Connect(r) PROVE DismissedIsGone'
  BY <1>11 DEF Connect, Goto
<1>12. ASSUME NEW r \in Requests, StartReconnect(r) PROVE DismissedIsGone'
  BY <1>12 DEF StartReconnect, Goto
<1>13. ASSUME NEW r \in Requests, ReadStored(r) PROVE DismissedIsGone'
  BY <1>13 DEF ReadStored, Goto
<1>14. ASSUME NEW r \in Requests, WriteAccounts(r) PROVE DismissedIsGone'
  BY <1>14 DEF WriteAccounts, Goto
<1>15. ASSUME NEW r \in Requests, Reactivate(r) PROVE DismissedIsGone'
  BY <1>15 DEF Reactivate, Goto
<1>16. ASSUME NEW r \in Requests, CommitReconnect(r) PROVE DismissedIsGone'
  BY <1>16 DEF CommitReconnect, End, Goto
<1>17. ASSUME NEW r \in Requests, StartDisconnect(r) PROVE DismissedIsGone'
  BY <1>17 DEF StartDisconnect, Goto
<1>18. ASSUME NEW r \in Requests, Revoke(r) PROVE DismissedIsGone'
  BY <1>18 DEF Revoke, Goto
<1>19. ASSUME NEW r \in Requests, DeleteAccounts(r) PROVE DismissedIsGone'
  BY <1>19 DEF DeleteAccounts, Goto
<1>20. ASSUME NEW r \in Requests, CommitDisconnect(r) PROVE DismissedIsGone'
  BY <1>20 DEF CommitDisconnect, End, Goto
<1>21. ASSUME NEW r \in Requests, Abort(r) PROVE DismissedIsGone'
  BY <1>21 DEF Abort, End, Goto
<1>22. ASSUME NEW p \in linked, Unlink(p) PROVE DismissedIsGone'
  BY <1>22 DEF Unlink
<1>23. CASE UNCHANGED vars
  BY <1>23 DEF vars
<1> HIDE DEF TypeOK, Phases, DismissedIsGone, Gone, Syncing, Stored, Running, Applying,
   Inserted, Creating, Managing
<1> QED BY <1>1, <1>2, <1>3, <1>4, <1>5, <1>6, <1>7, <1>8, <1>9, <1>10, <1>11, <1>12, <1>13,
   <1>14, <1>15, <1>16, <1>17, <1>18, <1>19, <1>20, <1>21, <1>22, <1>23 DEF Next, Sync,
   Manage

\* A sync imports no row that was dismissed when it began.
LEMMA StaysDismissedStep ==
  ASSUME TypeOK, Phases, DismissedIsGone, StaysDismissed, [Next]_vars
  PROVE  StaysDismissed'
<1> USE NoneAssumption, BankAssumption DEF TypeOK, Phases, DismissedIsGone, StaysDismissed,
   SameRow, Gone, Syncing, Stored, Running, Applying, Inserted, Creating, Managing, tables,
   locks, locals
<1>1. ASSUME NEW r \in Requests, NEW i \in Ids, StartSync(r, i) PROVE StaysDismissed'
  BY <1>1 DEF StartSync, Goto
<1>2. ASSUME NEW r \in Requests, Claim(r) PROVE StaysDismissed'
  BY <1>2 DEF Claim, Goto
<1>3. ASSUME NEW r \in Requests, AlreadyInProgress(r) PROVE StaysDismissed'
  BY <1>3 DEF AlreadyInProgress, End, Goto
<1>4. ASSUME NEW r \in Requests, Load(r) PROVE StaysDismissed'
  BY <1>4 DEF Load, Goto
<1>5. ASSUME NEW r \in Requests, ReadAccounts(r) PROVE StaysDismissed'
  BY <1>5 DEF ReadAccounts, Goto
<1>6. ASSUME NEW r \in Requests, ReadExisting(r) PROVE StaysDismissed'
  BY <1>6 DEF ReadExisting, Goto
<1>7. ASSUME NEW r \in Requests, InsertRows(r) PROVE StaysDismissed'
  BY <1>7 DEF InsertRows, Goto
<1>8. ASSUME NEW r \in Requests, UpdateAccount(r) PROVE StaysDismissed'
  BY <1>8 DEF UpdateAccount, Goto
<1>9. ASSUME NEW r \in Requests, UpdateConnection(r) PROVE StaysDismissed'
  BY <1>9 DEF UpdateConnection, Goto
<1>10. ASSUME NEW r \in Requests, CommitSync(r) PROVE StaysDismissed'
  BY <1>10 DEF CommitSync, End, Goto
<1>11. ASSUME NEW r \in Requests, Connect(r) PROVE StaysDismissed'
  BY <1>11 DEF Connect, Goto
<1>12. ASSUME NEW r \in Requests, StartReconnect(r) PROVE StaysDismissed'
  BY <1>12 DEF StartReconnect, Goto
<1>13. ASSUME NEW r \in Requests, ReadStored(r) PROVE StaysDismissed'
  BY <1>13 DEF ReadStored, Goto
<1>14. ASSUME NEW r \in Requests, WriteAccounts(r) PROVE StaysDismissed'
  BY <1>14 DEF WriteAccounts, Goto
<1>15. ASSUME NEW r \in Requests, Reactivate(r) PROVE StaysDismissed'
  BY <1>15 DEF Reactivate, Goto
<1>16. ASSUME NEW r \in Requests, CommitReconnect(r) PROVE StaysDismissed'
  BY <1>16 DEF CommitReconnect, End, Goto
<1>17. ASSUME NEW r \in Requests, StartDisconnect(r) PROVE StaysDismissed'
  BY <1>17 DEF StartDisconnect, Goto
<1>18. ASSUME NEW r \in Requests, Revoke(r) PROVE StaysDismissed'
  BY <1>18 DEF Revoke, Goto
<1>19. ASSUME NEW r \in Requests, DeleteAccounts(r) PROVE StaysDismissed'
  BY <1>19 DEF DeleteAccounts, Goto
<1>20. ASSUME NEW r \in Requests, CommitDisconnect(r) PROVE StaysDismissed'
  BY <1>20 DEF CommitDisconnect, End, Goto
<1>21. ASSUME NEW r \in Requests, Abort(r) PROVE StaysDismissed'
  BY <1>21 DEF Abort, End, Goto
<1>22. ASSUME NEW p \in linked, Unlink(p) PROVE StaysDismissed'
  BY <1>22 DEF Unlink
<1>23. CASE UNCHANGED vars
  BY <1>23 DEF vars
<1> HIDE DEF TypeOK, Phases, DismissedIsGone, StaysDismissed, SameRow, Gone, Syncing,
   Stored, Running, Applying, Inserted, Creating, Managing
<1> QED BY <1>1, <1>2, <1>3, <1>4, <1>5, <1>6, <1>7, <1>8, <1>9, <1>10, <1>11, <1>12, <1>13,
   <1>14, <1>15, <1>16, <1>17, <1>18, <1>19, <1>20, <1>21, <1>22, <1>23 DEF Next, Sync,
   Manage

\* Disconnecting and connecting again leave the accounts and the rows imported for them
\* consistent, whatever syncs are in flight.
LEMMA AccountsMatchStep ==
  ASSUME Reads, Locks, AccountsMatchConnection, [Next]_vars
  PROVE  AccountsMatchConnection'
<1> USE NoneAssumption, BankAssumption DEF AccountsMatchConnection, Locks, ConnectionLock,
   LockHolders, AccountsHeld, ReconnectCovers, KeyShares, Deleting, Reads, TypeOK, Phases,
   IdsAreSettled, NewAccounts, OneRowPerAccount, AccountsRead, Running, Applying, Inserted,
   Creating, Managing, Settled, Uncommitted, Fresh, Stored, Targets, tables, locks, locals
<1>1. ASSUME NEW r \in Requests, NEW i \in Ids, StartSync(r, i) PROVE AccountsMatchConnection'
  BY <1>1 DEF StartSync, Goto
<1>2. ASSUME NEW r \in Requests, Claim(r) PROVE AccountsMatchConnection'
  BY <1>2 DEF Claim, Goto
<1>3. ASSUME NEW r \in Requests, AlreadyInProgress(r) PROVE AccountsMatchConnection'
  BY <1>3 DEF AlreadyInProgress, End, Goto
<1>4. ASSUME NEW r \in Requests, Load(r) PROVE AccountsMatchConnection'
  BY <1>4 DEF Load, Goto
<1>5. ASSUME NEW r \in Requests, ReadAccounts(r) PROVE AccountsMatchConnection'
  BY <1>5 DEF ReadAccounts, Goto
<1>6. ASSUME NEW r \in Requests, ReadExisting(r) PROVE AccountsMatchConnection'
  BY <1>6 DEF ReadExisting, Goto
<1>7. ASSUME NEW r \in Requests, InsertRows(r) PROVE AccountsMatchConnection'
  BY <1>7 DEF InsertRows, Goto
<1>8. ASSUME NEW r \in Requests, UpdateAccount(r) PROVE AccountsMatchConnection'
  BY <1>8 DEF UpdateAccount, Goto
<1>9. ASSUME NEW r \in Requests, UpdateConnection(r) PROVE AccountsMatchConnection'
  BY <1>9 DEF UpdateConnection, Goto
<1>10. ASSUME NEW r \in Requests, CommitSync(r) PROVE AccountsMatchConnection'
  BY <1>10 DEF CommitSync, End, Goto
<1>11. ASSUME NEW r \in Requests, Connect(r) PROVE AccountsMatchConnection'
  <2>1. /\ issued \subseteq issued'
        /\ \A i \in Ids : account'[i] # account[i] => i \notin issued /\ i \in issued'
        /\ \A i, j \in Ids : account'[i] # account[i] /\ account'[j] # account[j]
                             /\ account'[i] = account'[j] => i = j
        /\ \A e \in External : \E i \in Ids : account'[i] = e
    BY <1>11, ConnectCreates
  <2>2. connection = "none" /\ connection' = "ACTIVE"
        /\ UNCHANGED <<linked, unlinked, syncLocks, locks, pc, locals>>
    BY <1>11 DEF Connect
  <2>3. \A p \in linked : p \in Feed \X Ids /\ Settled(p[2])
    BY LinkedIsImported
  <2>4. \A p \in linked : account'[p[2]] = OwnerOf[p[1]]
    BY <2>1, <2>3
  <2>5. linked' = linked
    BY <1>11 DEF Connect
  <2> QED BY <2>1, <2>2, <2>4, <2>5
<1>12. ASSUME NEW r \in Requests, StartReconnect(r) PROVE AccountsMatchConnection'
  BY <1>12 DEF StartReconnect, Goto
<1>13. ASSUME NEW r \in Requests, ReadStored(r) PROVE AccountsMatchConnection'
  BY <1>13 DEF ReadStored, Goto
<1>14. ASSUME NEW r \in Requests, WriteAccounts(r) PROVE AccountsMatchConnection'
  BY <1>14 DEF WriteAccounts, Goto
<1>15. ASSUME NEW r \in Requests, Reactivate(r) PROVE AccountsMatchConnection'
  BY <1>15 DEF Reactivate, Goto
<1>16. ASSUME NEW r \in Requests, CommitReconnect(r) PROVE AccountsMatchConnection'
  <2>1. /\ \A i \in Ids : account'[i] = account[i] \/ \E p \in rows[r] : p[2] = i /\ account'[i] = p[1]
        /\ \A p \in rows[r] : account'[p[2]] = p[1]
    BY <1>16, ReconnectCreates
  <2>2. /\ pc[r] = "reCommit" /\ pc' = [pc EXCEPT ![r] = "idle"]
        /\ acct' = [acct EXCEPT ![r] = None] /\ rows' = [rows EXCEPT ![r] = {}]
        /\ dismissed' = [dismissed EXCEPT ![r] = {}]
        /\ UNCHANGED <<issued, linked, unlinked>>
    BY <1>16 DEF CommitReconnect, End, Goto
  <2>3. /\ connLock' = IF connLock = r THEN None ELSE connLock
        /\ rowLock' = [i \in Ids |-> IF rowLock[i] = r THEN None ELSE rowLock[i]]
        /\ keyShare' = [i \in Ids |-> keyShare[i] \ {r}]
        /\ connection' = "ACTIVE"
    BY <1>16 DEF CommitReconnect, End
  <2>4. \A p \in linked : p \in Feed \X Ids /\ Settled(p[2])
    BY LinkedIsImported
  <2>5. \A i \in Ids : Settled(i) => account'[i] = account[i]
    BY <2>1, <2>2
  <2>6. \A p \in linked' : account'[p[2]] = OwnerOf[p[1]]
    BY <2>2, <2>4, <2>5
  <2>7. ASSUME NEW e \in External PROVE \E i \in Ids : account'[i] = e
    <3>1. CASE \E i \in Ids : account[i] = e /\ rowLock[i] = r
      <4>1. PICK i \in Ids : account[i] = e
        BY <3>1
      <4>2. i \in Stored
        BY <4>1
      <4>3. Settled(i)
        BY <4>2
      <4> QED BY <2>5, <4>1, <4>3
    <3>2. CASE \E p \in rows[r] : p[1] = e
      BY <2>1, <3>2
    <3> QED BY <2>2, <3>1, <3>2
  <2> QED BY <2>3, <2>6, <2>7
<1>17. ASSUME NEW r \in Requests, StartDisconnect(r) PROVE AccountsMatchConnection'
  BY <1>17 DEF StartDisconnect, Goto
<1>18. ASSUME NEW r \in Requests, Revoke(r) PROVE AccountsMatchConnection'
  BY <1>18 DEF Revoke, Goto
<1>19. ASSUME NEW r \in Requests, DeleteAccounts(r) PROVE AccountsMatchConnection'
  BY <1>19 DEF DeleteAccounts, Goto
<1>20. ASSUME NEW r \in Requests, CommitDisconnect(r) PROVE AccountsMatchConnection'
  BY <1>20 DEF CommitDisconnect, End, Goto
<1>21. ASSUME NEW r \in Requests, Abort(r) PROVE AccountsMatchConnection'
  BY <1>21 DEF Abort, End, Goto
<1>22. ASSUME NEW p \in linked, Unlink(p) PROVE AccountsMatchConnection'
  BY <1>22 DEF Unlink
<1>23. CASE UNCHANGED vars
  BY <1>23 DEF vars
<1> HIDE DEF AccountsMatchConnection, Locks, ConnectionLock, LockHolders, AccountsHeld,
   ReconnectCovers, KeyShares, Deleting, Reads, TypeOK, Phases, IdsAreSettled, NewAccounts,
   OneRowPerAccount, AccountsRead, Running, Applying, Inserted, Creating, Managing, Settled,
   Uncommitted, Fresh, Stored, Targets
<1> QED BY <1>1, <1>2, <1>3, <1>4, <1>5, <1>6, <1>7, <1>8, <1>9, <1>10, <1>11, <1>12, <1>13,
   <1>14, <1>15, <1>16, <1>17, <1>18, <1>19, <1>20, <1>21, <1>22, <1>23 DEF Next, Sync,
   Manage

\* A bank with one account has one row for it.
LEMMA OneAccountOneRow ==
  ASSUME NEW e, External = {e}, TypeOK, OneRowPerAccount
  PROVE  \A i, j \in Stored : i = j
BY DEF TypeOK, OneRowPerAccount, Stored

\* With one account, the row of a sync whose account is stored is imported by no other
\* sync meanwhile: those have the same account, and the Map keeps them apart.
LEMMA NotYetImportedStep ==
  ASSUME NEW e, External = {e}, IInv, NotYetImported, [Next]_vars
  PROVE  NotYetImported'
<1> USE NoneAssumption, BankAssumption DEF NotYetImported, Imported, Copies, Syncs,
   OneSyncPerAccount, DismissedIsGone, StaysDismissed, Syncing, SameRow, Gone, IInv,
   AccountsMatchConnection, Locks, ConnectionLock, LockHolders, AccountsHeld,
   ReconnectCovers, KeyShares, Deleting, Reads, TypeOK, Phases, IdsAreSettled, NewAccounts,
   OneRowPerAccount, AccountsRead, Running, Applying, Inserted, Creating, Managing, Settled,
   Uncommitted, Fresh, Stored, Targets, tables, locks, locals
<1>1. ASSUME NEW r \in Requests, NEW i \in Ids, StartSync(r, i) PROVE NotYetImported'
  BY <1>1 DEF StartSync, Goto
<1>2. ASSUME NEW r \in Requests, Claim(r) PROVE NotYetImported'
  BY <1>2 DEF Claim, Goto
<1>3. ASSUME NEW r \in Requests, AlreadyInProgress(r) PROVE NotYetImported'
  BY <1>3 DEF AlreadyInProgress, End, Goto
<1>4. ASSUME NEW r \in Requests, Load(r) PROVE NotYetImported'
  BY <1>4 DEF Load, Goto
<1>5. ASSUME NEW r \in Requests, ReadAccounts(r) PROVE NotYetImported'
  BY <1>5 DEF ReadAccounts, Goto
<1>6. ASSUME NEW r \in Requests, ReadExisting(r) PROVE NotYetImported'
  <2>1. /\ rows' = [rows EXCEPT ![r] = {p \in @ : p \notin linked /\ \A q \in Gone : ~SameRow(p, q)}]
        /\ pc' = [pc EXCEPT ![r] = "insert"]
        /\ UNCHANGED <<tables, acct>>
    BY <1>6 DEF ReadExisting, Goto
  <2>2. ASSUME acct[r] \in Stored, NEW p \in rows'[r], p[2] = acct[r], NEW q \in Imported
        PROVE  ~SameRow(p, q)
    <3>1. CASE q \in Gone
      BY <2>1, <2>2, <3>1
    <3>2. CASE q \notin Gone
      <4>1. q \in linked /\ p \notin linked /\ p \in Feed \X Ids
        BY <1>6, <2>1, <2>2, <3>2 DEF ReadExisting
      <4>2. q[2] \in Stored
        BY <4>1
      <4>3. q[2] = p[2]
        BY <2>2, <4>2, OneAccountOneRow
      <4>4. q # p => q[1] # p[1]
        BY <4>1, <4>3
      <4> QED BY <4>1, <4>4
    <3> QED BY <3>1, <3>2
  <2> QED BY <2>1, <2>2
<1>7. ASSUME NEW r \in Requests, InsertRows(r) PROVE NotYetImported'
  BY <1>7 DEF InsertRows, Goto
<1>8. ASSUME NEW r \in Requests, UpdateAccount(r) PROVE NotYetImported'
  BY <1>8 DEF UpdateAccount, Goto
<1>9. ASSUME NEW r \in Requests, UpdateConnection(r) PROVE NotYetImported'
  BY <1>9 DEF UpdateConnection, Goto
<1>10. ASSUME NEW r \in Requests, CommitSync(r) PROVE NotYetImported'
  BY <1>10 DEF CommitSync, End, Goto
<1>11. ASSUME NEW r \in Requests, Connect(r) PROVE NotYetImported'
  <2>1. /\ issued \subseteq issued'
        /\ \A i \in Ids : account'[i] # account[i] => i \notin issued /\ i \in issued'
        /\ \A i, j \in Ids : account'[i] # account[i] /\ account'[j] # account[j]
                             /\ account'[i] = account'[j] => i = j
        /\ \A x \in External : \E i \in Ids : account'[i] = x
    BY <1>11, ConnectCreates
  <2>2. connection = "none" /\ connection' = "ACTIVE"
        /\ UNCHANGED <<linked, unlinked, syncLocks, locks, pc, locals>>
    BY <1>11 DEF Connect
  <2>3. \A i \in issued : account'[i] = account[i]
    BY <2>1
  <2>4. \A o \in Requests : pc[o] \in Applying => acct[o] \in issued
    OBVIOUS
  <2> QED BY <2>2, <2>3, <2>4
<1>12. ASSUME NEW r \in Requests, StartReconnect(r) PROVE NotYetImported'
  BY <1>12 DEF StartReconnect, Goto
<1>13. ASSUME NEW r \in Requests, ReadStored(r) PROVE NotYetImported'
  BY <1>13 DEF ReadStored, Goto
<1>14. ASSUME NEW r \in Requests, WriteAccounts(r) PROVE NotYetImported'
  BY <1>14 DEF WriteAccounts, Goto
<1>15. ASSUME NEW r \in Requests, Reactivate(r) PROVE NotYetImported'
  BY <1>15 DEF Reactivate, Goto
<1>16. ASSUME NEW r \in Requests, CommitReconnect(r) PROVE NotYetImported'
  <2>1. /\ \A i \in Ids : account'[i] = account[i] \/ \E p \in rows[r] : p[2] = i /\ account'[i] = p[1]
        /\ \A p \in rows[r] : account'[p[2]] = p[1]
    BY <1>16, ReconnectCreates
  <2>2. /\ pc[r] = "reCommit" /\ pc' = [pc EXCEPT ![r] = "idle"]
        /\ acct' = [acct EXCEPT ![r] = None] /\ rows' = [rows EXCEPT ![r] = {}]
        /\ dismissed' = [dismissed EXCEPT ![r] = {}]
        /\ UNCHANGED <<issued, linked, unlinked>>
    BY <1>16 DEF CommitReconnect, End, Goto
  <2>3. \A o \in Requests : pc[o] \in Applying => account'[acct[o]] = account[acct[o]]
    BY <2>1, <2>2
  <2> QED BY <2>2, <2>3
<1>17. ASSUME NEW r \in Requests, StartDisconnect(r) PROVE NotYetImported'
  BY <1>17 DEF StartDisconnect, Goto
<1>18. ASSUME NEW r \in Requests, Revoke(r) PROVE NotYetImported'
  BY <1>18 DEF Revoke, Goto
<1>19. ASSUME NEW r \in Requests, DeleteAccounts(r) PROVE NotYetImported'
  BY <1>19 DEF DeleteAccounts, Goto
<1>20. ASSUME NEW r \in Requests, CommitDisconnect(r) PROVE NotYetImported'
  BY <1>20 DEF CommitDisconnect, End, Goto
<1>21. ASSUME NEW r \in Requests, Abort(r) PROVE NotYetImported'
  BY <1>21 DEF Abort, End, Goto
<1>22. ASSUME NEW p \in linked, Unlink(p) PROVE NotYetImported'
  BY <1>22 DEF Unlink
<1>23. CASE UNCHANGED vars
  BY <1>23 DEF vars
<1> HIDE DEF NotYetImported, Imported, Copies, Syncs, OneSyncPerAccount, DismissedIsGone,
   StaysDismissed, Syncing, SameRow, Gone, IInv, AccountsMatchConnection, Locks,
   ConnectionLock, LockHolders, AccountsHeld, ReconnectCovers, KeyShares, Deleting, Reads,
   TypeOK, Phases, IdsAreSettled, NewAccounts, OneRowPerAccount, AccountsRead, Running,
   Applying, Inserted, Creating, Managing, Settled, Uncommitted, Fresh, Stored, Targets
<1> QED BY <1>1, <1>2, <1>3, <1>4, <1>5, <1>6, <1>7, <1>8, <1>9, <1>10, <1>11, <1>12, <1>13,
   <1>14, <1>15, <1>16, <1>17, <1>18, <1>19, <1>20, <1>21, <1>22, <1>23 DEF Next, Sync,
   Manage

\* With one account, a commit imports nothing that was imported before.
LEMMA ImportedOnceStep ==
  ASSUME NEW e, External = {e}, IInv, NotYetImported, ImportedOnce, [Next]_vars
  PROVE  ImportedOnce'
<1> USE NoneAssumption, BankAssumption DEF ImportedOnce, NotYetImported, Imported, Copies,
   Syncs, OneSyncPerAccount, DismissedIsGone, StaysDismissed, Syncing, SameRow, Gone, IInv,
   AccountsMatchConnection, Locks, ConnectionLock, LockHolders, AccountsHeld,
   ReconnectCovers, KeyShares, Deleting, Reads, TypeOK, Phases, IdsAreSettled, NewAccounts,
   OneRowPerAccount, AccountsRead, Running, Applying, Inserted, Creating, Managing, Settled,
   Uncommitted, Fresh, Stored, Targets, tables, locks, locals
<1>1. ASSUME NEW r \in Requests, NEW i \in Ids, StartSync(r, i) PROVE ImportedOnce'
  BY <1>1 DEF StartSync, Goto
<1>2. ASSUME NEW r \in Requests, Claim(r) PROVE ImportedOnce'
  BY <1>2 DEF Claim, Goto
<1>3. ASSUME NEW r \in Requests, AlreadyInProgress(r) PROVE ImportedOnce'
  BY <1>3 DEF AlreadyInProgress, End, Goto
<1>4. ASSUME NEW r \in Requests, Load(r) PROVE ImportedOnce'
  BY <1>4 DEF Load, Goto
<1>5. ASSUME NEW r \in Requests, ReadAccounts(r) PROVE ImportedOnce'
  BY <1>5 DEF ReadAccounts, Goto
<1>6. ASSUME NEW r \in Requests, ReadExisting(r) PROVE ImportedOnce'
  BY <1>6 DEF ReadExisting, Goto
<1>7. ASSUME NEW r \in Requests, InsertRows(r) PROVE ImportedOnce'
  BY <1>7 DEF InsertRows, Goto
<1>8. ASSUME NEW r \in Requests, UpdateAccount(r) PROVE ImportedOnce'
  BY <1>8 DEF UpdateAccount, Goto
<1>9. ASSUME NEW r \in Requests, UpdateConnection(r) PROVE ImportedOnce'
  BY <1>9 DEF UpdateConnection, Goto
<1>10. ASSUME NEW r \in Requests, CommitSync(r) PROVE ImportedOnce'
  BY <1>10 DEF CommitSync, End, Goto
<1>11. ASSUME NEW r \in Requests, Connect(r) PROVE ImportedOnce'
  BY <1>11 DEF Connect, Goto
<1>12. ASSUME NEW r \in Requests, StartReconnect(r) PROVE ImportedOnce'
  BY <1>12 DEF StartReconnect, Goto
<1>13. ASSUME NEW r \in Requests, ReadStored(r) PROVE ImportedOnce'
  BY <1>13 DEF ReadStored, Goto
<1>14. ASSUME NEW r \in Requests, WriteAccounts(r) PROVE ImportedOnce'
  BY <1>14 DEF WriteAccounts, Goto
<1>15. ASSUME NEW r \in Requests, Reactivate(r) PROVE ImportedOnce'
  BY <1>15 DEF Reactivate, Goto
<1>16. ASSUME NEW r \in Requests, CommitReconnect(r) PROVE ImportedOnce'
  BY <1>16 DEF CommitReconnect, End, Goto
<1>17. ASSUME NEW r \in Requests, StartDisconnect(r) PROVE ImportedOnce'
  BY <1>17 DEF StartDisconnect, Goto
<1>18. ASSUME NEW r \in Requests, Revoke(r) PROVE ImportedOnce'
  BY <1>18 DEF Revoke, Goto
<1>19. ASSUME NEW r \in Requests, DeleteAccounts(r) PROVE ImportedOnce'
  BY <1>19 DEF DeleteAccounts, Goto
<1>20. ASSUME NEW r \in Requests, CommitDisconnect(r) PROVE ImportedOnce'
  BY <1>20 DEF CommitDisconnect, End, Goto
<1>21. ASSUME NEW r \in Requests, Abort(r) PROVE ImportedOnce'
  BY <1>21 DEF Abort, End, Goto
<1>22. ASSUME NEW p \in linked, Unlink(p) PROVE ImportedOnce'
  BY <1>22 DEF Unlink
<1>23. CASE UNCHANGED vars
  BY <1>23 DEF vars
<1> HIDE DEF ImportedOnce, NotYetImported, Imported, Copies, Syncs, OneSyncPerAccount,
   DismissedIsGone, StaysDismissed, Syncing, SameRow, Gone, IInv, AccountsMatchConnection,
   Locks, ConnectionLock, LockHolders, AccountsHeld, ReconnectCovers, KeyShares, Deleting,
   Reads, TypeOK, Phases, IdsAreSettled, NewAccounts, OneRowPerAccount, AccountsRead,
   Running, Applying, Inserted, Creating, Managing, Settled, Uncommitted, Fresh, Stored,
   Targets
<1> QED BY <1>1, <1>2, <1>3, <1>4, <1>5, <1>6, <1>7, <1>8, <1>9, <1>10, <1>11, <1>12, <1>13,
   <1>14, <1>15, <1>16, <1>17, <1>18, <1>19, <1>20, <1>21, <1>22, <1>23 DEF Next, Sync,
   Manage

-----------------------------------------------------------------------------

\* The invariant holds before there is a connection.
LEMMA InitIInv ==
  ASSUME Init
  PROVE  IInv
<1> USE NoneAssumption, BankAssumption DEF Init
<1>1. Stored = {} /\ Imported = {} /\ Syncing = {}
  BY DEF Stored, Imported, Copies, Syncing, Running
<1>2. TypeOK
  BY <1>1 DEF TypeOK
<1>3. Reads
  BY <1>1, <1>2 DEF Reads, Phases, IdsAreSettled, NewAccounts, OneRowPerAccount, AccountsRead,
     Running, Applying, Creating, Managing
<1>4. Locks
  BY <1>1 DEF Locks, ConnectionLock, LockHolders, AccountsHeld, ReconnectCovers, KeyShares,
     Inserted, Creating
<1>5. Syncs /\ AccountsMatchConnection
  BY <1>1 DEF Syncs, OneSyncPerAccount, DismissedIsGone, StaysDismissed, AccountsMatchConnection
<1> QED BY <1>3, <1>4, <1>5 DEF IInv

\* The invariant is inductive: each part from itself and those before it.
LEMMA StepIInv ==
  ASSUME IInv, [Next]_vars
  PROVE  IInv'
<1>1. Reads'
  BY TypeStep, PhasesStep, IdsAreSettledStep, NewAccountsStep, OneRowPerAccountStep,
     AccountsReadStep DEF IInv, Reads
<1>2. Locks'
  BY ConnectionLockStep, LockHoldersStep, AccountsHeldStep, ReconnectCoversStep, KeySharesStep
     DEF IInv, Locks, Reads
<1>3. Syncs'
  BY OneSyncStep, DismissedIsGoneStep, StaysDismissedStep DEF IInv, Reads, Syncs
<1>4. AccountsMatchConnection'
  BY AccountsMatchStep DEF IInv
<1> QED BY <1>1, <1>2, <1>3, <1>4 DEF IInv

\* The inductive invariant holds in every reachable state.
THEOREM Invariance == Spec => []IInv
<1>1. Init => IInv
  BY InitIInv
<1>2. IInv /\ [Next]_vars => IInv'
  BY StepIInv
<1> QED BY <1>1, <1>2, PTL DEF Spec

\* Every variable keeps its type.
THEOREM TypeCorrectness == Spec => []TypeOK
<1>1. IInv => TypeOK
  BY DEF IInv, Reads
<1> QED BY <1>1, Invariance, PTL

\* Accounts exist exactly while the connection is active, and an imported row names an
\* account of its own (disconnect, reconcileFinancialAccounts, doSync), for any number of
\* requests.
THEOREM NothingDangles == Spec => []AccountsMatchConnection
<1>1. IInv => AccountsMatchConnection
  BY DEF IInv
<1> QED BY <1>1, Invariance, PTL

\* The Map of running syncs holds an account exactly while one sync of it runs,
\* whichever way the sync ends (syncFinancialAccount).
THEOREM SyncsAreApart == Spec => []OneSyncPerAccount
<1>1. IInv => OneSyncPerAccount
  BY DEF IInv, Syncs
<1> QED BY <1>1, Invariance, PTL

\* A sync that starts after a row was unlinked does not import it again, but for a row
\* without id under another account (doSync, unlinkImportedTransaction).
THEOREM DismissedStaysAway == Spec => []StaysDismissed
<1>1. IInv => StaysDismissed
  BY DEF IInv, Syncs
<1> QED BY <1>1, Invariance, PTL

\* A bank with one account has every transaction imported once.  (With two the claim is
\* false: the run of MCBankSync shows it.)
THEOREM OneAccountImportsOnce ==
  ASSUME \E e \in External : External = {e}
  PROVE  Spec => []ImportedOnce
<1> DEFINE Inv == IInv /\ NotYetImported /\ ImportedOnce
<1>1. Init => Inv
  <2>1. Init => IInv
    BY InitIInv
  <2>2. Init => Imported = {}
    BY DEF Init, Imported, Copies
  <2> QED BY <2>1, <2>2 DEF NotYetImported, ImportedOnce
<1>2. Inv /\ [Next]_vars => Inv'
  BY StepIInv, NotYetImportedStep, ImportedOnceStep
<1> QED BY <1>1, <1>2, PTL DEF Spec
=============================================================================
