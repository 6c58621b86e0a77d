------------------------------ MODULE BankSync ------------------------------
(***************************************************************************)
(* One user's connection to a bank: connecting, disconnecting and          *)
(* connecting again, and the syncs that import the provider's rows.  A     *)
(* sync is asked for one account but imports the rows of every account of  *)
(* the connection, and only a Map in the process keeps two syncs of one    *)
(* account apart.  Requests are split at their awaits; PostgreSQL          *)
(* statements wait for row locks and see what was committed before them.   *)
(*                                                                         *)
(* A row that has the provider's id is told by it.  One without is told    *)
(* by a hash of its contents and the id of its account, here the pair of   *)
(* transaction and account, which it keeps when it loses its account.      *)
(*                                                                         *)
(* Left out: the window of dates, normalisation and categories of a row,   *)
(* and the lastSync columns.                                               *)
(***************************************************************************)
EXTENDS BankData, Naturals

VARIABLES
  connection,  \* status of the connection, "none" before it exists
  account,     \* the external account of a financial_accounts row
  issued,      \* ids given to rows so far
  linked,      \* imported rows that have an account: <<transaction, id>>
  unlinked,    \* number of imported rows that lost theirs, by the pair they were
  syncLocks,   \* accounts being synced, the keys of the Map
  connLock,    \* the request holding the connection row
  rowLock,     \* the request holding a financial_accounts row for a write
  keyShare,    \* the requests holding it FOR KEY SHARE, for a foreign key
  pc, acct,    \* of a request: its next statement, the account it syncs
  rows,        \* rows it is to write: <<transaction or external account, id>>
  dismissed    \* rows without account when it began, by the same pair

tables == <<connection, account, issued, linked, unlinked>>
locks  == <<connLock, rowLock, keyShare>>
locals == <<acct, rows, dismissed>>
vars   == <<tables, syncLocks, locks, pc, locals>>

Stored   == {i \in Ids : account[i] # None}
Gone     == {p \in Feed \X Ids : unlinked[p] > 0}
\* p is taken for the row q, which has no account any more.
SameRow(p, q) == p[1] = q[1] /\ (p[1] \in Unnamed => p[2] = q[2])
\* What the unique indexes refuse: an id under its account, or a hash.
Taken    == linked \cup {p \in Gone : p[1] \in Unnamed}
Running  == {"load", "accounts", "existing", "insert", "account", "connection", "commit"}
Syncing  == {r \in Requests : pc[r] \in Running}
\* Rows that requests other than r have inserted and not committed.
Uncommitted(r) == UNION {rows[q] : q \in {q \in Requests \ {r} :
                     pc[q] \in {"account", "connection", "commit", "reConnection", "reCommit"}}}
\* A deleted row makes foreign keys wait until the deletion commits.
Deleting(i) == rowLock[i] # None /\ pc[rowLock[i]] = "dcCommit"
Targets(S) == {p[2] : p \in S}

Init ==
  /\ connection = "none"
  /\ account   = [i \in Ids |-> None]
  /\ issued    = {}
  /\ linked    = {}
  /\ unlinked  = [p \in Feed \X Ids |-> 0]
  /\ syncLocks = {}
  /\ connLock  = None
  /\ rowLock   = [i \in Ids |-> None]
  /\ keyShare  = [i \in Ids |-> {}]
  /\ pc        = [r \in Requests |-> "idle"]
  /\ acct      = [r \in Requests |-> None]
  /\ rows      = [r \in Requests |-> {}]
  /\ dismissed = [r \in Requests |-> {}]

Goto(r, label) == pc' = [pc EXCEPT ![r] = label]
\* Commit or rollback: locks are released, and the Map entry of a sync.
End(r) ==
  /\ Goto(r, "idle")
  /\ acct'      = [acct EXCEPT ![r] = None]
  /\ rows'      = [rows EXCEPT ![r] = {}]
  /\ dismissed' = [dismissed EXCEPT ![r] = {}]
  /\ connLock'  = IF connLock = r THEN None ELSE connLock
  /\ rowLock'   = [i \in Ids |-> IF rowLock[i] = r THEN None ELSE rowLock[i]]
  /\ keyShare'  = [i \in Ids |-> keyShare[i] \ {r}]
  /\ syncLocks' = IF r \in Syncing THEN syncLocks \ {acct[r]} ELSE syncLocks

(***************************************************************************)
(* POST /financial-accounts/:id/sync.                                      *)
(***************************************************************************)
\* The account is found before the Map is consulted.
StartSync(r, i) ==
  /\ pc[r] = "idle"
  /\ i \in Stored
  /\ acct' = [acct EXCEPT ![r] = i]
  /\ Goto(r, "claim")
  /\ UNCHANGED <<tables, syncLocks, locks, rows, dismissed>>

\* Faulty: the Map is not consulted.
ClaimAlways(r) ==
  /\ pc[r] = "claim"
  /\ syncLocks' = syncLocks \cup {acct[r]}
  /\ dismissed' = [dismissed EXCEPT ![r] = Gone]
  /\ Goto(r, "load")
  /\ UNCHANGED <<tables, locks, acct, rows>>

Claim(r) ==
  /\ pc[r] = "claim"
  /\ acct[r] \notin syncLocks
  /\ syncLocks' = syncLocks \cup {acct[r]}
  /\ dismissed' = [dismissed EXCEPT ![r] = Gone]
  /\ Goto(r, "load")
  /\ UNCHANGED <<tables, locks, acct, rows>>

\* SYNC_ALREADY_IN_PROGRESS.
AlreadyInProgress(r) ==
  /\ pc[r] = "claim"
  /\ acct[r] \in syncLocks
  /\ End(r)
  /\ UNCHANGED tables

\* doSync reads the account with its connection, once.
Load(r) ==
  /\ pc[r] = "load"
  /\ acct[r] \in Stored
  /\ connection = "ACTIVE"
  /\ Goto(r, "accounts")
  /\ UNCHANGED <<tables, syncLocks, locks, locals>>

\* The provider has answered; each row is given to the account that owns it.
ReadAccounts(r) ==
  /\ pc[r] = "accounts"
  /\ rows' = [rows EXCEPT ![r] = {row \in Feed \X Stored : account[row[2]] = OwnerOf[row[1]]}]
  /\ Goto(r, "existing")
  /\ UNCHANGED <<tables, syncLocks, locks, acct, dismissed>>

\* Faulty: rows that were unlinked are not looked for.
ReadExistingLinked(r) ==
  /\ pc[r] = "existing"
  /\ rows' = [rows EXCEPT ![r] = @ \ linked]
  /\ Goto(r, "insert")
  /\ UNCHANGED <<tables, syncLocks, locks, acct, dismissed>>

\* Imported before, under its account or, whatever that was, without one; a row that
\* has no id is looked for under its account only.
ReadExisting(r) ==
  /\ pc[r] = "existing"
  /\ rows' = [rows EXCEPT ![r] = {p \in @ : p \notin linked /\ \A q \in Gone : ~SameRow(p, q)}]
  /\ Goto(r, "insert")
  /\ UNCHANGED <<tables, syncLocks, locks, acct, dismissed>>

\* createMany with skipDuplicates: waits for an uncommitted duplicate and for a
\* deletion of the account, skips a committed duplicate, and fails on an
\* account that is gone.
InsertRows(r) ==
  /\ pc[r] = "insert"
  /\ rows[r] \cap Uncommitted(r) = {}
  /\ \A i \in Targets(rows[r]) : i \in Stored /\ ~Deleting(i)
  /\ rows' = [rows EXCEPT ![r] = @ \ Taken]
  /\ keyShare' = [i \in Ids |-> IF i \in Targets(rows[r] \ Taken)
                                  THEN keyShare[i] \cup {r} ELSE keyShare[i]]
  /\ Goto(r, "account")
  /\ UNCHANGED <<tables, syncLocks, connLock, rowLock, acct, dismissed>>

UpdateAccount(r) ==
  /\ pc[r] = "account"
  /\ acct[r] \in Stored
  /\ rowLock[acct[r]] = None
  /\ rowLock' = [rowLock EXCEPT ![acct[r]] = r]
  /\ Goto(r, "connection")
  /\ UNCHANGED <<tables, syncLocks, connLock, keyShare, locals>>

UpdateConnection(r) ==
  /\ pc[r] = "connection"
  /\ connLock = None
  /\ connLock' = r
  /\ Goto(r, "commit")
  /\ UNCHANGED <<tables, syncLocks, rowLock, keyShare, locals>>

CommitSync(r) ==
  /\ pc[r] = "commit"
  /\ linked' = linked \cup rows[r]
  /\ End(r)
  /\ UNCHANGED <<connection, account, issued, unlinked>>

(***************************************************************************)
(* POST and DELETE /financial-connections.                                 *)
(***************************************************************************)
\* New rows for the external accounts E, with ids nobody has had.
Fresh(E) == {S \in SUBSET (E \X (Ids \ issued)) :
               /\ \A e \in E : \E p \in S : p[1] = e
               /\ \A p, q \in S : (p[1] = q[1] \/ p[2] = q[2]) => p = q}
Created(S) == [i \in Ids |-> IF i \in Targets(S)
                              THEN (CHOOSE p \in S : p[2] = i)[1] ELSE account[i]]

\* The connection and its accounts are created in one transaction that nobody
\* else can see before it commits.
Connect(r) ==
  /\ pc[r] = "idle"
  /\ connection = "none"
  /\ \E S \in Fresh(External) :
       /\ account' = Created(S)
       /\ issued'  = issued \cup Targets(S)
  /\ connection' = "ACTIVE"
  /\ UNCHANGED <<linked, unlinked, syncLocks, locks, pc, locals>>

\* The connection was read DISCONNECTED.
StartReconnect(r) ==
  /\ pc[r] = "idle"
  /\ connection = "DISCONNECTED"
  /\ Goto(r, "reRead")
  /\ UNCHANGED <<tables, syncLocks, locks, locals>>

\* reconcileFinancialAccounts reads the stored accounts.
ReadStored(r) ==
  /\ pc[r] = "reRead"
  /\ rows' = [rows EXCEPT ![r] = {<<account[i], i>> : i \in Stored}]
  /\ Goto(r, "reWrite")
  /\ UNCHANGED <<tables, syncLocks, locks, acct, dismissed>>

\* It updates those it found and creates the others.  An account that somebody
\* else deleted or created meanwhile fails the transaction.
WriteAccounts(r) ==
  LET found == rows[r]
      new   == External \ {p[1] : p \in found}
  IN /\ pc[r] = "reWrite"
     /\ \A p \in found : p[2] \in Stored /\ rowLock[p[2]] = None
     /\ \A i \in Stored : account[i] \notin new
     /\ \A p \in Uncommitted(r) : p[1] \notin new
     /\ \E S \in Fresh(new) :
          /\ rows' = [rows EXCEPT ![r] = S]
          /\ issued' = issued \cup Targets(S)
     /\ rowLock' = [i \in Ids |-> IF i \in Targets(found) THEN r ELSE rowLock[i]]
     /\ Goto(r, "reConnection")
     /\ UNCHANGED <<connection, account, linked, unlinked, syncLocks, connLock, keyShare,
                    acct, dismissed>>

Reactivate(r) ==
  /\ pc[r] = "reConnection"
  /\ connLock = None
  /\ connLock' = r
  /\ Goto(r, "reCommit")
  /\ UNCHANGED <<tables, syncLocks, rowLock, keyShare, locals>>

CommitReconnect(r) ==
  /\ pc[r] = "reCommit"
  /\ connection' = "ACTIVE"
  /\ account' = Created(rows[r])
  /\ End(r)
  /\ UNCHANGED <<issued, linked, unlinked>>

\* The connection was read, in whatever status; the provider is told first.
StartDisconnect(r) ==
  /\ pc[r] = "idle"
  /\ connection # "none"
  /\ Goto(r, "dcConnection")
  /\ UNCHANGED <<tables, syncLocks, locks, locals>>

\* Faulty: the status is written after the accounts are deleted.
RevokeLater(r) ==
  /\ pc[r] = "dcConnection"
  /\ Goto(r, "dcDelete")
  /\ UNCHANGED <<tables, syncLocks, locks, locals>>

Revoke(r) ==
  /\ pc[r] = "dcConnection"
  /\ connLock = None
  /\ connLock' = r
  /\ Goto(r, "dcDelete")
  /\ UNCHANGED <<tables, syncLocks, rowLock, keyShare, locals>>

DeleteAccounts(r) ==
  /\ pc[r] = "dcDelete"
  /\ \A i \in Stored : rowLock[i] = None /\ keyShare[i] = {}
  /\ rowLock' = [i \in Ids |-> IF i \in Stored THEN r ELSE rowLock[i]]
  /\ Goto(r, "dcCommit")
  /\ UNCHANGED <<tables, syncLocks, connLock, keyShare, locals>>

\* onDelete: SetNull keeps the imported rows, without account.
CommitDisconnect(r) ==
  /\ pc[r] = "dcCommit"
  /\ connection' = "DISCONNECTED"
  /\ account' = [i \in Ids |-> IF rowLock[i] = r THEN None ELSE account[i]]
  /\ linked'  = {p \in linked : rowLock[p[2]] # r}
  /\ unlinked' = [p \in Feed \X Ids |->
                    IF p \in linked \ linked' THEN unlinked[p] + 1 ELSE unlinked[p]]
  /\ End(r)
  /\ UNCHANGED issued

\* unlinkImportedTransaction.
Unlink(p) ==
  /\ p \in linked
  /\ ~Deleting(p[2])
  /\ linked' = linked \ {p}
  /\ unlinked' = [unlinked EXCEPT ![p] = @ + 1]
  /\ UNCHANGED <<connection, account, issued, syncLocks, locks, pc, locals>>

\* Any statement may fail: the provider's answer, a row that is gone, a unique
\* or foreign key, a timeout, or a deadlock that PostgreSQL breaks.
Abort(r) ==
  /\ pc[r] \notin {"idle", "claim"}
  /\ End(r)
  /\ UNCHANGED tables

Sync(r) == \/ Claim(r) \/ AlreadyInProgress(r) \/ Load(r) \/ ReadAccounts(r) \/ ReadExisting(r)
           \/ InsertRows(r) \/ UpdateAccount(r) \/ UpdateConnection(r) \/ CommitSync(r)
Manage(r) == \/ ReadStored(r) \/ WriteAccounts(r) \/ Reactivate(r) \/ CommitReconnect(r)
             \/ Revoke(r) \/ DeleteAccounts(r) \/ CommitDisconnect(r)

Next ==
  \/ \E r \in Requests : \/ \E i \in Ids : StartSync(r, i)
                         \/ Connect(r) \/ StartReconnect(r) \/ StartDisconnect(r)
                         \/ Sync(r) \/ Manage(r) \/ Abort(r)
  \/ \E p \in linked : Unlink(p)

Spec == Init /\ [][Next]_vars
-----------------------------------------------------------------------------
TypeOK ==
  /\ connection \in {"none", "ACTIVE", "DISCONNECTED"}
  /\ account \in [Ids -> External \cup {None}]
  /\ issued \subseteq Ids /\ Stored \subseteq issued
  /\ linked \subseteq Feed \X Ids
  /\ unlinked \in [Feed \X Ids -> Nat]
  /\ syncLocks \subseteq Ids
  /\ connLock \in Requests \cup {None}
  /\ rowLock \in [Ids -> Requests \cup {None}]
  /\ keyShare \in [Ids -> SUBSET Requests]
  /\ pc \in [Requests -> Running \cup {"idle", "claim", "reRead", "reWrite", "reConnection",
                                       "reCommit", "dcConnection", "dcDelete", "dcCommit"}]
  /\ acct \in [Requests -> Ids \cup {None}]
  /\ rows \in [Requests -> SUBSET ((Feed \cup External) \X Ids)]
  /\ dismissed \in [Requests -> SUBSET (Feed \X Ids)]

\* An account row exists exactly while the connection is active, and an imported
\* row names an existing account of its own provider account: no interleaving of
\* disconnecting, connecting again and a late sync leaves a dangling one.
AccountsMatchConnection ==
  /\ connection # "ACTIVE" => Stored = {}
  /\ connection = "ACTIVE" => \A e \in External : \E i \in Ids : account[i] = e
  /\ \A p \in linked : account[p[2]] = OwnerOf[p[1]]

\* The Map holds an account exactly while one sync of it runs, whichever way the
\* sync ends.
OneSyncPerAccount ==
  /\ syncLocks = {acct[r] : r \in Syncing}
  /\ \A q, r \in Syncing : acct[q] = acct[r] => q = r

\* A sync that starts after the user unlinked a row, or disconnected the bank,
\* does not import that row again.  A row without id is safe only as long as its
\* account row lasts: after a reconnect its hash is another one.
StaysDismissed ==
  \A r \in Syncing : pc[r] \in {"insert", "account", "connection", "commit"} =>
     \A p \in rows[r], q \in dismissed[r] : ~SameRow(p, q)

\* "imports every provider row exactly once": one row for each transaction, and for
\* each account row that a transaction without id was ever imported under.
Copies(p) == unlinked[p] + (IF p \in linked THEN 1 ELSE 0)
Imported == {p \in Feed \X Ids : Copies(p) > 0}
ImportedOnce ==
  /\ \A p \in Imported : Copies(p) = 1
  /\ \A p, q \in Imported : p[1] = q[1] /\ p # q => p[1] \in Unnamed
=============================================================================
