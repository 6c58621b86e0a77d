--------------------------- MODULE WealthSnapshot ---------------------------
(***************************************************************************)
(* The assets and liabilities of a user, the summary of them, and the      *)
(* snapshots of a day.  A summary or capture sums both tables in two       *)
(* statements of one REPEATABLE READ transaction, which sees the database  *)
(* as it is at the first; a capture also inserts a row, of which a day has *)
(* one.                                                                    *)
(*                                                                         *)
(* Left out: names, types, notes and counts, and the single rows: a total  *)
(* changes by the creation, change or deletion of any of them.             *)
(***************************************************************************)
EXTENDS Concurrency, Integers

CONSTANTS Totals,  \* the pairs of totals that are exercised
          MaxDay   \* bound on the days that pass

Day == 0..MaxDay

VARIABLES
  today,
  total,      \* the totals of assets and of liabilities
  snapshot,   \* of each day: the sums its row has
  inserting,  \* of each day: the request whose insert is not committed
  pc, day,    \* of a request: its statement, the day it captures
  sums,       \* what its statements have summed
  held        \* the totals there have been while it was summing (history)

vars == <<today, total, snapshot, inserting, pc, day, sums, held>>

Init ==
  /\ today = 0
  /\ total \in Totals
  /\ snapshot = [d \in Day |-> None]
  /\ inserting = [d \in Day |-> None]
  /\ pc = [r \in Requests |-> "idle"]
  /\ day = [r \in Requests |-> 0]
  /\ sums = [r \in Requests |-> None]
  /\ held = [r \in Requests |-> {}]

Summing(r) == pc[r] \in {"summary", "capture"}

\* createAsset, updateAsset, deleteAsset, createLiability, updateLiability and
\* deleteLiability: one statement, and one of the totals changes.
Change(next) ==
  /\ next.assets = total.assets \/ next.liabilities = total.liabilities
  /\ total' = next
  /\ held' = [r \in Requests |-> IF Summing(r) THEN held[r] \cup {next} ELSE held[r]]
  /\ UNCHANGED <<today, snapshot, inserting, pc, day, sums>>

\* The first statement sums the assets, and decides which liabilities the second sees.
SumAssets(r, purpose) ==
  /\ pc[r] = "idle"
  /\ pc' = [pc EXCEPT ![r] = purpose]
  /\ day' = [day EXCEPT ![r] = IF purpose = "capture" THEN today ELSE 0]
  /\ sums' = [sums EXCEPT ![r] = total]
  /\ held' = [held EXCEPT ![r] = {total}]
  /\ UNCHANGED <<today, total, snapshot, inserting>>

\* Faulty: at READ COMMITTED the second statement sees the liabilities as they are now.
SumLiabilitiesCommitted(r) ==
  /\ Summing(r)
  /\ pc' = [pc EXCEPT ![r] = IF @ = "capture" THEN "insert" ELSE "answer"]
  /\ sums' = [sums EXCEPT ![r].liabilities = total.liabilities]
  /\ UNCHANGED <<today, total, snapshot, inserting, day, held>>

SumLiabilities(r) ==
  /\ Summing(r)
  /\ pc' = [pc EXCEPT ![r] = IF @ = "capture" THEN "insert" ELSE "answer"]
  /\ UNCHANGED <<today, total, snapshot, inserting, day, sums, held>>

\* The insert waits for one of the same day that is not committed.
MayInsert(r) == pc[r] = "insert" /\ inserting[day[r]] = None

\* Faulty: an upsert, which replaces the row of the day.
InsertOrUpdate(r) ==
  /\ MayInsert(r)
  /\ inserting' = [inserting EXCEPT ![day[r]] = r]
  /\ pc' = [pc EXCEPT ![r] = "commit"]
  /\ UNCHANGED <<today, total, snapshot, day, sums, held>>

\* It fails with P2002 when the day has a row, which is then the answer.
Insert(r) ==
  /\ MayInsert(r)
  /\ IF snapshot[day[r]] = None
     THEN /\ inserting' = [inserting EXCEPT ![day[r]] = r]
          /\ pc' = [pc EXCEPT ![r] = "commit"]
     ELSE /\ pc' = [pc EXCEPT ![r] = "existing"]
          /\ UNCHANGED inserting
  /\ UNCHANGED <<today, total, snapshot, day, sums, held>>

Commit(r) ==
  /\ pc[r] = "commit"
  /\ snapshot' = [snapshot EXCEPT ![day[r]] = sums[r]]
  /\ inserting' = [inserting EXCEPT ![day[r]] = None]
  /\ pc' = [pc EXCEPT ![r] = "answer"]
  /\ UNCHANGED <<today, total, day, sums, held>>

\* findUserSnapshotByDate, after the insert was refused.
FindExisting(r) ==
  /\ pc[r] = "existing"
  /\ pc' = [pc EXCEPT ![r] = "answer"]
  /\ sums' = [sums EXCEPT ![r] = snapshot[day[r]]]
  /\ held' = [held EXCEPT ![r] = {snapshot[day[r]]}]
  /\ UNCHANGED <<today, total, snapshot, inserting, day>>

\* The answer; or the process stops, and the transaction is rolled back.
End(r) ==
  /\ pc[r] # "idle"
  /\ pc' = [pc EXCEPT ![r] = "idle"]
  /\ day' = [day EXCEPT ![r] = 0]
  /\ sums' = [sums EXCEPT ![r] = None]
  /\ held' = [held EXCEPT ![r] = {}]
  /\ inserting' = [d \in Day |-> IF inserting[d] = r THEN None ELSE inserting[d]]
  /\ UNCHANGED <<today, total, snapshot>>

Midnight ==
  /\ today < MaxDay
  /\ today' = today + 1
  /\ UNCHANGED <<total, snapshot, inserting, pc, day, sums, held>>

Next ==
  \/ \E next \in Totals : Change(next)
  \/ \E r \in Requests :
       \/ \E purpose \in {"summary", "capture"} : SumAssets(r, purpose)
       \/ SumLiabilities(r) \/ Insert(r) \/ Commit(r) \/ FindExisting(r) \/ End(r)
  \/ Midnight

Spec == Init /\ [][Next]_vars
-----------------------------------------------------------------------------
TypeOK ==
  /\ today \in Day /\ total \in Totals
  /\ inserting \in [Day -> Requests \cup {None}]
  /\ pc \in [Requests -> {"idle", "summary", "capture", "insert", "commit", "existing", "answer"}]
  /\ day \in [Requests -> Day]
  /\ held \in [Requests -> SUBSET Totals]

\* The totals that a summary or a capture has summed are those of one moment while it
\* did so, however assets and liabilities change between the two sums, and the answer
\* of a capture is what its day has.
OneMoment ==
  \A r \in Requests : pc[r] \in {"insert", "commit", "answer"} => sums[r] \in held[r]

\* Nor is the snapshot of a day ever written again: a capture that comes second answers
\* the row that is stored, whatever the totals are by then.
SnapshotsAreMoments ==
  [][OneMoment' /\ \A d \in Day : snapshot[d] # None => snapshot'[d] = snapshot[d]]_vars
=============================================================================
