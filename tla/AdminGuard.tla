----------------------------- MODULE AdminGuard -----------------------------
(***************************************************************************)
(* PATCH /admin/users/:id/status and /role: administrators change the      *)
(* status and the role of accounts.  A change first waits for one advisory *)
(* lock that every such transaction takes, then reads the account again,   *)
(* counts the active administrators that would remain, writes and commits. *)
(* The actor's own authority is read once, by the middleware, long before. *)
(***************************************************************************)
EXTENDS Naturals, Sequences, FiniteSets, Concurrency

CONSTANTS Accounts,
          MaxChanges  \* bound on the changes of a behaviour

VARIABLES
  role, status,   \* columns of users
  mutex,          \* the request holding the advisory lock
  pc, actor, target, goal, fresh,   \* locals of a request
  audit           \* rows written by recordAuditEvent, oldest first

data   == <<role, status>>
locals == <<actor, target, goal, fresh>>
vars   == <<data, mutex, pc, locals, audit>>

Role   == {"USER", "ADMIN"}
Status == {"ACTIVE", "SUSPENDED", "DEACTIVATED"}
Values == Role \cup Status

\* allowedStatusTransitions; a role may change to either value.
Allowed(from) ==
  CASE from = "DEACTIVATED"           -> {"ACTIVE", "DEACTIVATED"}
    [] from \in {"ACTIVE", "SUSPENDED"} -> Status
    [] OTHER                          -> Role

ActiveAdmins == {u \in Accounts : role[u] = "ADMIN" /\ status[u] = "ACTIVE"}

\* The value a request replaces, in the row it read.
From(r) == IF goal[r] \in Role THEN fresh[r].role ELSE fresh[r].status

Init ==
  /\ role   \in [Accounts -> Role]
  /\ status \in [Accounts -> Status]
  /\ ActiveAdmins # {}
  /\ mutex  = None
  /\ pc     = [r \in Requests |-> "idle"]
  /\ actor  = [r \in Requests |-> None]
  /\ target = [r \in Requests |-> None]
  /\ goal   = [r \in Requests |-> None]
  /\ fresh  = [r \in Requests |-> None]
  /\ audit  = <<>>

Goto(r, label) == pc' = [pc EXCEPT ![r] = label]
\* Commit, rollback or refusal: the advisory lock ends with the transaction.
End(r) ==
  /\ Goto(r, "idle")
  /\ actor'  = [actor EXCEPT ![r] = None]
  /\ target' = [target EXCEPT ![r] = None]
  /\ goal'   = [goal EXCEPT ![r] = None]
  /\ fresh'  = [fresh EXCEPT ![r] = None]
  /\ mutex'  = IF mutex = r THEN None ELSE mutex

\* authenticate and requireAdmin accept the actor; the self-check and the role
\* comparison outside the transaction have passed.
Submit(r, a, u, v) ==
  /\ pc[r] = "idle"
  /\ a \in ActiveAdmins
  /\ IF v \in Status THEN u = a => v = "ACTIVE" ELSE role[u] # v
  /\ Len(audit) + Cardinality({q \in Requests : pc[q] # "idle"}) < MaxChanges
  /\ actor'  = [actor EXCEPT ![r] = a]
  /\ target' = [target EXCEPT ![r] = u]
  /\ goal'   = [goal EXCEPT ![r] = v]
  /\ Goto(r, "lock")
  /\ UNCHANGED <<data, mutex, fresh, audit>>

\* Faulty: the advisory lock is not waited for.
LockAtOnce(r) ==
  /\ pc[r] = "lock"
  /\ mutex' = r
  /\ Goto(r, "read")
  /\ UNCHANGED <<data, locals, audit>>

\* lockAdminUserMutations.
Lock(r) ==
  /\ pc[r] = "lock"
  /\ mutex = None
  /\ mutex' = r
  /\ Goto(r, "read")
  /\ UNCHANGED <<data, locals, audit>>

\* lockAdminUserRow and the read of the fresh row.
ReadFresh(r) ==
  /\ pc[r] = "read"
  /\ fresh' = [fresh EXCEPT ![r] = [role |-> role[target[r]], status |-> status[target[r]]]]
  /\ Goto(r, "check")
  /\ UNCHANGED <<data, mutex, actor, target, goal, audit>>

\* An unsupported transition is refused, an unchanged value needs no write.
MayChange(r) == goal[r] \in Allowed(From(r)) \ {From(r)}

\* A demotion, or an active administrator losing that status.
RemovesAdmin(r) ==
  fresh[r].role = "ADMIN" /\ (goal[r] \in Role \/ fresh[r].status = "ACTIVE")

Check(r) ==
  /\ pc[r] = "check"
  /\ MayChange(r)
  /\ Goto(r, IF RemovesAdmin(r) THEN "count" ELSE "write")
  /\ UNCHANGED <<data, mutex, locals, audit>>

\* Faulty: the count includes the account that is being changed.
RemainingInclusive(r) == ActiveAdmins

\* countRemainingActiveAdmins, a statement of its own.
RemainingAdmins(r) == ActiveAdmins \ {target[r]}
CountAdmins(r) ==
  /\ pc[r] = "count"
  /\ RemainingAdmins(r) # {}
  /\ Goto(r, "write")
  /\ UNCHANGED <<data, mutex, locals, audit>>

Refuse(r) ==
  /\ \/ pc[r] = "check" /\ ~MayChange(r)
     \/ pc[r] = "count" /\ RemainingAdmins(r) = {}
  /\ End(r)
  /\ UNCHANGED <<data, audit>>

\* The update, the audit row and the commit.  Revoking the sessions of the
\* account is modelled in RefreshSessions.
Write(r) ==
  /\ pc[r] = "write"
  /\ IF goal[r] \in Role
       THEN /\ role' = [role EXCEPT ![target[r]] = goal[r]]
            /\ UNCHANGED status
       ELSE /\ status' = [status EXCEPT ![target[r]] = goal[r]]
            /\ UNCHANGED role
  /\ audit' = Append(audit, [by |-> actor[r], user |-> target[r],
                             from |-> From(r), to |-> goal[r]])
  /\ End(r)

\* The transaction times out (15 s) or its connection fails.
Abandon(r) ==
  /\ pc[r] # "idle"
  /\ End(r)
  /\ UNCHANGED <<data, audit>>

Step(r) == Lock(r) \/ ReadFresh(r) \/ Check(r) \/ CountAdmins(r) \/ Refuse(r)
             \/ Write(r) \/ Abandon(r)

Next == \E r \in Requests :
  \/ \E a, u \in Accounts, v \in Values : Submit(r, a, u, v)
  \/ Step(r)

Spec == Init /\ [][Next]_vars
-----------------------------------------------------------------------------
TypeOK ==
  /\ role   \in [Accounts -> Role]
  /\ status \in [Accounts -> Status]
  /\ mutex  \in Requests \cup {None}
  /\ pc     \in [Requests -> {"idle", "lock", "read", "check", "count", "write"}]
  /\ actor  \in [Requests -> Accounts \cup {None}]
  /\ target \in [Requests -> Accounts \cup {None}]
  /\ goal   \in [Requests -> Values \cup {None}]
  /\ fresh  \in [Requests -> [role : Role, status : Status] \cup {None}]
  /\ audit  \in Seq([by : Accounts, user : Accounts, from : Values, to : Values])

\* However requests of several administrators interleave, and whoever gives up
\* half-way, an active administrator is left to undo the rest.
AdminRemains == ActiveAdmins # {}

\* A committed change of an account adds exactly one audit row, whose `from` is
\* the value the row had at that moment although it was read three statements
\* earlier; no deactivated account becomes suspended.
AuditExplains ==
  [][data' # data =>
       \E a, u \in Accounts, v \in Values :
         \/ /\ role' = [role EXCEPT ![u] = v]
            /\ status' = status
            /\ audit' = Append(audit, [by |-> a, user |-> u, from |-> role[u], to |-> v])
         \/ /\ status' = [status EXCEPT ![u] = v]
            /\ role' = role
            /\ ~ (status[u] = "DEACTIVATED" /\ v = "SUSPENDED")
            /\ audit' = Append(audit, [by |-> a, user |-> u, from |-> status[u], to |-> v])]_vars
=============================================================================
