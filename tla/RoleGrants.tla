------------------------------ MODULE RoleGrants ------------------------------
(***************************************************************************)
(* Access control: POST /admin/users/{id}/roles and                        *)
(* DELETE /admin/users/{id}/roles/{role} (app/main.py) on the table        *)
(* user_roles (migration 0002), by callers whose own roles are read from   *)
(* the same table at the start of the request (app/auth.py, app/rbac.py).  *)
(*                                                                         *)
(* Each request is one database transaction; its statements interleave     *)
(* with those of others.  A statement sees what was committed when it      *)
(* began.  One that has to wait for a row looks at the row again when it   *)
(* has the lock, and keeps the lock even if the row no longer matches.     *)
(*                                                                         *)
(* Abstractions.  No endpoint changes the table users.  The times of a     *)
(* grant and of a revocation are left out but for their being there.       *)
(***************************************************************************)
EXTENDS Integers

CONSTANTS
    Requests,  \* requests; each performs one operation
    Nobody,    \* no request
    Users,     \* everybody a caller may be or name
    NoUser,    \* granted_by of a row that no endpoint wrote
    Accounts,  \* the users that have a row in users
    Enabled,   \* those of them that are active
    Roles,     \* the roles in use
    Founders   \* who has been given owner_admin outside the endpoints

ASSUME NobodyAssumption == Nobody \notin Requests
ASSUME UsersAssumption ==
    NoUser \notin Users /\ Enabled \subseteq Accounts /\ Accounts \subseteq Users
ASSUME RolesAssumption ==
    /\ Roles \subseteq {"owner_admin", "bookkeeper", "read_only_auditor"}
    /\ "owner_admin" \in Roles
ASSUME FoundersAssumption == Founders \subseteq Users

VARIABLES
    grants,    \* the committed rows of user_roles
    rowLock,   \* who holds a row, or has inserted it and not committed
    audit,     \* the committed audit rows about user_roles
    auditSeq,  \* the last value of the sequence behind audit_log.id
    pc,        \* where each request is
    task,      \* its operation
    before,    \* the state of the row that it will report as before_state
    write,     \* its uncommitted row of user_roles, or NoRow
    entry      \* its uncommitted audit row, as a set

vars == <<grants, rowLock, audit, auditSeq, pc, task, before, write, entry>>

Keys == Users \X Roles

NoRow == [state |-> "absent", by |-> NoUser]
Row == [state : {"held", "revoked"}, by : Users \union {NoUser}] \union {NoRow}

States == {"absent", "held", "revoked"}

Tasks == [kind : {"grant", "revoke"}, actor : Users, key : Keys]

AuditRow == [id : Nat, by : Users, key : Keys, before : States, after : States]

Active == {"read", "scan", "write", "log", "commit"}
Ended == {"rejected", "done", "lost"}

-----------------------------------------------------------------------------
Init ==
    /\ grants = [k \in Keys |-> IF k[1] \in Founders /\ k[2] = "owner_admin"
                                THEN [state |-> "held", by |-> NoUser] ELSE NoRow]
    /\ rowLock = [k \in Keys |-> Nobody]
    /\ audit = {}
    /\ auditSeq = 0
    /\ pc = [r \in Requests |-> "idle"]
    /\ task \in [Requests -> Tasks]
    /\ before = [r \in Requests |-> "absent"]
    /\ write = [r \in Requests |-> NoRow]
    /\ entry = [r \in Requests |-> {}]

\* Mutant: the endpoints ask for any role at all.
AnyRole(actor) ==
    /\ actor \in Enabled
    /\ \E role \in Roles : grants[<<actor, role>>].state = "held"

\* get_current_user and require_role("owner_admin"): an active account whose
\* roles that are not revoked include owner_admin.
Authorized(actor) ==
    /\ actor \in Enabled
    /\ grants[<<actor, "owner_admin">>].state = "held"

\* 403 for the caller, 404 for the user it names.
Begin(r) ==
    /\ pc[r] = "idle"
    /\ pc' = [pc EXCEPT ![r] =
          IF ~Authorized(task[r].actor) \/ task[r].key[1] \notin Accounts THEN "rejected"
          ELSE IF task[r].kind = "grant" THEN "read" ELSE "scan"]
    /\ UNCHANGED <<grants, rowLock, audit, auditSeq, task, before, write, entry>>

\* Mutant: the row is read when the grant has been written.
ReadOwnGrant(r) ==
    /\ pc[r] = "read"
    /\ before' = [before EXCEPT ![r] = "held"]
    /\ pc' = [pc EXCEPT ![r] = "write"]
    /\ UNCHANGED <<grants, rowLock, audit, auditSeq, task, write, entry>>

\* grant_role's SELECT of the row, without a lock.
ReadRow(r) ==
    /\ pc[r] = "read"
    /\ before' = [before EXCEPT ![r] = grants[task[r].key].state]
    /\ pc' = [pc EXCEPT ![r] = "write"]
    /\ UNCHANGED <<grants, rowLock, audit, auditSeq, task, write, entry>>

\* revoke_role's UPDATE looks for a row that is not revoked.  before_state
\* says that there was one, whatever it finds.
ScanRow(r) ==
    /\ pc[r] = "scan"
    /\ before' = [before EXCEPT ![r] = "held"]
    /\ pc' = [pc EXCEPT ![r] = IF grants[task[r].key].state = "held" THEN "write" ELSE "log"]
    /\ UNCHANGED <<grants, rowLock, audit, auditSeq, task, write, entry>>

RowFree(r) == rowLock[task[r].key] \in {Nobody, r}

\* Mutant: ON CONFLICT DO NOTHING.
NotRegranted(r) ==
    IF grants[task[r].key] = NoRow THEN [state |-> "held", by |-> task[r].actor] ELSE NoRow

\* INSERT ... ON CONFLICT DO UPDATE.
Granted(r) == [state |-> "held", by |-> task[r].actor]

\* The UPDATE again, on the row as it is under the lock.
Revoked(r) ==
    LET row == grants[task[r].key]
    IN  IF row.state = "held" THEN [row EXCEPT !.state = "revoked"] ELSE NoRow

\* Mutant: every statement commits (autocommit).
WriteAutocommit(r) ==
    /\ pc[r] = "write"
    /\ RowFree(r)
    /\ grants' = [grants EXCEPT ![task[r].key] =
                     IF task[r].kind = "grant" THEN Granted(r) ELSE Revoked(r)]
    /\ pc' = [pc EXCEPT ![r] = "log"]
    /\ UNCHANGED <<rowLock, audit, auditSeq, task, before, write, entry>>

WriteRow(r) ==
    /\ pc[r] = "write"
    /\ RowFree(r)
    /\ rowLock' = [rowLock EXCEPT ![task[r].key] = r]
    /\ write' = [write EXCEPT ![r] =
                    IF task[r].kind = "grant" THEN Granted(r) ELSE Revoked(r)]
    /\ pc' = [pc EXCEPT ![r] = "log"]
    /\ UNCHANGED <<grants, audit, auditSeq, task, before, entry>>

AuditRowOf(r, id) ==
    [id |-> id, by |-> task[r].actor, key |-> task[r].key, before |-> before[r],
     after |-> IF task[r].kind = "grant" THEN "held" ELSE "revoked"]

\* record_audit_event, whatever was written.
Log(r) ==
    /\ pc[r] = "log"
    /\ auditSeq' = auditSeq + 1
    /\ entry' = [entry EXCEPT ![r] = {AuditRowOf(r, auditSeq')}]
    /\ pc' = [pc EXCEPT ![r] = "commit"]
    /\ UNCHANGED <<grants, rowLock, audit, task, before, write>>

Without(r) == [k \in Keys |-> IF rowLock[k] = r THEN Nobody ELSE rowLock[k]]

Commit(r) ==
    /\ pc[r] = "commit"
    /\ grants' = IF write[r] = NoRow THEN grants
                 ELSE [grants EXCEPT ![task[r].key] = write[r]]
    /\ audit' = audit \union entry[r]
    /\ rowLock' = Without(r)
    /\ write' = [write EXCEPT ![r] = NoRow]
    /\ entry' = [entry EXCEPT ![r] = {}]
    /\ pc' = [pc EXCEPT ![r] = "done"]
    /\ UNCHANGED <<auditSeq, task, before>>

\* Mutant: the connection of a failed request stays open.
LockLeaked(r) ==
    /\ pc[r] \in Active
    /\ write' = [write EXCEPT ![r] = NoRow]
    /\ entry' = [entry EXCEPT ![r] = {}]
    /\ pc' = [pc EXCEPT ![r] = "lost"]
    /\ UNCHANGED <<grants, rowLock, audit, auditSeq, task, before>>

\* get_db's rollback, when anything is raised or the connection is lost.
Abort(r) ==
    /\ pc[r] \in Active
    /\ rowLock' = Without(r)
    /\ write' = [write EXCEPT ![r] = NoRow]
    /\ entry' = [entry EXCEPT ![r] = {}]
    /\ pc' = [pc EXCEPT ![r] = "lost"]
    /\ UNCHANGED <<grants, audit, auditSeq, task, before>>

Step(r) == ReadRow(r) \/ ScanRow(r) \/ WriteRow(r) \/ Log(r) \/ Commit(r)

Terminating ==
    /\ \A r \in Requests : pc[r] \in Ended
    /\ UNCHANGED vars

Next == \/ \E r \in Requests : Begin(r) \/ Step(r) \/ Abort(r)
        \/ Terminating

Spec == Init /\ [][Next]_vars

\* A handler that has begun goes on; only a row's lock can hold it.
FairSpec == Spec /\ \A r \in Requests : WF_vars(Step(r))

-----------------------------------------------------------------------------
(* Properties *)

TypeOK ==
    /\ grants \in [Keys -> Row]
    /\ rowLock \in [Keys -> Requests \union {Nobody}]
    /\ audit \subseteq AuditRow
    /\ auditSeq \in Nat
    /\ pc \in [Requests -> {"idle"} \union Active \union Ended]
    /\ task \in [Requests -> Tasks]
    /\ before \in [Requests -> States]
    /\ write \in [Requests -> Row]
    /\ entry \in [Requests -> SUBSET AuditRow]

\* How a role starts, and the states that an audit row leaves it in.
Initially(k) == IF k[1] \in Founders /\ k[2] = "owner_admin" THEN "held" ELSE "absent"
StatesIn(rows, k) == {Initially(k)} \union {b.after : b \in {c \in rows : c.key = k}}

\* With the types: what a grant is audited to have found is how the role
\* started or what an earlier audit row left.  The row is read without a lock,
\* so that others may commit before the grant does; still before_state is
\* never uncommitted, never rolled back, and never the grant's own doing.
BeforeStatesReal ==
    /\ TypeOK
    /\ \A a \in audit :
          a.after = "held" =>
              a.before \in StatesIn({b \in audit : b.id < a.id}, a.key)

\* Nobody has a role that does not come from an owner: whoever granted it
\* still has a row that says they have been one, revoked meanwhile or not
\* (0002: "Rows are never deleted so the grant/revoke history survives").
GrantorsWereOwners ==
    \A k \in Keys :
        grants[k].by # NoUser => grants[<<grants[k].by, "owner_admin">>] # NoRow

\* A role is never given or taken without an audit row of it in the same
\* commit, by the one who did it.
EveryChangeAudited ==
    [][\A k \in Keys :
          grants'[k] # grants[k] =>
              \E a \in audit' \ audit :
                  /\ a.key = k
                  /\ a.after = grants'[k].state
                  /\ a.after = "held" => a.by = grants'[k].by]_vars

TrailOf(k) == {a \in audit : a.key = k}
Newest(rows) == CHOOSE a \in rows : \A b \in rows : b.id <= a.id

\* Whoever the audit log shows last as having been given a role has it.
LastGrantHolds ==
    \A k \in Keys :
        (TrailOf(k) # {} /\ Newest(TrailOf(k)).after = "held") =>
            grants[k].state = "held"

\* Operations on one role queue behind its row, and each of them ends.
RequestsEnd == \A r \in Requests : pc[r] \in Active ~> pc[r] \in Ended

\* What 0002 says of the audit log: it "additionally records the
\* before/after state of every change here".  A role whose newest audit row
\* is a revocation is revoked.
LastRevocationHolds ==
    \A k \in Keys :
        (TrailOf(k) # {} /\ Newest(TrailOf(k)).after = "revoked") =>
            grants[k].state # "held"
=============================================================================
