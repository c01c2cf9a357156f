------------------------------- MODULE Staff -------------------------------
(***************************************************************************)
(* The employee table: who has which role, who reports to whom, e-mail     *)
(* addresses and designations, changed by several requests at a time.      *)
(*                                                                         *)
(* A handler reads what it checks in statements of their own, through the  *)
(* connection pool, and writes in another: what it read may have changed.  *)
(* Only what PostgreSQL enforces (UNIQUE, REFERENCES) holds at the write.  *)
(* The columns that UpdateEmployeeInfo writes are represented by email.    *)
(* The leave balances that go with a new employee, role or joining date    *)
(* are in LeaveBalance, the equipment that goes with a deactivation in     *)
(* Equipment.                                                              *)
(*                                                                         *)
(* Whoever calls acts with the role that was in the employee row when the  *)
(* token was issued, up to 24 hours ago: the middleware does not read the  *)
(* row again, so that any employee may act with any role.                  *)
(***************************************************************************)

CONSTANTS
  Employees,     \* ids of employees
  Founder,       \* the employee that cmd/seed inserts
  Emails,
  FounderEmail,
  Designations,  \* ids of designations
  Roles,         \* types of Tbl_Role
  None,          \* NULL, or no row
  Workers        \* requests under way at the same time

ASSUME StaffAssumption ==
  /\ Founder \in Employees /\ FounderEmail \in Emails
  /\ {"SUPERADMIN", "MANAGER"} \subseteq Roles
  /\ None \notin Employees \cup Emails \cup Designations \cup Roles

VARIABLES
  email,         \* [Employees -> Emails], None: there is no such employee
  role,
  manager,       \* manager_id
  active,        \* status is 'active'
  designation,   \* designation_id
  designations,  \* Tbl_Designation
  job,           \* what each worker is doing
  raced          \* auxiliary: employees demoted while being made a manager

vars == <<email, role, manager, active, designation, designations, job, raced>>

Idle == [op |-> "IDLE", at |-> "START", target |-> None, role |-> None,
         email |-> None, manager |-> None, designation |-> None, active |-> FALSE]

Exists(e) == email[e] # None
Subordinates(e) == {s \in Employees : manager[s] = e}
EmailTaken(m) == \E e \in Employees : email[e] = m

Init ==
  /\ email = [e \in Employees |-> IF e = Founder THEN FounderEmail ELSE None]
  /\ role = [e \in Employees |-> IF e = Founder THEN "SUPERADMIN" ELSE None]
  /\ manager = [e \in Employees |-> None]
  /\ active = [e \in Employees |-> TRUE]
  /\ designation = [e \in Employees |-> None]
  /\ designations = {}
  /\ job = [w \in Workers |-> Idle]
  /\ raced = {}

-----------------------------------------------------------------------------
IsAdministrator(r) == r \in {"SUPERADMIN", "ADMIN", "HR"}
Outranked(r, targetRole) == r \in {"ADMIN", "HR"} /\ targetRole = "SUPERADMIN"

Begin(w, j) ==
  /\ job[w] = Idle
  /\ job' = [job EXCEPT ![w] = j]

At(w, op, at) == job[w].op = op /\ job[w].at = at

\* The handler replies with an error, or the database refuses the statement.
Quit(w) == job' = [job EXCEPT ![w] = Idle]

-----------------------------------------------------------------------------
\* CreateEmployee: the address is looked up before the transaction.
StartCreate(w, actorRole) ==
  \E m \in Emails, r \in Roles :
    /\ IsAdministrator(actorRole)
    /\ ~Outranked(actorRole, r)
    /\ ~EmailTaken(m)
    /\ Begin(w, [Idle EXCEPT !.op = "CREATE", !.at = "COMMIT", !.email = m, !.role = r])
    /\ UNCHANGED <<raced, email, role, manager, active, designation, designations>>

InsertWithoutRole(w) ==
  \E e \in Employees :
    /\ At(w, "CREATE", "COMMIT") /\ ~Exists(e)
    /\ ~EmailTaken(job[w].email)
    /\ email' = [email EXCEPT ![e] = job[w].email]
    /\ Quit(w)
    /\ UNCHANGED <<raced, role, manager, active, designation, designations>>

InsertWithoutUnique(w) ==
  \E e \in Employees :
    /\ At(w, "CREATE", "COMMIT") /\ ~Exists(e)
    /\ email' = [email EXCEPT ![e] = job[w].email]
    /\ role' = [role EXCEPT ![e] = job[w].role]
    /\ Quit(w)
    /\ UNCHANGED <<raced, manager, active, designation, designations>>

\* email is UNIQUE, status is active and manager_id NULL by default.
CommitCreate(w) ==
  \E e \in Employees :
    /\ At(w, "CREATE", "COMMIT") /\ ~Exists(e)
    /\ ~EmailTaken(job[w].email)
    /\ email' = [email EXCEPT ![e] = job[w].email]
    /\ role' = [role EXCEPT ![e] = job[w].role]
    /\ Quit(w)
    /\ UNCHANGED <<raced, manager, active, designation, designations>>

-----------------------------------------------------------------------------
(***************************************************************************)
(* UpdateEmployeeInfo writes back every column it read: an address that    *)
(* the request does not name is replaced by the one read at the start.     *)
(* Only a change of the address is looked up, in a second statement.       *)
(***************************************************************************)
StartInfo(w, actorRole, target) ==
  \E requested \in Emails \cup {None} :
    /\ Exists(target)
    /\ ~Outranked(actorRole, role[target])
    /\ requested # None => IsAdministrator(actorRole)
    /\ Begin(w, [Idle EXCEPT
                   !.op = "INFO", !.target = target,
                   !.at = IF requested \in {None, email[target]} THEN "COMMIT" ELSE "CHECK",
                   !.email = IF requested = None THEN email[target] ELSE requested])
    /\ UNCHANGED <<raced, email, role, manager, active, designation, designations>>

CheckEmail(w) ==
  /\ At(w, "INFO", "CHECK")
  /\ ~EmailTaken(job[w].email)
  /\ job' = [job EXCEPT ![w].at = "COMMIT"]
  /\ UNCHANGED <<raced, email, role, manager, active, designation, designations>>

CommitInfo(w) ==
  /\ At(w, "INFO", "COMMIT")
  /\ \A e \in Employees \ {job[w].target} : email[e] # job[w].email
  /\ email' = [email EXCEPT ![job[w].target] = job[w].email]
  /\ Quit(w)
  /\ UNCHANGED <<raced, role, manager, active, designation, designations>>

-----------------------------------------------------------------------------
(***************************************************************************)
(* A change of a role counts the subordinates first, an assignment reads   *)
(* the manager's role first, and neither looks again when it writes.  m is *)
(* in raced from the moment that both have looked and neither has written  *)
(* or given up: m is losing the role MANAGER for which somebody is being   *)
(* made to report to m.                                                    *)
(***************************************************************************)
Demotes(j, m) == j.op = "ROLE" /\ j.target = m /\ j.role # "MANAGER"
Assigns(j, m) == /\ j.op = "MANAGER" /\ j.at \in {"STATUS", "COMMIT"}
                 /\ j.manager = m /\ j.role = "MANAGER"
Demoted(m) == \E v \in Workers : Demotes(job[v], m)
Assigned(m) == \E v \in Workers : Assigns(job[v], m)
RaceOf(m, overlap) == raced' = IF overlap THEN raced \cup {m} ELSE raced

\* UpdateEmployeeRole: the role and the number of subordinates are one read.
StartRoleDespiteSubordinates(w, actor, actorRole, target) ==
  \E r \in Roles :
    /\ Exists(target)
    /\ IsAdministrator(actorRole)
    /\ actorRole \in {"ADMIN", "HR"} => actor # target
    /\ ~Outranked(actorRole, role[target]) /\ ~Outranked(actorRole, r)
    /\ r # role[target]
    /\ Begin(w, [Idle EXCEPT !.op = "ROLE", !.at = "COMMIT", !.target = target, !.role = r])
    /\ RaceOf(target, r # "MANAGER" /\ Assigned(target))
    /\ UNCHANGED <<email, role, manager, active, designation, designations>>

StartRole(w, actor, actorRole, target) ==
  \E r \in Roles :
    /\ Exists(target)
    /\ IsAdministrator(actorRole)
    /\ actorRole \in {"ADMIN", "HR"} => actor # target
    /\ ~Outranked(actorRole, role[target]) /\ ~Outranked(actorRole, r)
    /\ r # role[target]
    /\ r # "MANAGER" => Subordinates(target) = {}
    /\ Begin(w, [Idle EXCEPT !.op = "ROLE", !.at = "COMMIT", !.target = target, !.role = r])
    /\ RaceOf(target, r # "MANAGER" /\ Assigned(target))
    /\ UNCHANGED <<email, role, manager, active, designation, designations>>

CommitRole(w) ==
  /\ At(w, "ROLE", "COMMIT")
  /\ role' = [role EXCEPT ![job[w].target] = job[w].role]
  /\ Quit(w)
  /\ UNCHANGED <<raced, email, manager, active, designation, designations>>

-----------------------------------------------------------------------------
\* UpdateEmployeeManager: the employee, then the manager's role, then the
\* manager's status are read, each by itself.
StartManager(w, actor, actorRole, target) ==
  \E m \in Employees :
    /\ Exists(target)
    /\ IsAdministrator(actorRole)
    /\ ~Outranked(actorRole, role[target])
    /\ m # target
    /\ actorRole # "SUPERADMIN" => actor # m
    /\ Begin(w, [Idle EXCEPT !.op = "MANAGER", !.at = "CHECK", !.target = target, !.manager = m])
    /\ UNCHANGED <<raced, email, role, manager, active, designation, designations>>

ReadManagerRole(w) ==
  /\ At(w, "MANAGER", "CHECK")
  /\ Exists(job[w].manager)
  /\ job' = [job EXCEPT ![w].at = "STATUS", ![w].role = role[job[w].manager]]
  /\ RaceOf(job[w].manager, role[job[w].manager] = "MANAGER" /\ Demoted(job[w].manager))
  /\ UNCHANGED <<email, role, manager, active, designation, designations>>

CheckManager(w) ==
  /\ At(w, "MANAGER", "STATUS")
  /\ active[job[w].manager]
  /\ job[w].role = "MANAGER"
  /\ job' = [job EXCEPT ![w].at = "COMMIT"]
  /\ UNCHANGED <<raced, email, role, manager, active, designation, designations>>

CommitManager(w) ==
  /\ At(w, "MANAGER", "COMMIT")
  /\ manager' = [manager EXCEPT ![job[w].target] = job[w].manager]
  /\ Quit(w)
  /\ UNCHANGED <<raced, email, role, active, designation, designations>>

-----------------------------------------------------------------------------
\* DeleteEmployeeStatus toggles the status.  An HR may do so to a SUPERADMIN.
StartStatus(w, actorRole, target) ==
  /\ Exists(target)
  /\ IsAdministrator(actorRole)
  /\ ~(actorRole = "ADMIN" /\ role[target] = "SUPERADMIN")
  /\ Begin(w, [Idle EXCEPT !.op = "STATUS", !.at = "CHECK", !.target = target])
  /\ UNCHANGED <<raced, email, role, manager, active, designation, designations>>

ReadStatus(w) ==
  /\ At(w, "STATUS", "CHECK")
  /\ job' = [job EXCEPT ![w].at = "COMMIT", ![w].active = active[job[w].target]]
  /\ UNCHANGED <<raced, email, role, manager, active, designation, designations>>

CommitStatus(w) ==
  /\ At(w, "STATUS", "COMMIT")
  /\ active' = [active EXCEPT ![job[w].target] = ~job[w].active]
  /\ Quit(w)
  /\ UNCHANGED <<raced, email, role, manager, designation, designations>>

-----------------------------------------------------------------------------
StartDesignation(w, actorRole, target) ==
  \E d \in Designations \cup {None} :
    /\ Exists(target)
    /\ IsAdministrator(actorRole)
    /\ ~Outranked(actorRole, role[target])
    /\ Begin(w, [Idle EXCEPT !.op = "DESIGNATION", !.target = target, !.designation = d,
                             !.at = IF d = None THEN "COMMIT" ELSE "CHECK"])
    /\ UNCHANGED <<raced, email, role, manager, active, designation, designations>>

CheckDesignation(w) ==
  /\ At(w, "DESIGNATION", "CHECK")
  /\ job[w].designation \in designations
  /\ job' = [job EXCEPT ![w].at = "COMMIT"]
  /\ UNCHANGED <<raced, email, role, manager, active, designation, designations>>

\* designation_id REFERENCES Tbl_Designation.
CommitDesignation(w) ==
  /\ At(w, "DESIGNATION", "COMMIT")
  /\ job[w].designation \in designations \cup {None}
  /\ designation' = [designation EXCEPT ![job[w].target] = job[w].designation]
  /\ Quit(w)
  /\ UNCHANGED <<raced, email, role, manager, active, designations>>

CreateDesignation(d) ==
  /\ d \notin designations
  /\ designations' = designations \cup {d}
  /\ UNCHANGED <<raced, email, role, manager, active, designation, job>>

DeleteDesignationOnly(d) ==
  /\ d \in designations
  /\ designations' = designations \ {d}
  /\ UNCHANGED <<raced, email, role, manager, active, designation, job>>

\* ON DELETE SET NULL.
DeleteDesignation(d) ==
  /\ d \in designations
  /\ designations' = designations \ {d}
  /\ designation' = [e \in Employees |-> IF designation[e] = d THEN None ELSE designation[e]]
  /\ UNCHANGED <<raced, email, role, manager, active, job>>

-----------------------------------------------------------------------------
\* A check fails, a statement is refused, or the connection is lost.
Fail(w) ==
  /\ job[w] # Idle
  /\ Quit(w)
  /\ UNCHANGED <<raced, email, role, manager, active, designation, designations>>

Request(w, actor, actorRole) ==
  \/ StartCreate(w, actorRole)
  \/ \E target \in Employees :
       \/ StartInfo(w, actorRole, target)
       \/ StartRole(w, actor, actorRole, target)
       \/ StartManager(w, actor, actorRole, target)
       \/ StartStatus(w, actorRole, target)
       \/ StartDesignation(w, actorRole, target)

Continue(w) ==
  \/ CommitCreate(w)
  \/ CheckEmail(w) \/ CommitInfo(w)
  \/ CommitRole(w)
  \/ ReadManagerRole(w) \/ CheckManager(w) \/ CommitManager(w)
  \/ ReadStatus(w) \/ CommitStatus(w)
  \/ CheckDesignation(w) \/ CommitDesignation(w)
  \/ Fail(w)

Next ==
  \/ \E w \in Workers :
       \/ \E actor \in Employees, actorRole \in Roles :
            Exists(actor) /\ Request(w, actor, actorRole)
       \/ Continue(w)
  \/ \E d \in Designations : CreateDesignation(d) \/ DeleteDesignation(d)

Spec == Init /\ [][Next]_vars

-----------------------------------------------------------------------------
Jobs == [op : {"IDLE", "CREATE", "INFO", "ROLE", "MANAGER", "STATUS", "DESIGNATION"},
         at : {"START", "CHECK", "STATUS", "COMMIT"},
         target : Employees \cup {None},
         role : Roles \cup {None},
         email : Emails \cup {None},
         manager : Employees \cup {None},
         designation : Designations \cup {None},
         active : BOOLEAN]

\* Every column keeps its type, and every employee has a role: role_id is
\* NOT NULL.
TypeOK ==
  /\ email \in [Employees -> Emails \cup {None}]
  /\ role \in [Employees -> Roles \cup {None}]
  /\ manager \in [Employees -> Employees \cup {None}]
  /\ active \in [Employees -> BOOLEAN]
  /\ designation \in [Employees -> Designations \cup {None}]
  /\ designations \subseteq Designations
  /\ job \in [Workers -> Jobs]
  /\ raced \subseteq Employees
  /\ \A e \in Employees : Exists(e) <=> role[e] # None

\* Whoever an employee reports to has the role MANAGER: the check of the
\* subordinates in UpdateEmployeeRole and the check of the role in
\* UpdateEmployeeManager protect it together, in any interleaving with other
\* requests.  It may be lost of an employee only by a demotion and an
\* assignment of that very employee that were both past their checks at the
\* same time.  A leave's MANAGER stage is decided by the employee's manager,
\* who has to have that role.
ManagersAreManagers ==
  \A e \in Employees :
    manager[e] # None /\ manager[e] \notin raced => role[manager[e]] = "MANAGER"

EmailsAreUnique ==
  \A d, e \in Employees : d # e /\ Exists(d) => email[d] # email[e]

DesignationsExist ==
  \A e \in Employees : designation[e] # None => designation[e] \in designations

\* No two employees log in with the same address, although CreateEmployee and
\* UpdateEmployeeInfo look it up long before they write it; and an employee's
\* designation is one that exists, although it may be deleted between the
\* lookup in UpdateEmployeeDesignation and the update.
LookupsAreBackedByKeys == EmailsAreUnique /\ DesignationsExist
=============================================================================
