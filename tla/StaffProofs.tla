---------------------------- MODULE StaffProofs ----------------------------
(***************************************************************************)
(* Proofs about Staff, for any employees, addresses, designations, roles   *)
(* and number of requests under way at the same time.                      *)
(*                                                                         *)
(* A request holds facts it has checked, which other requests may undo:    *)
(* JobSafe says which of them last.  UNIQUE and REFERENCES are checked     *)
(* again by the write and need no such fact.  What UpdateEmployeeRole and  *)
(* UpdateEmployeeManager check lasts for every employee but the ones in    *)
(* raced, for whom each was past its check before the other had written.   *)
(***************************************************************************)
EXTENDS Staff, TLAPS

rows == <<email, role, manager, active, designation, designations>>

\* What a request has read or been given is of the right type, and an employee
\* it found is still there: employees are never deleted.
JobTyped(j) ==
  /\ j.op = "CREATE" => j.email \in Emails /\ j.role \in Roles
  /\ j.op = "INFO" => j.target \in Employees /\ Exists(j.target) /\ j.email \in Emails
  /\ j.op = "ROLE" => j.target \in Employees /\ Exists(j.target) /\ j.role \in Roles
  /\ j.op = "MANAGER" => j.target \in Employees /\ j.manager \in Employees
  /\ j.op = "STATUS" => j.target \in Employees
  /\ j.op = "DESIGNATION" => j.target \in Employees

Typed == TypeOK /\ \A w \in Workers : JobTyped(job[w])

-----------------------------------------------------------------------------
\* Starting a request changes no row.
LEMMA BeginTyped ==
  ASSUME Typed, NEW w \in Workers, NEW j \in Jobs, JobTyped(j),
         job' = [job EXCEPT ![w] = j], UNCHANGED rows,
         raced' \subseteq Employees
  PROVE  Typed'
BY DEF Typed, TypeOK, JobTyped, Exists, rows

LEMMA IdleTyped == Idle \in Jobs /\ JobTyped(Idle)
BY DEF Idle, Jobs, JobTyped

LEMMA InitTyped == Init => Typed
<1> SUFFICES ASSUME Init PROVE Typed
  OBVIOUS
<1> USE StaffAssumption DEF Init
<1>1. \A w \in Workers : job[w] = Idle
  OBVIOUS
<1>2. job \in [Workers -> Jobs] /\ \A w \in Workers : JobTyped(job[w])
  BY <1>1, IdleTyped
<1>3. \A e \in Employees : Exists(e) <=> role[e] # None
  BY DEF Exists
<1>4. TypeOK
  BY <1>2, <1>3 DEF TypeOK
<1> QED BY <1>2, <1>4 DEF Typed

LEMMA RequestTyped ==
  ASSUME Typed, NEW w \in Workers, NEW actor \in Employees, NEW actorRole \in Roles,
         Request(w, actor, actorRole), raced' \subseteq Employees
  PROVE  Typed'
<1> USE StaffAssumption
<1>1. CASE StartCreate(w, actorRole)
  <2>1. PICK m \in Emails, r \in Roles :
               job' = [job EXCEPT ![w] = [Idle EXCEPT !.op = "CREATE", !.at = "COMMIT",
                                                      !.email = m, !.role = r]]
    BY <1>1 DEF StartCreate, Begin
  <2> DEFINE j == [Idle EXCEPT !.op = "CREATE", !.at = "COMMIT", !.email = m, !.role = r]
  <2>2. j \in Jobs /\ JobTyped(j)
    BY DEF Jobs, Idle, JobTyped
  <2>3. UNCHANGED rows
    BY <1>1 DEF StartCreate, rows
  <2> QED BY <2>1, <2>2, <2>3, BeginTyped
<1>2. ASSUME NEW target \in Employees, StartInfo(w, actorRole, target) PROVE Typed'
  <2>1. PICK requested \in Emails \cup {None} :
               job' = [job EXCEPT ![w] = [Idle EXCEPT
                   !.op = "INFO", !.target = target,
                   !.at = IF requested \in {None, email[target]} THEN "COMMIT" ELSE "CHECK",
                   !.email = IF requested = None THEN email[target] ELSE requested]]
    BY <1>2 DEF StartInfo, Begin
  <2>2. Exists(target) /\ email[target] \in Emails
    BY <1>2 DEF StartInfo, Exists, Typed, TypeOK
  <2> DEFINE at == IF requested \in {None, email[target]} THEN "COMMIT" ELSE "CHECK"
             address == IF requested = None THEN email[target] ELSE requested
             j == [Idle EXCEPT !.op = "INFO", !.target = target, !.at = at, !.email = address]
  <2>3. at \in {"COMMIT", "CHECK"} /\ address \in Emails
    BY <2>2
  <2> HIDE DEF at, address
  <2>4. j \in Jobs /\ JobTyped(j)
    BY <2>2, <2>3 DEF Jobs, Idle, JobTyped
  <2>5. job' = [job EXCEPT ![w] = j] /\ UNCHANGED rows
    BY <1>2, <2>1 DEF StartInfo, rows, at, address
  <2> QED BY <2>4, <2>5, BeginTyped
<1>3. ASSUME NEW target \in Employees, StartRole(w, actor, actorRole, target) PROVE Typed'
  <2>1. PICK r \in Roles :
               job' = [job EXCEPT ![w] = [Idle EXCEPT !.op = "ROLE", !.at = "COMMIT",
                                                      !.target = target, !.role = r]]
    BY <1>3 DEF StartRole, Begin
  <2> QED BY <2>1, <1>3, BeginTyped DEF StartRole, Jobs, Idle, JobTyped, rows
<1>4. ASSUME NEW target \in Employees, StartManager(w, actor, actorRole, target) PROVE Typed'
  <2>1. PICK m \in Employees :
               job' = [job EXCEPT ![w] = [Idle EXCEPT !.op = "MANAGER", !.at = "CHECK",
                                                      !.target = target, !.manager = m]]
    BY <1>4 DEF StartManager, Begin
  <2> QED BY <2>1, <1>4, BeginTyped DEF StartManager, Jobs, Idle, JobTyped, rows
<1>5. ASSUME NEW target \in Employees, StartStatus(w, actorRole, target) PROVE Typed'
  <2>1. job' = [job EXCEPT ![w] = [Idle EXCEPT !.op = "STATUS", !.at = "CHECK",
                                               !.target = target]]
    BY <1>5 DEF StartStatus, Begin
  <2> QED BY <2>1, <1>5, BeginTyped DEF StartStatus, Jobs, Idle, JobTyped, rows
<1>6. ASSUME NEW target \in Employees, StartDesignation(w, actorRole, target) PROVE Typed'
  <2>1. PICK d \in Designations \cup {None} :
               job' = [job EXCEPT ![w] =
                         [Idle EXCEPT !.op = "DESIGNATION", !.target = target,
                                      !.designation = d,
                                      !.at = IF d = None THEN "COMMIT" ELSE "CHECK"]]
    BY <1>6 DEF StartDesignation, Begin
  <2> QED BY <2>1, <1>6, BeginTyped DEF StartDesignation, Jobs, Idle, JobTyped, rows
<1> QED BY <1>1, <1>2, <1>3, <1>4, <1>5, <1>6 DEF Request

\* The later steps of a request, and its end.
LEMMA ContinueTyped ==
  ASSUME Typed, NEW w \in Workers, Continue(w), raced' \subseteq Employees
  PROVE  Typed'
<1> USE StaffAssumption
<1> DEFINE KeepsPresence == \A e \in Employees : Exists(e) => Exists(e)'
           Rest == /\ role' \in [Employees -> Roles \cup {None}]
                   /\ email' \in [Employees -> Emails \cup {None}]
                   /\ \A e \in Employees : Exists(e)' <=> role'[e] # None
<1>1. ASSUME Quit(w), KeepsPresence, Rest,
             manager' \in [Employees -> Employees \cup {None}],
             active' \in [Employees -> BOOLEAN],
             designation' \in [Employees -> Designations \cup {None}],
             UNCHANGED designations
      PROVE  Typed'
  BY <1>1, IdleTyped DEF Typed, TypeOK, Quit, JobTyped, Exists
<1>2. ASSUME UNCHANGED <<email, role>> PROVE KeepsPresence /\ Rest
  BY <1>2 DEF Exists, Typed, TypeOK
<1>3. CASE CommitCreate(w)
  <2>1. PICK e \in Employees :
               /\ At(w, "CREATE", "COMMIT") /\ ~Exists(e)
               /\ email' = [email EXCEPT ![e] = job[w].email]
               /\ role' = [role EXCEPT ![e] = job[w].role]
    BY <1>3 DEF CommitCreate
  <2>2. job[w].email \in Emails /\ job[w].role \in Roles
    BY <2>1 DEF Typed, JobTyped, At
  <2>3. KeepsPresence /\ Rest
    BY <2>1, <2>2 DEF Exists, Typed, TypeOK
  <2> QED BY <1>1, <1>3, <2>3 DEF CommitCreate, Typed, TypeOK
<1>4. CASE CommitInfo(w)
  <2>1. job[w].target \in Employees /\ Exists(job[w].target) /\ job[w].email \in Emails
    BY <1>4 DEF CommitInfo, Typed, JobTyped, At
  <2>2. KeepsPresence /\ Rest
    BY <1>4, <2>1 DEF CommitInfo, Exists, Typed, TypeOK
  <2> QED BY <1>1, <1>4, <2>2 DEF CommitInfo, Typed, TypeOK
<1>5. CASE CommitRole(w)
  <2>1. job[w].target \in Employees /\ Exists(job[w].target) /\ job[w].role \in Roles
    BY <1>5 DEF CommitRole, Typed, JobTyped, At
  <2>2. KeepsPresence /\ Rest
    BY <1>5, <2>1 DEF CommitRole, Exists, Typed, TypeOK
  <2> QED BY <1>1, <1>5, <2>2 DEF CommitRole, Typed, TypeOK
<1>6. CASE CommitManager(w)
  <2>1. job[w].target \in Employees /\ job[w].manager \in Employees
    BY <1>6 DEF CommitManager, Typed, JobTyped, At
  <2> QED BY <1>1, <1>2, <1>6, <2>1 DEF CommitManager, Typed, TypeOK
<1>7. CASE CommitStatus(w)
  BY <1>1, <1>2, <1>7 DEF CommitStatus, Typed, TypeOK, Jobs
<1>8. CASE CommitDesignation(w)
  BY <1>1, <1>2, <1>8 DEF CommitDesignation, Typed, TypeOK, Jobs
<1>9. CASE Fail(w)
  BY <1>1, <1>2, <1>9 DEF Fail, Typed, TypeOK
<1>10. ASSUME NEW j \in Jobs, JobTyped(j), job' = [job EXCEPT ![w] = j], UNCHANGED rows
       PROVE  Typed'
  BY <1>10, BeginTyped
<1>11. CASE CheckEmail(w) \/ CheckManager(w) \/ CheckDesignation(w)
  <2>1. job' = [job EXCEPT ![w] = [job[w] EXCEPT !.at = "COMMIT"]] /\ UNCHANGED rows
    BY <1>11 DEF CheckEmail, CheckManager, CheckDesignation, rows
  <2>2. [job[w] EXCEPT !.at = "COMMIT"] \in Jobs /\ JobTyped([job[w] EXCEPT !.at = "COMMIT"])
    BY DEF Typed, TypeOK, Jobs, JobTyped
  <2> QED BY <1>10, <2>1, <2>2
<1>12. CASE ReadManagerRole(w)
  <2> DEFINE j == [job[w] EXCEPT !.at = "STATUS", !.role = role[job[w].manager]]
  <2>1. job' = [job EXCEPT ![w] = j] /\ UNCHANGED rows /\ job[w].op = "MANAGER"
    BY <1>12 DEF ReadManagerRole, At, rows
  <2>2. role[job[w].manager] \in Roles \cup {None}
    BY <2>1 DEF Typed, TypeOK, JobTyped
  <2>3. JobTyped(j)
    BY <2>1, <2>2 DEF Typed, TypeOK, Jobs, JobTyped
  <2>4. job[w] \in Jobs
    BY DEF Typed, TypeOK
  <2> HIDE DEF j
  <2>5. j \in Jobs
    BY <2>2, <2>4 DEF Jobs, j
  <2> QED BY <1>10, <2>1, <2>3, <2>5
<1>13. CASE ReadStatus(w)
  <2> DEFINE j == [job[w] EXCEPT !.at = "COMMIT", !.active = active[job[w].target]]
  <2>1. job' = [job EXCEPT ![w] = j] /\ UNCHANGED rows /\ job[w].op = "STATUS"
    BY <1>13 DEF ReadStatus, At, rows
  <2>2. active[job[w].target] \in BOOLEAN
    BY <2>1 DEF Typed, TypeOK, JobTyped
  <2>3. JobTyped(j)
    BY <2>1 DEF Typed, TypeOK, Jobs, JobTyped
  <2>4. job[w] \in Jobs
    BY DEF Typed, TypeOK
  <2> HIDE DEF j
  <2>5. j \in Jobs
    BY <2>2, <2>4 DEF Jobs, j
  <2> QED BY <1>10, <2>1, <2>3, <2>5
<1> QED
  BY <1>3, <1>4, <1>5, <1>6, <1>7, <1>8, <1>9, <1>11, <1>12, <1>13 DEF Continue

-----------------------------------------------------------------------------
LEMMA CreationsTyped ==
  ASSUME Typed, NEW d \in Designations, CreateDesignation(d) \/ DeleteDesignation(d),
         raced' \subseteq Employees
  PROVE  Typed'
BY DEF Typed, TypeOK, JobTyped, Exists, CreateDesignation, DeleteDesignation

\* Which step writes what: a request begins by reading only.
LEMMA RequestReads ==
  ASSUME NEW w \in Workers, NEW actor \in Employees, NEW actorRole \in Roles,
         Request(w, actor, actorRole)
  PROVE  UNCHANGED rows
BY DEF Request, rows, StartCreate, StartInfo, StartRole, StartManager, StartStatus,
       StartDesignation

LEMMA WhoWrites ==
  ASSUME [Next]_vars
  PROVE  \/ UNCHANGED rows
         \/ \E w \in Workers :
              \/ CommitCreate(w) \/ CommitInfo(w) \/ CommitRole(w) \/ CommitManager(w)
              \/ CommitStatus(w) \/ CommitDesignation(w)
         \/ \E d \in Designations : CreateDesignation(d) \/ DeleteDesignation(d)
<1>1. CASE UNCHANGED vars
  BY <1>1 DEF vars, rows
<1>2. ASSUME NEW w \in Workers, Continue(w)
      PROVE  \/ UNCHANGED rows
             \/ CommitCreate(w) \/ CommitInfo(w) \/ CommitRole(w) \/ CommitManager(w)
             \/ CommitStatus(w) \/ CommitDesignation(w)
  BY <1>2 DEF Continue, CheckEmail, ReadManagerRole, CheckManager, ReadStatus,
              CheckDesignation, Fail, rows
<1> QED BY <1>1, <1>2, RequestReads DEF Next

\* Only employees that exist are raced for, and none is ever taken off.
LEMMA RacedGrows ==
  ASSUME Typed, [Next]_vars
  PROVE  raced \subseteq raced' /\ raced' \subseteq Employees
<1>1. raced \subseteq Employees
  BY DEF Typed, TypeOK
<1>2. CASE UNCHANGED raced
  BY <1>1, <1>2
<1>3. ASSUME NEW w \in Workers, ReadManagerRole(w)
      PROVE  raced \subseteq raced' /\ raced' \subseteq Employees
  <2>1. job[w].manager \in Employees
    BY <1>3 DEF ReadManagerRole, At, Typed, JobTyped
  <2> QED BY <1>1, <1>3, <2>1 DEF ReadManagerRole, RaceOf
<1>4. ASSUME NEW w \in Workers, NEW actor \in Employees, NEW actorRole \in Roles,
             NEW target \in Employees, StartRole(w, actor, actorRole, target)
      PROVE  raced \subseteq raced' /\ raced' \subseteq Employees
  BY <1>1, <1>4 DEF StartRole, RaceOf
<1>5. ASSUME NEW w \in Workers, Continue(w)
      PROVE  UNCHANGED raced \/ ReadManagerRole(w)
  BY <1>5 DEF Continue, CommitCreate, CheckEmail, CommitInfo, CommitRole, CheckManager,
              CommitManager, ReadStatus, CommitStatus, CheckDesignation, CommitDesignation,
              Fail
<1>6. ASSUME NEW w \in Workers, NEW actor \in Employees, NEW actorRole \in Roles,
             Request(w, actor, actorRole)
      PROVE  \/ UNCHANGED raced
             \/ \E target \in Employees : StartRole(w, actor, actorRole, target)
  BY <1>6 DEF Request, StartCreate, StartInfo, StartManager, StartStatus, StartDesignation
<1>7. ASSUME NEW d \in Designations, CreateDesignation(d) \/ DeleteDesignation(d)
      PROVE  UNCHANGED raced
  BY <1>7 DEF CreateDesignation, DeleteDesignation
<1>8. CASE UNCHANGED vars
  BY <1>2, <1>8 DEF vars
<1> QED BY <1>2, <1>3, <1>4, <1>5, <1>6, <1>7, <1>8 DEF Next

LEMMA StepTyped == Typed /\ [Next]_vars => Typed'
<1> SUFFICES ASSUME Typed, [Next]_vars PROVE Typed'
  OBVIOUS
<1>1. CASE UNCHANGED vars
  BY <1>1 DEF vars, Typed, TypeOK, JobTyped, Exists
<1>2. CASE Next
  BY <1>2, RacedGrows, RequestTyped, ContinueTyped, CreationsTyped DEF Next
<1> QED BY <1>1, <1>2

\* Every column keeps its type and every employee has a role, however many
\* requests interleave.
THEOREM StaffTypeCorrectness == Spec => []TypeOK
<1>1. Typed => TypeOK
  BY DEF Typed
<1> QED BY <1>1, InitTyped, StepTyped, PTL DEF Spec

-----------------------------------------------------------------------------
\* The address is compared with every other one by the write: what CheckEmail
\* and StartCreate found does not matter.
LEMMA StepUnique == Typed /\ EmailsAreUnique /\ [Next]_vars => EmailsAreUnique'
<1> SUFFICES ASSUME Typed, EmailsAreUnique, [Next]_vars PROVE EmailsAreUnique'
  OBVIOUS
<1>1. CASE UNCHANGED email
  BY <1>1 DEF EmailsAreUnique, Exists
<1>2. ASSUME NEW w \in Workers, CommitCreate(w) PROVE EmailsAreUnique'
  <2>1. job[w].email # None
    BY <1>2, StaffAssumption DEF CommitCreate, At, Typed, JobTyped
  <2> QED BY <1>2, <2>1 DEF CommitCreate, EmailTaken, EmailsAreUnique, Exists, Typed, TypeOK
<1>3. ASSUME NEW w \in Workers, CommitInfo(w) PROVE EmailsAreUnique'
  <2>1. job[w].email # None
    BY <1>3, StaffAssumption DEF CommitInfo, At, Typed, JobTyped
  <2> QED BY <1>3, <2>1 DEF CommitInfo, EmailsAreUnique, Exists, Typed, TypeOK
<1>4. \/ UNCHANGED email
      \/ \E w \in Workers : CommitCreate(w) \/ CommitInfo(w)
  BY WhoWrites DEF rows, CommitRole, CommitManager, CommitStatus, CommitDesignation,
                   CreateDesignation, DeleteDesignation
<1> QED BY <1>1, <1>2, <1>3, <1>4

\* The lookup may be outdated when the designation is written, but the foreign
\* key is checked then, and a deletion clears it.
LEMMA StepDesignations == Typed /\ DesignationsExist /\ [Next]_vars => DesignationsExist'
<1> SUFFICES ASSUME Typed, DesignationsExist, [Next]_vars PROVE DesignationsExist'
  OBVIOUS
<1>1. CASE UNCHANGED <<designation, designations>>
  BY <1>1 DEF DesignationsExist
<1>2. ASSUME NEW w \in Workers, CommitDesignation(w) PROVE DesignationsExist'
  BY <1>2 DEF CommitDesignation, DesignationsExist, Typed, TypeOK
<1>3. ASSUME NEW d \in Designations, CreateDesignation(d) \/ DeleteDesignation(d)
      PROVE  DesignationsExist'
  BY <1>3 DEF CreateDesignation, DeleteDesignation, DesignationsExist, Typed, TypeOK
<1>4. \/ UNCHANGED <<designation, designations>>
      \/ \E w \in Workers : CommitDesignation(w)
      \/ \E d \in Designations : CreateDesignation(d) \/ DeleteDesignation(d)
  BY WhoWrites DEF rows, CommitCreate, CommitInfo, CommitRole, CommitManager, CommitStatus
<1> QED BY <1>1, <1>2, <1>3, <1>4

\* Two employees never share an address, and no employee has a designation that
\* does not exist, however many requests interleave.
THEOREM LookupsStayTrue == Spec => []LookupsAreBackedByKeys
<1>1. Init => EmailsAreUnique /\ DesignationsExist
  BY StaffAssumption DEF Init, EmailsAreUnique, DesignationsExist, Exists
<1>2. EmailsAreUnique /\ DesignationsExist => LookupsAreBackedByKeys
  BY DEF LookupsAreBackedByKeys
<1> QED
  BY <1>1, <1>2, InitTyped, StepTyped, StepUnique, StepDesignations, PTL DEF Spec

-----------------------------------------------------------------------------
(***************************************************************************)
(* Managers.  A change of a role relies on there being no subordinates     *)
(* when it is written, an assignment on the manager's role.  Each can be   *)
(* undone by the other only while both are past their checks, and then the *)
(* employee whom both are about is in raced.                               *)
(***************************************************************************)
JobSafe(j) ==
  /\ \A m \in Employees : Demotes(j, m) => Subordinates(m) = {} \/ m \in raced
  /\ \A m \in Employees : Assigns(j, m) => role[m] = "MANAGER" \/ m \in raced
  /\ j.op = "MANAGER" /\ j.at = "COMMIT" => j.role = "MANAGER"

OverlapsAreRaced ==
  \A v, w \in Workers, m \in Employees :
    Demotes(job[v], m) /\ Assigns(job[w], m) => m \in raced

ManagersInv ==
  /\ Typed
  /\ ManagersAreManagers
  /\ OverlapsAreRaced
  /\ \A w \in Workers : JobSafe(job[w])

LEMMA InitManagers == Init => ManagersInv
<1> SUFFICES ASSUME Init PROVE ManagersInv
  OBVIOUS
<1>1. \A w \in Workers : job[w] = Idle
  BY DEF Init
<1>2. ManagersAreManagers
  BY DEF Init, ManagersAreManagers
<1>3. OverlapsAreRaced
  BY <1>1 DEF OverlapsAreRaced, Demotes, Idle
<1>4. \A w \in Workers : JobSafe(job[w])
  BY <1>1 DEF JobSafe, Demotes, Assigns, Idle
<1> QED BY <1>2, <1>3, <1>4, InitTyped DEF ManagersInv

\* A worker that begins, goes on or ends without writing a row.
LEMMA ReadKeepsManagers ==
  ASSUME ManagersInv, Typed', UNCHANGED rows, raced \subseteq raced',
         NEW w \in Workers, NEW j, JobSafe(j)', job' = [job EXCEPT ![w] = j],
         \A v \in Workers \ {w}, m \in Employees :
           \/ Demotes(j, m) /\ Assigns(job[v], m)
           \/ Demotes(job[v], m) /\ Assigns(j, m)
           => m \in raced'
  PROVE  ManagersInv'
<1> job \in [Workers -> Jobs]
  BY DEF ManagersInv, Typed, TypeOK
<1>1. ManagersAreManagers'
  BY DEF ManagersInv, ManagersAreManagers, rows
<1>2. \A v \in Workers : job'[v] = IF v = w THEN j ELSE job[v]
  OBVIOUS
<1>3. OverlapsAreRaced'
  <2>1. ASSUME NEW u \in Workers, NEW v \in Workers, NEW m \in Employees,
               Demotes(job'[u], m), Assigns(job'[v], m)
        PROVE  m \in raced'
    <3>1. u # v
      BY <2>1 DEF Demotes, Assigns
    <3>2. CASE u # w /\ v # w
      BY <2>1, <3>2, <1>2 DEF ManagersInv, OverlapsAreRaced
    <3>3. CASE u = w
      BY <2>1, <3>1, <3>3, <1>2
    <3>4. CASE v = w
      BY <2>1, <3>1, <3>4, <1>2
    <3> QED BY <3>2, <3>3, <3>4
  <2> QED BY <2>1 DEF OverlapsAreRaced, Demotes, Assigns
<1>4. \A v \in Workers : JobSafe(job[v])'
  <2>1. ASSUME NEW v \in Workers, v # w PROVE JobSafe(job[v])'
    <3>1. JobSafe(job[v]) /\ job'[v] = job[v] /\ UNCHANGED <<role, manager>>
      BY <2>1, <1>2 DEF ManagersInv, rows
    <3> QED BY <3>1 DEF JobSafe, Demotes, Assigns, Subordinates
  <2>2. JobSafe(job[w])'
    BY <1>2 DEF JobSafe, Demotes, Assigns, Subordinates
  <2> QED BY <2>1, <2>2
<1> QED BY <1>1, <1>3, <1>4 DEF ManagersInv

LEMMA RequestKeepsManagers ==
  ASSUME ManagersInv, Typed', raced \subseteq raced', NEW w \in Workers,
         NEW actor \in Employees, NEW actorRole \in Roles, Request(w, actor, actorRole)
  PROVE  ManagersInv'
<1>1. UNCHANGED rows
  BY RequestReads
<1> job \in [Workers -> Jobs]
  BY DEF ManagersInv, Typed, TypeOK
<1>2. ASSUME NEW j, Begin(w, j), \A m \in Employees : ~Demotes(j, m) /\ ~Assigns(j, m),
             j.at = "COMMIT" => j.op # "MANAGER"
      PROVE  ManagersInv'
  <2>1. JobSafe(j)'
    BY <1>2 DEF JobSafe, Demotes, Assigns
  <2> QED BY <1>1, <1>2, <2>1, ReadKeepsManagers DEF Begin
<1>3. CASE StartCreate(w, actorRole)
  <2>1. PICK m, r, j :
          /\ j = [Idle EXCEPT !.op = "CREATE", !.at = "COMMIT", !.email = m, !.role = r]
          /\ Begin(w, j)
    BY <1>3 DEF StartCreate
  <2>2. j.op = "CREATE"
    BY <2>1 DEF Idle
  <2> QED BY <1>2, <2>1, <2>2 DEF Demotes, Assigns
<1>4. ASSUME NEW target \in Employees, StartRole(w, actor, actorRole, target)
      PROVE  ManagersInv'
  <2>1. PICK r, j :
          /\ r \in Roles
          /\ r # "MANAGER" => Subordinates(target) = {}
          /\ j = [Idle EXCEPT !.op = "ROLE", !.at = "COMMIT", !.target = target, !.role = r]
          /\ Begin(w, j)
          /\ RaceOf(target, r # "MANAGER" /\ Assigned(target))
    BY <1>4 DEF StartRole
  <2>2. j.op = "ROLE" /\ j.target = target /\ j.role = r
    BY <2>1 DEF Idle
  <2>3. job' = [job EXCEPT ![w] = j]
    BY <2>1 DEF Begin
  <2>4. \A m \in Employees : Demotes(j, m) <=> m = target /\ r # "MANAGER"
    BY <2>2 DEF Demotes
  <2>5. JobSafe(j)'
    BY <1>1, <2>1, <2>2 DEF JobSafe, Demotes, Assigns, Subordinates, rows
  <2>6. ASSUME NEW v \in Workers \ {w}, NEW m \in Employees,
               \/ Demotes(j, m) /\ Assigns(job[v], m)
               \/ Demotes(job[v], m) /\ Assigns(j, m)
        PROVE  m \in raced'
    <3>1. m = target /\ r # "MANAGER" /\ Assigned(m)
      BY <2>2, <2>4, <2>6 DEF Assigns, Assigned
    <3> QED BY <2>1, <3>1 DEF RaceOf
  <2>7. \A v \in Workers \ {w}, n \in Employees :
          \/ Demotes(j, n) /\ Assigns(job[v], n)
          \/ Demotes(job[v], n) /\ Assigns(j, n)
          => n \in raced'
    BY <2>6
  <2> QED BY <1>1, <2>3, <2>5, <2>7, ReadKeepsManagers
<1>5. ASSUME NEW target \in Employees,
             \/ StartInfo(w, actorRole, target)
             \/ StartManager(w, actor, actorRole, target)
             \/ StartStatus(w, actorRole, target)
             \/ StartDesignation(w, actorRole, target)
      PROVE  ManagersInv'
  <2>1. PICK j : /\ Begin(w, j)
                 /\ j.op \notin {"ROLE", "MANAGER"} \/ (j.op = "MANAGER" /\ j.at = "CHECK")
    <3>1. CASE StartInfo(w, actorRole, target)
      <4>1. PICK at, address, j :
              /\ j = [Idle EXCEPT !.op = "INFO", !.target = target, !.at = at, !.email = address]
              /\ Begin(w, j)
        BY <3>1 DEF StartInfo
      <4>2. j.op = "INFO" /\ j.op \notin {"ROLE", "MANAGER"}
        BY <4>1 DEF Idle
      <4> QED BY <4>1, <4>2
    <3>2. CASE StartManager(w, actor, actorRole, target)
      <4>1. PICK m, j :
              /\ j = [Idle EXCEPT !.op = "MANAGER", !.at = "CHECK", !.target = target,
                                  !.manager = m]
              /\ Begin(w, j)
        BY <3>2 DEF StartManager
      <4>2. j.op = "MANAGER" /\ j.at = "CHECK"
        BY <4>1 DEF Idle
      <4> QED BY <4>1, <4>2
    <3>3. CASE StartStatus(w, actorRole, target)
      <4>1. PICK j :
              /\ j = [Idle EXCEPT !.op = "STATUS", !.at = "CHECK", !.target = target]
              /\ Begin(w, j)
        BY <3>3 DEF StartStatus
      <4>2. j.op = "STATUS" /\ j.op \notin {"ROLE", "MANAGER"}
        BY <4>1 DEF Idle
      <4> QED BY <4>1, <4>2
    <3>4. CASE StartDesignation(w, actorRole, target)
      <4>1. PICK d, at, j :
              /\ j = [Idle EXCEPT !.op = "DESIGNATION", !.target = target,
                                  !.designation = d, !.at = at]
              /\ Begin(w, j)
        BY <3>4 DEF StartDesignation
      <4>2. j.op = "DESIGNATION" /\ j.op \notin {"ROLE", "MANAGER"}
        BY <4>1 DEF Idle
      <4> QED BY <4>1, <4>2
    <3> QED BY <1>5, <3>1, <3>2, <3>3, <3>4
  <2> QED BY <1>2, <2>1 DEF Demotes, Assigns
<1> QED BY <1>3, <1>4, <1>5 DEF Request

LEMMA ContinueKeepsManagers ==
  ASSUME ManagersInv, Typed', raced \subseteq raced', NEW w \in Workers, Continue(w)
  PROVE  ManagersInv'
<1> job \in [Workers -> Jobs]
  BY DEF ManagersInv, Typed, TypeOK
\* A request that ends gives up what it has checked; the others' facts stay.
<1>2. ASSUME Quit(w), ManagersAreManagers',
             \A v \in Workers \ {w} : JobSafe(job[v])'
      PROVE  ManagersInv'
  <2>1. \A v \in Workers : job'[v] = IF v = w THEN Idle ELSE job[v]
    BY <1>2 DEF Quit
  <2>2. \A m \in Employees : ~Demotes(Idle, m) /\ ~Assigns(Idle, m)
    BY DEF Idle, Demotes, Assigns
  <2>3. ASSUME NEW u \in Workers, NEW v \in Workers, NEW m \in Employees,
               Demotes(job'[u], m), Assigns(job'[v], m)
        PROVE  m \in raced'
    <3>1. u # w /\ v # w
      BY <2>1, <2>2, <2>3
    <3> QED BY <2>1, <2>3, <3>1 DEF ManagersInv, OverlapsAreRaced
  <2>4. OverlapsAreRaced'
    BY <2>3 DEF OverlapsAreRaced, Demotes, Assigns
  <2>5. ASSUME NEW v \in Workers PROVE JobSafe(job[v])'
    <3>1. CASE v = w
      <4>1. job'[v] = Idle
        BY <2>1, <3>1
      <4> QED BY <4>1 DEF JobSafe, Demotes, Assigns, Idle
    <3>2. CASE v # w
      BY <1>2, <3>2
    <3> QED BY <3>1, <3>2
  <2> QED BY <1>2, <2>4, <2>5 DEF ManagersInv
<1>3. ASSUME Quit(w), UNCHANGED <<role, manager>> PROVE ManagersInv'
  <2>1. ManagersAreManagers'
    BY <1>3 DEF ManagersInv, ManagersAreManagers
  <2>2. ASSUME NEW v \in Workers \ {w} PROVE JobSafe(job[v])'
    <3>1. job'[v] = job[v] /\ JobSafe(job[v])
      BY <1>3 DEF Quit, ManagersInv
    <3> QED BY <1>3, <3>1 DEF JobSafe, Demotes, Assigns, Subordinates
  <2> QED BY <1>2, <1>3, <2>1, <2>2
<1>4. CASE CommitCreate(w)
  <2>1. PICK e \in Employees : role[e] = None /\ role' = [role EXCEPT ![e] = job[w].role]
    BY <1>4 DEF CommitCreate, ManagersInv, Typed, TypeOK
  <2>2. ManagersAreManagers'
    BY <1>4, <2>1, StaffAssumption
    DEF CommitCreate, ManagersInv, ManagersAreManagers, Typed, TypeOK
  <2>3. ASSUME NEW v \in Workers \ {w} PROVE JobSafe(job[v])'
    <3>1. job'[v] = job[v] /\ manager' = manager /\ JobSafe(job[v])
      BY <1>4 DEF CommitCreate, Quit, ManagersInv
    <3>2. \A m \in Employees : role[m] = "MANAGER" => role'[m] = "MANAGER"
      BY <2>1, StaffAssumption DEF ManagersInv, Typed, TypeOK
    <3> QED BY <3>1, <3>2 DEF JobSafe, Demotes, Assigns, Subordinates
  <2> QED BY <1>2, <1>4, <2>2, <2>3 DEF CommitCreate
<1>5. CASE CommitRole(w)
  <2> DEFINE m == job[w].target
  <2>0. job[w].op = "ROLE" /\ m \in Employees
    BY <1>5 DEF CommitRole, At, ManagersInv, Typed, JobTyped
  <2>1. \/ job[w].role = "MANAGER"
        \/ Demotes(job[w], m) /\ (Subordinates(m) = {} \/ m \in raced)
    BY <2>0 DEF ManagersInv, JobSafe, Demotes
  <2>2. ManagersAreManagers'
    BY <1>5, <2>0, <2>1
    DEF CommitRole, Subordinates, ManagersInv, ManagersAreManagers, Typed, TypeOK
  <2>3. ASSUME NEW v \in Workers \ {w} PROVE JobSafe(job[v])'
    <3>1. job'[v] = job[v] /\ manager' = manager /\ JobSafe(job[v])
      BY <1>5 DEF CommitRole, Quit, ManagersInv
    <3>2. ASSUME NEW n \in Employees, Assigns(job[v], n)
          PROVE  role'[n] = "MANAGER" \/ n \in raced'
      <4>1. CASE n = m /\ Demotes(job[w], m)
        BY <3>2, <4>1 DEF ManagersInv, OverlapsAreRaced
      <4>2. CASE n = m /\ job[w].role = "MANAGER"
        BY <1>5, <2>0, <4>2 DEF CommitRole, ManagersInv, Typed, TypeOK
      <4>3. CASE n # m
        BY <1>5, <2>0, <3>1, <3>2, <4>3 DEF CommitRole, ManagersInv, Typed, TypeOK, JobSafe
      <4> QED BY <2>1, <4>1, <4>2, <4>3
    <3> QED BY <3>1, <3>2 DEF JobSafe, Demotes, Assigns, Subordinates
  <2> QED BY <1>2, <1>5, <2>2, <2>3 DEF CommitRole
<1>6. CASE CommitManager(w)
  <2> DEFINE m == job[w].manager
  <2>0. job[w].op = "MANAGER" /\ job[w].at = "COMMIT" /\ job[w].target \in Employees
        /\ m \in Employees
    BY <1>6 DEF CommitManager, At, ManagersInv, Typed, JobTyped
  <2>1. Assigns(job[w], m) /\ (role[m] = "MANAGER" \/ m \in raced)
    BY <2>0 DEF ManagersInv, JobSafe, Assigns
  <2>2. ManagersAreManagers'
    BY <1>6, <2>0, <2>1 DEF CommitManager, ManagersInv, ManagersAreManagers, Typed, TypeOK
  <2>3. ASSUME NEW v \in Workers \ {w} PROVE JobSafe(job[v])'
    <3>1. job'[v] = job[v] /\ role' = role /\ JobSafe(job[v])
      BY <1>6 DEF CommitManager, Quit, ManagersInv
    <3>2. ASSUME NEW n \in Employees, Demotes(job[v], n)
          PROVE  Subordinates(n)' = {} \/ n \in raced'
      <4>1. CASE n = m
        BY <2>1, <3>2, <4>1 DEF ManagersInv, OverlapsAreRaced
      <4>2. CASE n # m
        <5>1. Subordinates(n) = {} \/ n \in raced
          BY <3>1, <3>2 DEF JobSafe
        <5>2. Subordinates(n)' \subseteq Subordinates(n)
          BY <1>6, <2>0, <4>2 DEF CommitManager, Subordinates, ManagersInv, Typed, TypeOK
        <5> QED BY <5>1, <5>2
      <4> QED BY <4>1, <4>2
    <3> QED BY <3>1, <3>2 DEF JobSafe, Demotes, Assigns
  <2> QED BY <1>2, <1>6, <2>2, <2>3 DEF CommitManager
<1>7. CASE CommitInfo(w) \/ CommitStatus(w) \/ CommitDesignation(w) \/ Fail(w)
  BY <1>3, <1>7 DEF CommitInfo, CommitStatus, CommitDesignation, Fail
<1>9. CASE CheckEmail(w) \/ ReadStatus(w) \/ CheckDesignation(w)
  <2>1. job[w].op \notin {"ROLE", "MANAGER"} /\ UNCHANGED rows
    BY <1>9 DEF CheckEmail, ReadStatus, CheckDesignation, At, rows
  <2>2. job'[w].op = job[w].op /\ job' = [job EXCEPT ![w] = job'[w]]
    BY <1>9 DEF CheckEmail, ReadStatus, CheckDesignation, Jobs
  <2>3. PICK j : j = job'[w]
    OBVIOUS
  <2>4. \A m \in Employees : ~Demotes(j, m) /\ ~Assigns(j, m)
    BY <2>1, <2>2, <2>3 DEF Demotes, Assigns
  <2>5. JobSafe(j)'
    BY <2>1, <2>2, <2>3 DEF JobSafe, Demotes, Assigns
  <2> QED BY <2>1, <2>2, <2>3, <2>4, <2>5, ReadKeepsManagers
<1>10. CASE ReadManagerRole(w)
  <2>1. PICK m, j :
          /\ m = job[w].manager
          /\ j = [job[w] EXCEPT !.at = "STATUS", !.role = role[m]]
          /\ job' = [job EXCEPT ![w] = j]
          /\ RaceOf(m, role[m] = "MANAGER" /\ Demoted(m))
    BY <1>10 DEF ReadManagerRole
  <2>2. job[w].op = "MANAGER" /\ m \in Employees /\ UNCHANGED rows
    BY <1>10, <2>1 DEF ReadManagerRole, At, rows, ManagersInv, Typed, JobTyped
  <2>3. j.op = "MANAGER" /\ j.at = "STATUS" /\ j.role = role[m] /\ j.manager = m
    BY <2>1, <2>2 DEF ManagersInv, Typed, TypeOK, Jobs
  <2>4. JobSafe(j)'
    BY <2>2, <2>3 DEF JobSafe, Demotes, Assigns, rows
  <2>5. ASSUME NEW v \in Workers \ {w}, NEW n \in Employees,
               \/ Demotes(j, n) /\ Assigns(job[v], n)
               \/ Demotes(job[v], n) /\ Assigns(j, n)
        PROVE  n \in raced'
    <3>1. n = m /\ role[m] = "MANAGER" /\ Demoted(m)
      BY <2>3, <2>5 DEF Demotes, Assigns, Demoted
    <3> QED BY <2>1, <3>1 DEF RaceOf
  <2>6. \A v \in Workers \ {w}, n \in Employees :
          \/ Demotes(j, n) /\ Assigns(job[v], n)
          \/ Demotes(job[v], n) /\ Assigns(j, n)
          => n \in raced'
    BY <2>5
  <2> QED BY <2>1, <2>2, <2>4, <2>6, ReadKeepsManagers
<1>11. CASE CheckManager(w)
  <2>1. job[w].op = "MANAGER" /\ job[w].at = "STATUS" /\ job[w].role = "MANAGER"
        /\ UNCHANGED <<rows, raced>>
    BY <1>11 DEF CheckManager, At, rows
  <2>2. PICK j : j = [job[w] EXCEPT !.at = "COMMIT"] /\ job' = [job EXCEPT ![w] = j]
    BY <1>11 DEF CheckManager
  <2>3. j.op = "MANAGER" /\ j.at = "COMMIT" /\ j.role = "MANAGER"
        /\ j.manager = job[w].manager
    BY <2>1, <2>2 DEF ManagersInv, Typed, TypeOK, Jobs
  <2>4. \A m \in Employees : ~Demotes(j, m) /\ (Assigns(j, m) <=> Assigns(job[w], m))
    BY <2>1, <2>3 DEF Demotes, Assigns
  <2>5. JobSafe(j)'
    <3>1. \A m \in Employees : Assigns(j, m) => role'[m] = "MANAGER" \/ m \in raced'
      BY <2>1, <2>4 DEF ManagersInv, JobSafe, rows
    <3> QED BY <2>3, <3>1 DEF JobSafe, Demotes, Assigns
  <2>6. \A v \in Workers \ {w}, m \in Employees :
          Demotes(job[v], m) /\ Assigns(j, m) => m \in raced'
    BY <2>1, <2>4 DEF ManagersInv, OverlapsAreRaced
  <2> QED BY <2>1, <2>2, <2>4, <2>5, <2>6, ReadKeepsManagers
<1> QED BY <1>4, <1>5, <1>6, <1>7, <1>9, <1>10, <1>11 DEF Continue

LEMMA StepManagers == ManagersInv /\ [Next]_vars => ManagersInv'
<1> SUFFICES ASSUME ManagersInv, [Next]_vars PROVE ManagersInv'
  OBVIOUS
<1>1. Typed' /\ raced \subseteq raced'
  BY StepTyped, RacedGrows DEF ManagersInv
<1>2. CASE UNCHANGED <<role, manager, job, raced>>
  <2>1. ManagersAreManagers' /\ OverlapsAreRaced'
    BY <1>2 DEF ManagersInv, ManagersAreManagers, OverlapsAreRaced, Demotes, Assigns
  <2>2. \A w \in Workers : JobSafe(job[w])'
    BY <1>2 DEF ManagersInv, JobSafe, Demotes, Assigns, Subordinates
  <2> QED BY <1>1, <2>1, <2>2 DEF ManagersInv
<1>3. CASE UNCHANGED vars
  BY <1>2, <1>3 DEF vars
<1>4. ASSUME NEW d \in Designations, CreateDesignation(d) \/ DeleteDesignation(d)
      PROVE  ManagersInv'
  BY <1>2, <1>4 DEF CreateDesignation, DeleteDesignation
<1> QED BY <1>1, <1>3, <1>4, RequestKeepsManagers, ContinueKeepsManagers DEF Next

\* Everyone that someone reports to has the role MANAGER, however many requests
\* interleave, unless a demotion and an assignment of that employee were both
\* past their checks at the same time.
THEOREM ManagersKeepTheirRole == Spec => []ManagersAreManagers
<1>1. ManagersInv => ManagersAreManagers
  BY DEF ManagersInv
<1> QED BY <1>1, InitManagers, StepManagers, PTL DEF Spec
=============================================================================
