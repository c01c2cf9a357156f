------------------------ MODULE ApprovalPolicyProofs ------------------------
(***************************************************************************)
(* Proofs about ApprovalPolicy: for any flows, leave types, leaves and     *)
(* number of requests, nothing refers to a row that is gone, and every     *)
(* leave got stages somebody can act on, in the order of the hierarchy.    *)
(***************************************************************************)
EXTENDS ApprovalPolicy, TLAPS

-----------------------------------------------------------------------------
(* Stages.                                                                 *)

\* The stages of a flow that is there: validated, or built in.
Usable(stages) == stages = SystemStages \/ ValidFlow(stages)

LEMMA UsableAsksApprovers ==
  ASSUME NEW s, Usable(s)
  PROVE  DOMAIN s # {} /\ DOMAIN s \subseteq ApproverRoles
BY PolicyAssumption DEF Usable, ValidFlow, WellFormed

LEMMA ApproversAreAbove ==
  ASSUME NEW q \in ApproverRoles, NEW r \in {"EMPLOYEE", "INTERN"}
  PROVE  RoleAbove(q, r)
BY DEF ApproverRoles, Roles, RoleAbove, RoleLevel

\* Nobody is left out of the log of an employee or an intern.
LEMMA EmployeesKeepStages ==
  ASSUME NEW s, Usable(s), NEW r \in {"EMPLOYEE", "INTERN"}
  PROVE  Routed(s, r) # Unrouted
<1>1. DOMAIN Routed(s, r) # {}
  BY UsableAsksApprovers, ApproversAreAbove DEF Routed
<1>2. DOMAIN Unrouted = {}
  BY DEF Unrouted
<1> QED BY <1>1, <1>2

\* Leaving out some roles keeps the order of the others.
LEMMA RoutedStaysValid ==
  ASSUME NEW s, ValidFlow(s), NEW r, DOMAIN Routed(s, r) # {}
  PROVE  ValidFlow(Routed(s, r))
<1> DEFINE new == Routed(s, r)
<1>1. /\ DOMAIN new \subseteq DOMAIN s
      /\ \A q \in DOMAIN new : new[q] = s[q]
  BY DEF Routed
<1>2. /\ DOMAIN s \subseteq ApproverRoles
      /\ \A q \in DOMAIN s : s[q] \in Nat \ {0}
      /\ \A p, q \in DOMAIN s : RoleLevel[p] < RoleLevel[q] => s[p] <= s[q]
  BY DEF ValidFlow, WellFormed
<1>3. new = [q \in DOMAIN new |-> new[q]]
  BY DEF Routed
<1> HIDE DEF new
<1>4. new \in [DOMAIN new -> Nat \ {0}]
  BY <1>1, <1>2, <1>3
<1>5. \A p, q \in DOMAIN new : RoleLevel[p] < RoleLevel[q] => new[p] <= new[q]
  BY <1>1, <1>2
<1>6. DOMAIN new # {}
  BY DEF new
<1>7. ValidFlow(new)
  BY <1>1, <1>2, <1>4, <1>5, <1>6 DEF ValidFlow, WellFormed
<1> QED BY <1>7 DEF new

LEMMA EmptyIsUnrouted ==
  ASSUME NEW s, NEW r, DOMAIN Routed(s, r) = {}
  PROVE  Routed(s, r) = Unrouted
BY DEF Routed, Unrouted

\* What RoutesFollowHierarchy says of one leave.
Ordered(stages) ==
  stages # Unrouted =>
    ValidFlow(stages) \/ \E r \in Roles : stages = Routed(SystemStages, r)

LEMMA RoutedIsOrdered ==
  ASSUME NEW s, Usable(s), NEW r \in Roles
  PROVE  Ordered(Routed(s, r))
<1>1. CASE DOMAIN Routed(s, r) = {}
  BY <1>1, EmptyIsUnrouted DEF Ordered
<1>2. CASE DOMAIN Routed(s, r) # {} /\ ValidFlow(s)
  BY <1>2, RoutedStaysValid DEF Ordered
<1>3. CASE s = SystemStages
  BY <1>3 DEF Ordered
<1> QED BY <1>1, <1>2, <1>3 DEF Usable

LEMMA NoStagesNoRoute == ASSUME NEW r PROVE Routed(Unrouted, r) = Unrouted
BY DEF Routed, Unrouted

-----------------------------------------------------------------------------
(* The invariant.                                                          *)

Administered ==
  /\ DOMAIN stagesOf = Flows
  /\ \A f \in Flows : FlowExists(f) => Usable(stagesOf[f])
  /\ typeFlow \in [Types -> Flows \cup {NoFlow, Nothing}]
  /\ \A t \in Types : typeFlow[t] = NoFlow => orphaned
  /\ allocated \subseteq Types

AppliedFor ==
  /\ leaveType \in [Leaves -> Types \cup {Nothing}]
  /\ route = [l \in Leaves |-> route[l]]
  /\ applicant \in [Leaves -> Roles]

\* What a request has read: the flow it will look up, and then its stages, are
\* missing only if a flow was deleted from under a type.
Reads(b) ==
  /\ DOMAIN b = {"op", "leave", "type", "role", "flow", "stages"}
  /\ b.op # "IDLE" =>
       /\ b.type \in Types /\ b.role \in Roles
       /\ b.flow \in Flows \cup {NoFlow, Nothing}
       /\ b.flow = NoFlow => orphaned
       /\ b.flow = Nothing => Usable(b.stages) \/ (b.stages = Unrouted /\ orphaned)
  /\ b.op = "EDIT" => b.leave \in Leaves /\ LeaveExists(b.leave)

Requesting == DOMAIN job = Workers /\ \A w \in Workers : Reads(job[w])

PolicyInv ==
  /\ Administered /\ AppliedFor /\ Requesting
  /\ ReferencesResolve /\ EmployeesAreRouted /\ RoutesFollowHierarchy

LEMMA InitPolicy == Init => PolicyInv
<1> SUFFICES ASSUME Init PROVE PolicyInv
  OBVIOUS
<1>1. Administered
  BY PolicyAssumption DEF Init, Administered, FlowExists, Usable
<1>2. AppliedFor
  BY DEF Init, AppliedFor, Roles
<1>3. Requesting
  BY DEF Init, Requesting, Reads, Idle
<1>4. ReferencesResolve
  BY PolicyAssumption
  DEF Init, ReferencesResolve, LeaveExists, TypeExists, FlowExists
<1>5. EmployeesAreRouted /\ RoutesFollowHierarchy
  BY DEF Init, EmployeesAreRouted, RoutesFollowHierarchy, LeaveExists
<1> QED BY <1>1, <1>2, <1>3, <1>4, <1>5 DEF PolicyInv

-----------------------------------------------------------------------------
(* Administration: leaves and requests are left alone.                     *)

LEMMA LeavesUntouched ==
  ASSUME PolicyInv, UNCHANGED leaveVars, UNCHANGED job, orphaned => orphaned'
  PROVE  /\ AppliedFor' /\ Requesting'
         /\ EmployeesAreRouted' /\ RoutesFollowHierarchy'
<1>1. AppliedFor'
  BY DEF PolicyInv, AppliedFor, leaveVars
<1>2. Requesting'
  BY DEF PolicyInv, Requesting, Reads, leaveVars, LeaveExists
<1>3. EmployeesAreRouted' /\ RoutesFollowHierarchy'
  BY DEF PolicyInv, EmployeesAreRouted, RoutesFollowHierarchy, leaveVars, LeaveExists
<1> QED BY <1>1, <1>2, <1>3

\* Both operations that write the stages of a flow.
LEMMA StagesSaved ==
  ASSUME PolicyInv, NEW f \in Flows, NEW s \in Requested, ValidFlow(s), SaveStages(f, s),
         UNCHANGED <<typeFlow, early, allocated, leaveVars, job, orphaned>>
  PROVE  PolicyInv'
<1>1. Administered'
  BY DEF PolicyInv, Administered, SaveStages, FlowExists, Usable
<1>2. ReferencesResolve'
  BY PolicyAssumption
  DEF PolicyInv, Administered, ReferencesResolve, SaveStages, FlowExists, TypeExists,
      LeaveExists, leaveVars
<1> QED BY <1>1, <1>2, LeavesUntouched DEF PolicyInv

LEMMA FlowDeleted ==
  ASSUME PolicyInv, NEW f \in Flows, DeleteFlow(f)
  PROVE  PolicyInv'
<1>1. Administered'
  BY DEF PolicyInv, Administered, DeleteFlow, FlowExists, Usable
<1>2. ReferencesResolve'
  BY PolicyAssumption
  DEF PolicyInv, Administered, AppliedFor, ReferencesResolve, DeleteFlow, Changeable,
      FlowExists, TypeExists, LeaveExists, leaveVars
<1> QED BY <1>1, <1>2, LeavesUntouched DEF PolicyInv, DeleteFlow

\* Both operations that write the flow of a type.
LEMMA TypeSaved ==
  ASSUME PolicyInv, NEW t \in Types, NEW f \in Flows \cup {NoFlow}, NEW isEarly,
         SaveType(t, f, isEarly), allocated' \in {allocated, allocated \cup {t}},
         UNCHANGED <<stagesOf, leaveVars, job, orphaned>>
  PROVE  PolicyInv'
<1>1. /\ NormalizedFlow(f) \in Flows /\ FlowExists(NormalizedFlow(f))
      /\ typeFlow' = [typeFlow EXCEPT ![t] = NormalizedFlow(f)]
  BY PolicyAssumption DEF SaveType, NormalizedFlow
<1>2. Administered'
  BY <1>1, PolicyAssumption DEF PolicyInv, Administered, FlowExists, Usable
<1>3. ReferencesResolve'
  BY <1>1, PolicyAssumption
  DEF PolicyInv, Administered, AppliedFor, ReferencesResolve, FlowExists, TypeExists,
      LeaveExists, leaveVars
<1> QED BY <1>2, <1>3, LeavesUntouched DEF PolicyInv

LEMMA TypeDeleted ==
  ASSUME PolicyInv, NEW t \in Types, DeleteType(t)
  PROVE  PolicyInv'
<1>1. Administered'
  BY PolicyAssumption DEF PolicyInv, Administered, DeleteType, FlowExists, Usable
<1>2. ReferencesResolve'
  BY PolicyAssumption
  DEF PolicyInv, Administered, AppliedFor, ReferencesResolve, DeleteType, Deletable,
      FlowExists, TypeExists, LeaveExists, leaveVars
<1> QED BY <1>1, <1>2, LeavesUntouched DEF PolicyInv, DeleteType

LEMMA EmployeeCreated ==
  ASSUME PolicyInv, CreateEmployee
  PROVE  PolicyInv'
<1>1. Administered'
  BY DEF PolicyInv, Administered, CreateEmployee, FlowExists, Usable
<1>2. ReferencesResolve'
  BY DEF PolicyInv, ReferencesResolve, CreateEmployee, FlowExists, TypeExists,
         LeaveExists, leaveVars
<1> QED BY <1>1, <1>2, LeavesUntouched DEF PolicyInv, CreateEmployee

-----------------------------------------------------------------------------
(* Requests about leaves.                                                  *)

\* A request goes on: nothing but its own memory changes.
LEMMA RequestMoves ==
  ASSUME PolicyInv, NEW w \in Workers, NEW b, job' = [job EXCEPT ![w] = b], Reads(b),
         UNCHANGED <<policyVars, leaveVars, orphaned>>
  PROVE  PolicyInv'
<1>1. Administered' /\ AppliedFor' /\ ReferencesResolve'
  BY DEF PolicyInv, Administered, AppliedFor, ReferencesResolve, policyVars, leaveVars,
         FlowExists, TypeExists, LeaveExists, Usable
<1>2. Reads(b)'
  BY DEF Reads, leaveVars, LeaveExists
<1>3. Requesting'
  BY <1>2 DEF PolicyInv, Requesting, Reads, leaveVars, LeaveExists
<1>4. EmployeesAreRouted' /\ RoutesFollowHierarchy'
  BY DEF PolicyInv, EmployeesAreRouted, RoutesFollowHierarchy, leaveVars, LeaveExists
<1> QED BY <1>1, <1>3, <1>4 DEF PolicyInv

LEMMA TypeIsRead ==
  ASSUME PolicyInv, NEW w \in Workers, NEW op \in {"CREATE", "EDIT"}, NEW l,
         NEW t \in Types, NEW r \in Roles, ReadType(w, op, l, t, r),
         op = "EDIT" => l \in Leaves /\ LeaveExists(l)
  PROVE  PolicyInv'
<1> DEFINE b == [Idle EXCEPT !.op = op, !.leave = l, !.type = t, !.role = r, !.flow = typeFlow[t]]
<1>1. job' = [job EXCEPT ![w] = b]
  BY DEF ReadType
<1>2. DOMAIN Idle = {"op", "leave", "type", "role", "flow", "stages"}
  BY DEF Idle
<1>3. /\ DOMAIN b = DOMAIN Idle
      /\ b.op = op /\ b.leave = l /\ b.type = t /\ b.role = r /\ b.flow = typeFlow[t]
  BY <1>2
<1> HIDE DEF b
<1>4. Reads(b)
  BY <1>2, <1>3, PolicyAssumption DEF Reads, PolicyInv, Administered, ReadType, TypeExists
<1> QED BY <1>1, <1>4, RequestMoves DEF ReadType

LEMMA FlowIsRead ==
  ASSUME PolicyInv, NEW w \in Workers, ReadFlow(w)
  PROVE  PolicyInv'
<1> DEFINE f == job[w].flow
           b == [job[w] EXCEPT !.flow = Nothing, !.stages = StagesRead(f)]
<1>1. Reads(job[w])
  BY DEF PolicyInv, Requesting
<1>2. job' = [job EXCEPT ![w] = b]
  BY <1>1 DEF ReadFlow, PolicyInv, Requesting
<1>3. f # Nothing /\ (f # NoFlow => FlowExists(f))
  BY DEF ReadFlow
<1>4. ASSUME job[w].op # "IDLE"
      PROVE  Usable(StagesRead(f)) \/ (StagesRead(f) = Unrouted /\ orphaned)
  BY <1>1, <1>3, <1>4 DEF Reads, StagesRead, PolicyInv, Administered
<1>5. /\ DOMAIN b = DOMAIN job[w] /\ b.flow = Nothing /\ b.stages = StagesRead(f)
      /\ b.op = job[w].op /\ b.leave = job[w].leave /\ b.type = job[w].type
      /\ b.role = job[w].role
  BY <1>1 DEF Reads
<1> HIDE DEF b
<1>6. Reads(b)
  BY <1>1, <1>4, <1>5, PolicyAssumption DEF Reads
<1> QED BY <1>2, <1>6, RequestMoves DEF ReadFlow

LEMMA IdleReads == Reads(Idle)
BY DEF Reads, Idle

LEMMA RequestAborts ==
  ASSUME PolicyInv, NEW w \in Workers, Abort(w)
  PROVE  PolicyInv'
BY IdleReads, RequestMoves DEF Abort, Finish

\* Both commits: a leave has a type, and stages that pass.
LEMMA LeaveWritten ==
  ASSUME PolicyInv, NEW w \in Workers, NEW l \in Leaves, NEW t \in Types, NEW s,
         NEW r \in Roles, TypeExists(t), Finish(w),
         leaveType' = [leaveType EXCEPT ![l] = t],
         route' = [route EXCEPT ![l] = s],
         applicant' = [applicant EXCEPT ![l] = r],
         UNCHANGED <<policyVars, orphaned>>,
         Ordered(s),
         r \in {"EMPLOYEE", "INTERN"} /\ s = Unrouted => orphaned
  PROVE  PolicyInv'
<1>1. Administered'
  BY DEF PolicyInv, Administered, policyVars, FlowExists, Usable
<1>2. AppliedFor'
  BY DEF PolicyInv, AppliedFor
<1>3. \A k \in Leaves : LeaveExists(k) => LeaveExists(k)'
  BY PolicyAssumption DEF PolicyInv, AppliedFor, LeaveExists
<1>4. Requesting'
  BY <1>3, IdleReads DEF PolicyInv, Requesting, Reads, Finish, Idle
<1>5. ReferencesResolve'
  BY DEF PolicyInv, AppliedFor, ReferencesResolve, policyVars, FlowExists, TypeExists,
         LeaveExists
<1>6. EmployeesAreRouted'
  BY DEF PolicyInv, AppliedFor, EmployeesAreRouted, LeaveExists
<1>7. RoutesFollowHierarchy'
  BY DEF PolicyInv, AppliedFor, RoutesFollowHierarchy, Ordered
<1> QED BY <1>1, <1>2, <1>4, <1>5, <1>6, <1>7 DEF PolicyInv

\* What the stages read become in the log of an applicant.
LEMMA ReadyStages ==
  ASSUME PolicyInv, NEW w \in Workers, NEW op \in {"CREATE", "EDIT"}, Ready(w, op),
         NEW r \in Roles
  PROVE  /\ job[w].type \in Types /\ TypeExists(job[w].type) /\ job[w].role \in Roles
         /\ Ordered(Routed(job[w].stages, r))
         /\ r \in {"EMPLOYEE", "INTERN"} /\ Routed(job[w].stages, r) = Unrouted => orphaned
<1>1. /\ job[w].type \in Types /\ job[w].role \in Roles
      /\ Usable(job[w].stages) \/ (job[w].stages = Unrouted /\ orphaned)
  BY DEF PolicyInv, Requesting, Reads, Ready
<1>2. CASE Usable(job[w].stages)
  BY <1>1, <1>2, RoutedIsOrdered, EmployeesKeepStages DEF Ready
<1>3. CASE job[w].stages = Unrouted /\ orphaned
  BY <1>1, <1>3, NoStagesNoRoute DEF Ready, Ordered
<1> QED BY <1>1, <1>2, <1>3

LEMMA LeaveCreated ==
  ASSUME PolicyInv, NEW w \in Workers, CommitCreate(w)
  PROVE  PolicyInv'
<1>1. PICK l \in Leaves :
        /\ leaveType' = [leaveType EXCEPT ![l] = job[w].type]
        /\ route' = [route EXCEPT ![l] = Routed(job[w].stages, job[w].role)]
        /\ applicant' = [applicant EXCEPT ![l] = job[w].role]
  BY DEF CommitCreate
<1>2. Ready(w, "CREATE") /\ Finish(w) /\ UNCHANGED <<policyVars, orphaned>>
  BY DEF CommitCreate
<1>3. job[w].role \in Roles
  BY <1>2 DEF PolicyInv, Requesting, Reads, Ready
<1> QED BY <1>1, <1>2, <1>3, ReadyStages, LeaveWritten

LEMMA LeaveEdited ==
  ASSUME PolicyInv, NEW w \in Workers, CommitEdit(w)
  PROVE  PolicyInv'
<1> DEFINE l == job[w].leave
           new == Routed(job[w].stages, "EMPLOYEE")
           s == IF new = Unrouted \/ route[l] = Unrouted THEN route[l] ELSE new
<1>1. /\ Ready(w, "EDIT") /\ Finish(w) /\ UNCHANGED <<policyVars, orphaned>>
      /\ leaveType' = [leaveType EXCEPT ![l] = job[w].type]
      /\ applicant' = applicant
  BY DEF CommitEdit
<1>2. l \in Leaves /\ LeaveExists(l)
  BY <1>1 DEF PolicyInv, Requesting, Reads, Ready
<1>3. applicant' = [applicant EXCEPT ![l] = applicant[l]] /\ applicant[l] \in Roles
  BY <1>1, <1>2 DEF PolicyInv, AppliedFor
<1>4. route' = [route EXCEPT ![l] = s]
  BY <1>2 DEF CommitEdit, PolicyInv, AppliedFor
<1>5. job[w].type \in Types /\ TypeExists(job[w].type) /\ Ordered(new)
  BY <1>1, ReadyStages DEF Roles
<1>6. Ordered(route[l])
  BY <1>2 DEF PolicyInv, RoutesFollowHierarchy, Ordered
<1>7. Ordered(s)
  BY <1>5, <1>6
<1>8. applicant[l] \in {"EMPLOYEE", "INTERN"} /\ s = Unrouted => orphaned
  BY <1>2 DEF PolicyInv, EmployeesAreRouted
<1> HIDE DEF l, s
<1> QED BY <1>1, <1>2, <1>3, <1>4, <1>5, <1>7, <1>8, LeaveWritten

-----------------------------------------------------------------------------
LEMMA StepPolicy == PolicyInv /\ [Next]_vars => PolicyInv'
<1> SUFFICES ASSUME PolicyInv, [Next]_vars PROVE PolicyInv'
  OBVIOUS
<1>1. ASSUME NEW f \in Flows, CreateFlow(f) \/ UpdateFlow(f) PROVE PolicyInv'
  BY <1>1, StagesSaved DEF CreateFlow, UpdateFlow
<1>2. ASSUME NEW f \in Flows, DeleteFlow(f) PROVE PolicyInv'
  BY <1>2, FlowDeleted
<1>3. ASSUME NEW t \in Types, CreateType(t) PROVE PolicyInv'
  BY <1>3, TypeSaved DEF CreateType, Allocate
<1>4. ASSUME NEW t \in Types, UpdateType(t) PROVE PolicyInv'
  BY <1>4, TypeSaved DEF UpdateType
<1>5. ASSUME NEW t \in Types, DeleteType(t) PROVE PolicyInv'
  BY <1>5, TypeDeleted
<1>6. ASSUME CreateEmployee PROVE PolicyInv'
  BY <1>6, EmployeeCreated
<1>7. ASSUME NEW w \in Workers, StartCreate(w) PROVE PolicyInv'
  BY <1>7, TypeIsRead, PolicyAssumption DEF StartCreate
<1>8. ASSUME NEW w \in Workers, StartEdit(w) PROVE PolicyInv'
  BY <1>8, TypeIsRead DEF StartEdit, Roles
<1>9. ASSUME NEW w \in Workers, ReadFlow(w) \/ Abort(w) PROVE PolicyInv'
  BY <1>9, FlowIsRead, RequestAborts
<1>10. ASSUME NEW w \in Workers, CommitCreate(w) \/ CommitEdit(w) PROVE PolicyInv'
  BY <1>10, LeaveCreated, LeaveEdited
<1>11. CASE UNCHANGED vars
  BY <1>11
  DEF vars, policyVars, leaveVars, PolicyInv, Administered, AppliedFor, Requesting, Reads,
      ReferencesResolve, EmployeesAreRouted, RoutesFollowHierarchy, FlowExists, TypeExists,
      LeaveExists, Usable
<1> QED
  BY <1>1, <1>2, <1>3, <1>4, <1>5, <1>6, <1>7, <1>8, <1>9, <1>10, <1>11 DEF Next

LEMMA PolicyInvariance == Spec => []PolicyInv
<1> QED BY InitPolicy, StepPolicy, PTL DEF Spec

(***************************************************************************)
(* Whatever administrators delete, and between whichever two statements of *)
(* an application: the type of a leave, the type of a balance and the flow *)
(* of a type exist (the foreign keys of schema.sql, DeleteLeavePolicy).    *)
(***************************************************************************)
THEOREM NothingDangles == Spec => []ReferencesResolve
<1>1. PolicyInv => ReferencesResolve
  BY DEF PolicyInv
<1> QED BY <1>1, PolicyInvariance, PTL

(***************************************************************************)
(* Unless a flow was deleted while a type used it, somebody can decide     *)
(* every leave of an employee or an intern: the flow read between the type *)
(* and the insertion is there, or the application fails.                   *)
(***************************************************************************)
THEOREM EmployeesHaveApprovers == Spec => []EmployeesAreRouted
<1>1. PolicyInv => EmployeesAreRouted
  BY DEF PolicyInv
<1> QED BY <1>1, PolicyInvariance, PTL

(***************************************************************************)
(* The stages copied into a leave are in the order of the hierarchy, or    *)
(* those of the built-in flow, whatever becomes of the flow they were      *)
(* copied from (AllowToCreateLeaveApprovelFlow, generateApprovalLog).      *)
(***************************************************************************)
THEOREM RoutesStayOrdered == Spec => []RoutesFollowHierarchy
<1>1. PolicyInv => RoutesFollowHierarchy
  BY DEF PolicyInv
<1> QED BY <1>1, PolicyInvariance, PTL
=============================================================================
