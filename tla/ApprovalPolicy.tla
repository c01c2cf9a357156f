--------------------------- MODULE ApprovalPolicy ---------------------------
(***************************************************************************)
(* The configuration a leave is routed by: approval flows and leave types, *)
(* administered while employees apply for leaves and edit them.            *)
(*                                                                         *)
(* A leave keeps a copy of the stages of the flow its type had when it was *)
(* applied for (LeaveFlow starts from that copy).  The type and then its   *)
(* flow are read through the connection pool, before the transaction that  *)
(* inserts the leave; an administrator's statement may come in between.    *)
(* Leaves stay pending here: LeaveFlow has their decisions, and the checks *)
(* an application has to pass.  Of a leave type's other columns only       *)
(* is_early matters: it decides who gets a balance row.                    *)
(***************************************************************************)
EXTENDS ApprovalFlow

CONSTANTS
  Flows,       \* ids of approval flows
  System,      \* the built-in flow: is_system
  SystemStages,\* its stages
  Requested,   \* stages an administrator may ask for
  NoFlow,      \* approval_flow_id is NULL
  Types,       \* ids of leave types
  Leaves,
  Nothing,     \* no row
  Applicants,  \* roles in the token of who applies
  Workers

ASSUME PolicyAssumption ==
  /\ System \in Flows
  /\ NoFlow \notin Flows
  /\ WellFormed(SystemStages) /\ DOMAIN SystemStages # {}
  /\ Applicants \subseteq Roles
  /\ Nothing \notin Flows \cup Types \cup {NoFlow}
  /\ Nothing \notin Requested \cup {SystemStages}

VARIABLES
  stagesOf,    \* leave_approval_flow: the stages of each flow, or Nothing
  typeFlow,    \* Tbl_Leave_Type.approval_flow_id, Nothing: no such type
  early,       \* Tbl_Leave_Type.is_early
  allocated,   \* types that Tbl_Leave_balance refers to
  leaveType,   \* Tbl_Leave.leave_type_id, Nothing: no such leave
  route,       \* Tbl_Leave_Flow: the stages of each leave's log, Unrouted: no row
  job,         \* what each worker is doing
  applicant,   \* history: the role that applied for the leave
  orphaned     \* history: a flow was deleted while a type used it

policyVars == <<stagesOf, typeFlow, early, allocated>>
leaveVars == <<leaveType, route, applicant>>
vars == <<policyVars, leaveVars, job, orphaned>>

Unrouted == [r \in {} |-> 0]

Idle == [op |-> "IDLE", leave |-> Nothing, type |-> Nothing, role |-> "EMPLOYEE",
         flow |-> Nothing, stages |-> Unrouted]

FlowExists(f) == stagesOf[f] # Nothing
TypeExists(t) == typeFlow[t] # Nothing
LeaveExists(l) == leaveType[l] # Nothing

Init ==
  /\ stagesOf = [f \in Flows |-> IF f = System THEN SystemStages ELSE Nothing]
  /\ typeFlow = [t \in Types |-> Nothing]
  /\ early = [t \in Types |-> FALSE]
  /\ allocated = {}
  /\ leaveType = [l \in Leaves |-> Nothing]
  /\ route = [l \in Leaves |-> Unrouted]
  /\ job = [w \in Workers |-> Idle]
  /\ applicant = [l \in Leaves |-> "EMPLOYEE"]
  /\ orphaned = FALSE

-----------------------------------------------------------------------------
\* Approval flows.  The built-in one can be neither changed nor deleted.
SaveStages(f, s) == stagesOf' = [stagesOf EXCEPT ![f] = s]

CreateFlow(f) ==
  \E s \in Requested :
    /\ ~FlowExists(f)
    /\ ValidFlow(s)
    /\ SaveStages(f, s)
    /\ UNCHANGED <<typeFlow, early, allocated, leaveVars, job, orphaned>>

\* WHERE id = $1 AND is_system = false: no row is an error.
Changeable(f) == FlowExists(f) /\ f # System

UpdateFlowUnchecked(f) ==
  \E s \in Requested :
    /\ Changeable(f)
    /\ SaveStages(f, s)
    /\ UNCHANGED <<typeFlow, early, allocated, leaveVars, job, orphaned>>

UpdateFlow(f) ==
  \E s \in Requested :
    /\ Changeable(f)
    /\ ValidFlow(s)
    /\ SaveStages(f, s)
    /\ UNCHANGED <<typeFlow, early, allocated, leaveVars, job, orphaned>>

\* ON DELETE SET NULL: the types that use the flow are left without one.
DeleteFlow(f) ==
  /\ Changeable(f)
  /\ stagesOf' = [stagesOf EXCEPT ![f] = Nothing]
  /\ typeFlow' = [t \in Types |-> IF typeFlow[t] = f THEN NoFlow ELSE typeFlow[t]]
  /\ orphaned' = (orphaned \/ \E t \in Types : typeFlow[t] = f)
  /\ UNCHANGED <<early, allocated, leaveVars, job>>

-----------------------------------------------------------------------------
(***************************************************************************)
(* Leave types.  NormalizeLeaveTypeInput fills in the built-in flow when   *)
(* the request names none; a flow that does not exist breaks the foreign   *)
(* key.                                                                    *)
(***************************************************************************)
NormalizedFlow(requested) == IF requested = NoFlow THEN System ELSE requested

SaveType(t, requested, isEarly) ==
  /\ FlowExists(NormalizedFlow(requested))
  /\ typeFlow' = [typeFlow EXCEPT ![t] = NormalizedFlow(requested)]
  /\ early' = [early EXCEPT ![t] = isEarly]

\* Every active employee gets a balance, unless the type is early.
Allocate(t, isEarly, someoneActive) ==
  allocated' = IF isEarly \/ ~someoneActive THEN allocated ELSE allocated \cup {t}

CreateType(t) ==
  \E f \in Flows \cup {NoFlow}, isEarly, someoneActive \in BOOLEAN :
    /\ ~TypeExists(t)
    /\ SaveType(t, f, isEarly)
    /\ Allocate(t, isEarly, someoneActive)
    /\ UNCHANGED <<stagesOf, leaveVars, job, orphaned>>

UpdateType(t) ==
  \E f \in Flows \cup {NoFlow}, isEarly \in BOOLEAN :
    /\ TypeExists(t)
    /\ SaveType(t, f, isEarly)
    /\ UNCHANGED <<stagesOf, allocated, leaveVars, job, orphaned>>

DeleteTypeIgnoringBalances(t) ==
  /\ TypeExists(t)
  /\ \A l \in Leaves : leaveType[l] # t
  /\ typeFlow' = [typeFlow EXCEPT ![t] = Nothing]
  /\ UNCHANGED <<stagesOf, early, allocated, leaveVars, job, orphaned>>

(***************************************************************************)
(* Refused while a leave has the type (counted first), and by the foreign  *)
(* key while a balance has it: a type that was ever allocated stays.       *)
(***************************************************************************)
Deletable(t) ==
  TypeExists(t) /\ t \notin allocated /\ \A l \in Leaves : leaveType[l] # t

DeleteType(t) ==
  /\ Deletable(t)
  /\ typeFlow' = [typeFlow EXCEPT ![t] = Nothing]
  /\ UNCHANGED <<stagesOf, early, allocated, leaveVars, job, orphaned>>

\* A new employee gets a balance of every type that is not early.
CreateEmployee ==
  /\ allocated' = allocated \cup {t \in Types : TypeExists(t) /\ ~early[t]}
  /\ UNCHANGED <<stagesOf, typeFlow, early, leaveVars, job, orphaned>>

-----------------------------------------------------------------------------
\* An application or an edit reads the leave type ...
ReadType(w, op, l, t, r) ==
  /\ job[w] = Idle
  /\ TypeExists(t)
  /\ job' = [job EXCEPT ![w] =
       [Idle EXCEPT !.op = op, !.leave = l, !.type = t, !.role = r, !.flow = typeFlow[t]]]
  /\ UNCHANGED <<policyVars, leaveVars, orphaned>>

StartCreate(w) == \E t \in Types, r \in Applicants : ReadType(w, "CREATE", Nothing, t, r)

StartEdit(w) ==
  \E l \in Leaves, t \in Types : LeaveExists(l) /\ ReadType(w, "EDIT", l, t, "EMPLOYEE")

MissingFlowIsNoFlow(w) ==
  LET f == job[w].flow IN
  /\ f # Nothing
  /\ job' = [job EXCEPT ![w].flow = Nothing,
                        ![w].stages = IF f = NoFlow \/ stagesOf[f] = Nothing THEN Unrouted
                                      ELSE stagesOf[f]]
  /\ UNCHANGED <<policyVars, leaveVars, orphaned>>

StagesRead(f) == IF f = NoFlow THEN Unrouted ELSE stagesOf[f]

\* ... and then its flow: gone in between, the request fails (Abort).
ReadFlow(w) ==
  LET f == job[w].flow IN
  /\ f # Nothing
  /\ f # NoFlow => FlowExists(f)
  /\ job' = [job EXCEPT ![w].flow = Nothing,
                        ![w].stages = StagesRead(f)]
  /\ UNCHANGED <<policyVars, leaveVars, orphaned>>

Routed(stages, r) == [q \in {p \in DOMAIN stages : RoleAbove(p, r)} |-> stages[q]]

Ready(w, op) == job[w].op = op /\ job[w].flow = Nothing /\ TypeExists(job[w].type)

Finish(w) == job' = [job EXCEPT ![w] = Idle]

CommitCreate(w) ==
  \E l \in Leaves :
    /\ Ready(w, "CREATE")
    /\ ~LeaveExists(l)
    /\ leaveType' = [leaveType EXCEPT ![l] = job[w].type]
    /\ route' = [route EXCEPT ![l] = Routed(job[w].stages, job[w].role)]
    /\ applicant' = [applicant EXCEPT ![l] = job[w].role]
    /\ Finish(w)
    /\ UNCHANGED <<policyVars, orphaned>>

(***************************************************************************)
(* An edit may change the type and regenerates the log as if an EMPLOYEE   *)
(* had applied, but an empty log is not written, and an unrouted leave has *)
(* no row to write it to.                                                  *)
(***************************************************************************)
CommitEdit(w) ==
  LET l == job[w].leave  new == Routed(job[w].stages, "EMPLOYEE") IN
  /\ Ready(w, "EDIT")
  /\ leaveType' = [leaveType EXCEPT ![l] = job[w].type]
  /\ route' = IF new = Unrouted \/ route[l] = Unrouted THEN route
              ELSE [route EXCEPT ![l] = new]
  /\ Finish(w)
  /\ UNCHANGED <<applicant, policyVars, orphaned>>

\* Refused, failed or given up: nothing was written.
Abort(w) ==
  /\ job[w] # Idle
  /\ Finish(w)
  /\ UNCHANGED <<policyVars, leaveVars, orphaned>>

Next ==
  \/ \E f \in Flows : CreateFlow(f) \/ UpdateFlow(f) \/ DeleteFlow(f)
  \/ \E t \in Types : CreateType(t) \/ UpdateType(t) \/ DeleteType(t)
  \/ CreateEmployee
  \/ \E w \in Workers :
       StartCreate(w) \/ StartEdit(w) \/ ReadFlow(w) \/ CommitCreate(w)
         \/ CommitEdit(w) \/ Abort(w)

Spec == Init /\ [][Next]_vars

-----------------------------------------------------------------------------
(***************************************************************************)
(* However administration and applications interleave: unless a flow was   *)
(* deleted while a leave type used it, every leave an employee or an       *)
(* intern applied for has a stage, so that somebody can decide it.  (A     *)
(* leave without a stage can only be cancelled, see UnroutedIsNeverDecided *)
(* of LeaveFlow.)                                                          *)
(***************************************************************************)
EmployeesAreRouted ==
  \A l \in Leaves :
    LeaveExists(l) /\ applicant[l] \in {"EMPLOYEE", "INTERN"} /\ route[l] = Unrouted
      => orphaned

(***************************************************************************)
(* However flows change under the leaves that copied them: a leave asks    *)
(* MANAGER before HR before ADMIN before SUPERADMIN, as                    *)
(* AllowToCreateLeaveApprovelFlow requires - unless the built-in flow,     *)
(* which nobody validated, routed it.                                      *)
(***************************************************************************)
RoutesFollowHierarchy ==
  \A l \in Leaves : route[l] # Unrouted =>
    \/ ValidFlow(route[l])
    \/ \E r \in Roles : route[l] = Routed(SystemStages, r)

(***************************************************************************)
(* Whatever is deleted, and whenever: the type of a leave, the type of a   *)
(* balance and the flow of a type are rows that exist.                     *)
(***************************************************************************)
ReferencesResolve ==
  /\ \A l \in Leaves : LeaveExists(l) => TypeExists(leaveType[l])
  /\ \A t \in allocated : TypeExists(t)
  /\ \A t \in Types : typeFlow[t] \in Flows => FlowExists(typeFlow[t])
=============================================================================
