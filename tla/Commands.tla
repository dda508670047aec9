----------------------------- MODULE Commands ------------------------------
(***************************************************************************)
(* One run of the redfirst binary, whichever command it was called for     *)
(* (dispatch in cmd/redfirst/main.go), over a repository whose base branch *)
(* may move meanwhile.                                                     *)
(***************************************************************************)
EXTENDS Doctor, Audit

CONSTANTS
  Invocations  \* the runs of interest: [command, flags, tree, markers, order, suite]

ASSUME CommandsAssumption ==
  Invocations \subseteq [command : CommandNames, flags : Flags, tree : WorkTrees,
                         markers : Markers, order : Orders, suite : Suites]

vars == <<ruleVars, adoptionVars, doctorVars, auditVars>>

Init ==
  \E i \in Invocations :
    /\ RulesInit(i.command, i.flags) /\ AdoptionInit(i.tree, i.markers, i.order)
    /\ DoctorInit(i.suite) /\ AuditInit

TypeOK == RulesTypeOK /\ AdoptionTypeOK /\ DoctorTypeOK /\ AuditTypeOK

Next ==
  \/ RulesStep /\ UNCHANGED <<adoptionVars, doctorVars, auditVars>>
  \/ AdoptionStep /\ UNCHANGED <<doctorVars, auditVars>>
  \/ DoctorStep /\ UNCHANGED auditVars
  \/ AuditStep /\ UNCHANGED <<adoptionVars, doctorVars>>

Spec == Init /\ [][Next]_vars

=============================================================================
