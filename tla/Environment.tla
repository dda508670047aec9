----------------------------- MODULE Environment -----------------------------
(***************************************************************************)
(* What a redfirst session promises about the services of a project,       *)
(* whatever its scripts do and in whatever order it is used (the contract  *)
(* internal/harness states: "one environment: brought up once, torn down   *)
(* once", and "data left behind by the base run would decide the head      *)
(* run").                                                                  *)
(*                                                                         *)
(*  - services are started only when no earlier start is left unanswered   *)
(*    by an attempt to stop them;                                          *)
(*  - a test starts only on started services that hold no data of an       *)
(*    earlier test, and nothing touches the services while it runs;        *)
(*  - the session ends only when a stop was attempted after the last       *)
(*    start, and with the services down unless the caller was told;        *)
(*  - the session does end.                                                *)
(***************************************************************************)

VARIABLES
  service,   \* "down", "partial", "clean" or "dirty"
  owed,      \* the services were started and no stop was attempted since
  using,     \* a test is running against the services
  told,      \* some call has returned an error to the caller
  over       \* the session has ended

envVars == <<service, owed, using, told, over>>

EnvInit ==
  /\ service = "down" /\ ~owed
  /\ ~using /\ ~told /\ ~over

\* Any step may end a call, and a call may report an error.
MayReport == told' \in {told, TRUE}

Idle == ~using /\ ~over

Start ==
  /\ Idle /\ ~owed
  /\ owed' = TRUE
  /\ service' = "partial"
  /\ MayReport /\ UNCHANGED <<using, over>>

\* A start or a clean-up succeeded: usable services that hold no data.
BecomeClean ==
  /\ Idle /\ owed
  /\ service' = "clean"
  /\ MayReport /\ UNCHANGED <<owed, using, over>>

StartTest ==
  /\ Idle /\ owed /\ service = "clean"
  /\ service' = "dirty"
  /\ using' = TRUE
  /\ MayReport /\ UNCHANGED <<owed, over>>

EndTest ==
  /\ using
  /\ using' = FALSE
  /\ MayReport /\ UNCHANGED <<service, owed, over>>

\* A stop is attempted; it may get half way, or nowhere.
AttemptStop ==
  /\ Idle
  /\ owed' = FALSE
  /\ service' \in {service, "partial"}
  /\ MayReport /\ UNCHANGED <<using, over>>

Stopped ==
  /\ Idle /\ ~owed
  /\ service' = "down"
  /\ MayReport /\ UNCHANGED <<owed, using, over>>

Report ==
  /\ told' = TRUE
  /\ UNCHANGED <<service, owed, using, over>>

\* Nothing is left running behind the back of the caller.
End ==
  /\ Idle
  /\ over' = TRUE
  /\ owed' = FALSE
  /\ service' \in {service, "down"}
  /\ MayReport
  /\ service' = "down" \/ told'
  /\ UNCHANGED using

EnvNext ==
  \/ Start \/ BecomeClean \/ StartTest \/ EndTest
  \/ AttemptStop \/ Stopped \/ Report \/ End

EnvSafety == EnvInit /\ [][EnvNext]_envVars

(* Every behaviour of a session ends, and ends as End says.                *)
EnvSpec == EnvSafety /\ <>over

=============================================================================
