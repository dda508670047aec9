----------------------------- MODULE JudgeProofs -----------------------------
(***************************************************************************)
(* Proofs about Verify, for every registry of known gates and every set of *)
(* configs, and about Judge: with the gates and the probe at work, a run   *)
(* is still one that Verify describes, so that everything proved of Verify *)
(* is true of it. The second proof carries the first one's invariant       *)
(* along, since it says where verify stands while a gate asks.             *)
(***************************************************************************)
EXTENDS Judge, TLAPS

-----------------------------------------------------------------------------
(* Verify.                                                                 *)

\* Where the walk stands in each of its phases.
Placed ==
  /\ at \in {"gate", "open", "inventory"} => pos \in Slots
  /\ at = "done" => pos = Len(Registry) + 1
  /\ at = "idle" => pos = 1 /\ failed = 0
  /\ cases => "hooks" \in caps
  /\ at # "idle" => "diff" \in caps

\* The lines written are those of the slots behind the walk, until it aborts.
Written ==
  \A i \in Slots : results[i] # "none" <=> at # "aborted" /\ i < pos

\* failed stands for the refusals among the lines.
Armed ==
  at # "aborted" =>
    /\ failed = 0 => \A i \in Slots : results[i] \notin Refusals \union {"cut"}
    /\ failed # 0 => failed < pos /\ results[failed] \in Refusals

\* A gate that drives the hooks is asked only while nothing was refused.
Unrefused == at = "gate" /\ Hooked(Registry[pos]) => failed = 0

\* While the environment comes up no line says that the names are missing.
NamesPending ==
  at \in {"open", "inventory"} =>
    /\ opened
    /\ \A i \in Slots :
         Registry[i] = "test-immutability" => results[i] # "unavailable"

WalkInv ==
  /\ RunnerTypeOK /\ Placed /\ Written /\ Armed /\ Unrefused /\ NamesPending
  /\ CutIffRefused /\ ImmutabilityJudges

\* What judge returns: an error for a walk that gave up, and beside a verdict
\* only that of a teardown, which no refusal gives way to.
Judged ==
  /\ at = "aborted" => err \in {2, 4} /\ ~leaked
  /\ at = "done" => err \in {0, 2}
  /\ err # 0 => ~Refused
  /\ leaked => Refused

\* What the process exits with, once the walk had begun.
Exits ==
  /\ session # "open"
  /\ \/ err # 0 /\ code = err
     \/ err = 0 /\ code \in {4, Outcome(results)}

Staged ==
  /\ code # -1 <=> stage = "exited"
  /\ stage = "prepare" => at = "idle"
  /\ at = "idle" =>
       stage \in {"prepare", "exited"} /\ session = "none" /\ code \in {-1, 2, 3, 4}
  /\ stage \in {"prepare", "judge"} => err = 0 /\ ~leaked
  /\ stage \in {"teardown", "report", "exited"} /\ at # "idle" =>
       at \in {"done", "aborted"} /\ Judged
  /\ stage = "teardown" => ~leaked /\ (at = "done" => err = 0)
  /\ stage = "report" => session # "open"
  /\ stage = "exited" /\ at # "idle" => Exits

IInv == TypeOK /\ WalkInv /\ Staged

-----------------------------------------------------------------------------
(* A step of the walk keeps WalkInv.                                       *)

LEMMA RegistryTyped ==
  /\ Len(Registry) \in Nat
  /\ \A i \in Slots : Registry[i] \in GateIDs
  BY RegistryAssumption DEF Slots

\* Whether a gate drives the hooks depends on no more than the mode and the hooks.
LEMMA HookedFrame ==
  ASSUME cases' = cases, "hooks" \in caps' <=> "hooks" \in caps, NEW g \in GateIDs
  PROVE  Hooked(g)' <=> Hooked(g)
  BY DEF Hooked, NeedsHooks, Requires

\* A line that is earned keeps the books: it is cut exactly where a gate that
\* drives the hooks follows a refusal, and says that the names are missing only
\* once the inventory is over.
LEMMA RecordKeeps ==
  ASSUME WalkInv, UNCHANGED <<options, caps, opened>>,
         at \in {"walk", "gate"}, pos \in Slots,
         NEW status \in Status \ {"none"}, Record(status),
         status = "cut" => failed # 0,
         Hooked(Registry[pos]) /\ Selected(Registry[pos]) /\ Registry[pos] \notin disabled
           => (status = "cut" <=> failed # 0),
         Registry[pos] = "test-immutability" /\ status = "unavailable"
           => opened /\ "case-names" \notin caps
  PROVE  WalkInv'
<1>0. /\ RunnerTypeOK /\ Placed /\ Written /\ Armed /\ Unrefused /\ NamesPending
      /\ CutIffRefused /\ ImmutabilityJudges
      /\ UNCHANGED <<only, disabled, lowered, cases, caps, opened>>
  BY DEF WalkInv, options
<1>a. /\ results' = [results EXCEPT ![pos] = status]
      /\ failed' = IF status \in Refusals /\ failed = 0 THEN pos ELSE failed
      /\ pos' = pos + 1 /\ at' = "walk"
  BY DEF Record
<1>b. /\ results \in [Slots -> Status]
      /\ failed \in 0..Len(Registry)
      /\ Len(Registry) \in Nat /\ pos \in 1..Len(Registry)
  BY <1>0, RegistryTyped DEF RunnerTypeOK, Slots
<1>c. /\ results' \in [Slots -> Status]
      /\ results'[pos] = status
      /\ \A i \in Slots : i # pos => results'[i] = results[i]
  BY <1>a, <1>b DEF Slots
<1>d. /\ pos' \in 1..(Len(Registry) + 1) /\ failed' \in 0..Len(Registry)
      /\ pos \in Slots /\ pos \in Int /\ \A i \in Slots : i \in Int /\ i > 0
  BY <1>a, <1>b DEF Slots
<1>1. RunnerTypeOK'
  BY <1>0, <1>a, <1>c, <1>d DEF RunnerTypeOK
<1>2. Placed'
  BY <1>0, <1>a DEF Placed
<1>3. Written'
  BY <1>0, <1>a, <1>c, <1>d DEF Written
<1>4. Armed'
  <2>1. CASE status \in Refusals /\ failed = 0
    BY <2>1, <1>a, <1>b, <1>c, <1>d DEF Armed
  <2>2. CASE ~(status \in Refusals /\ failed = 0) /\ failed = 0
    BY <2>2, <1>0, <1>a, <1>c DEF Armed
  <2>3. CASE failed # 0
    <3>1. failed < pos /\ results[failed] \in Refusals /\ failed \in Slots
      BY <2>3, <1>0, <1>b DEF Armed, Slots
    <3>2. QED BY <2>3, <3>1, <1>a, <1>b, <1>c, <1>d DEF Armed
  <2>4. QED BY <2>1, <2>2, <2>3
<1>5. Unrefused' /\ NamesPending'
  BY <1>a DEF Unrefused, NamesPending
<1>6. CutIffRefused'
  <2>1. \A g \in GateIDs : Hooked(g)' <=> Hooked(g)
    BY <1>0, HookedFrame
  <2> SUFFICES ASSUME NEW j \in Slots, results'[j] # "none", Hooked(Registry[j])',
                      Selected(Registry[j]), Registry[j] \notin disabled
               PROVE  results'[j] = "cut" <=> \E i \in 1..(j - 1) : results'[i] \in Refusals
    BY <1>0 DEF CutIffRefused, Selected
  <2>2. Hooked(Registry[j])
    BY <2>1, RegistryTyped
  <2>3. CASE j # pos
    <3>1. j < pos /\ results'[j] = results[j]
      BY <2>3, <1>0, <1>c DEF Written
    <3>2. \A i \in 1..(j - 1) : results'[i] = results[i]
      BY <3>1, <1>b, <1>c DEF Slots
    <3>3. QED BY <2>2, <3>1, <3>2, <1>0 DEF CutIffRefused
  <2>4. CASE j = pos
    <3>1. \A i \in 1..(j - 1) : i \in Slots /\ i # pos
      BY <2>4, <1>b DEF Slots
    <3>2. results'[j] = status /\ \A i \in 1..(j - 1) : results'[i] = results[i]
      BY <2>4, <3>1, <1>c
    <3>3. failed # 0 => failed \in 1..(j - 1) /\ results[failed] \in Refusals
      BY <2>4, <1>0, <1>b DEF Armed
    <3>4. failed = 0 => \A i \in 1..(j - 1) : results[i] \notin Refusals
      BY <3>1, <1>0 DEF Armed
    <3>5. QED BY <2>2, <2>4, <3>2, <3>3, <3>4
  <2>5. QED BY <2>3, <2>4
<1>7. ImmutabilityJudges'
  BY <1>0, <1>c DEF ImmutabilityJudges
<1>8. QED
  BY <1>1, <1>2, <1>3, <1>4, <1>5, <1>6, <1>7 DEF WalkInv

\* A step that writes no line and moves no slot keeps the books as they are.
LEMMA LinesKeep ==
  ASSUME WalkInv, UNCHANGED <<options, pos, failed, results>>,
         at # "aborted", at' # "aborted", at # "idle", at' # "idle",
         at' \in {"walk", "open", "inventory", "gate", "done"},
         caps' \in {caps, caps \union {"case-names"}}, opened' \in BOOLEAN,
         opened => opened'
  PROVE  /\ RunnerTypeOK' /\ Written' /\ Armed' /\ CutIffRefused'
         /\ cases' => "hooks" \in caps'
         /\ "diff" \in caps'
<1> USE DEF WalkInv, options
<1>1. RunnerTypeOK'
  BY DEF RunnerTypeOK, Capability
<1>2. Written' /\ Armed'
  BY DEF Written, Armed
<1>3. CutIffRefused'
  <2>1. \A g \in GateIDs : Hooked(g)' <=> Hooked(g)
    BY HookedFrame
  <2>2. QED BY <2>1, RegistryTyped DEF CutIffRefused, Selected
<1>4. QED BY <1>1, <1>2, <1>3 DEF Placed

\* A gate left out, cut off, unavailable or answering leaves an earned line.
LEMMA LinesAreEarned ==
  ASSUME WalkInv,
         NEW g \in GateIDs,
         \/ LeaveOut(g) \/ ShortCircuit(g) \/ Unavailable(g)
         \/ \E status \in Status : GateAnswers(status)
  PROVE  WalkInv'
<1>1. CASE LeaveOut(g)
  BY <1>1, RecordKeeps DEF LeaveOut, Asked, Status, Selected
<1>2. CASE ShortCircuit(g)
  BY <1>2, RecordKeeps DEF ShortCircuit, Live, Asked, Status
<1>3. CASE Unavailable(g)
  <2>1. Hooked(g) => failed = 0 /\ opened
    BY <1>3 DEF Unavailable, Settled
  <2>2. g = "test-immutability" => opened /\ "case-names" \notin caps
    <3>1. CASE cases
      <4> SUFFICES ASSUME g = "test-immutability"
                   PROVE  opened /\ "case-names" \notin caps
        OBVIOUS
      <4>1. Requires(g) = {"diff", "hooks", "case-names"}
        BY <3>1 DEF Requires
      <4>2. "hooks" \in caps /\ "diff" \in caps
        BY <3>1, <1>3 DEF WalkInv, Placed, Unavailable, Settled, Live, Asked
      <4>3. opened
        BY <4>1, <4>2, <2>1 DEF Hooked, NeedsHooks
      <4>4. \E need \in Requires(g) : need \notin caps
        BY <1>3 DEF Unavailable
      <4>5. QED BY <4>1, <4>2, <4>3, <4>4
    <3>2. CASE ~cases
      BY <3>2, <1>3 DEF WalkInv, Placed, Requires, Unavailable, Settled, Live, Asked
    <3>3. QED BY <3>1, <3>2
  <2>3. QED
    BY <1>3, <2>1, <2>2, RecordKeeps DEF Unavailable, Settled, Live, Asked, Status
<1>4. CASE \E status \in Status : GateAnswers(status)
  <2>1. PICK status \in Status : GateAnswers(status)
    BY <1>4
  <2>2. at = "gate" /\ pos \in Slots
    BY <2>1 DEF WalkInv, Placed, GateAnswers
  <2>3. status \in {"pass", "fail", "human", "warn", "skip"}
    BY <2>1 DEF GateAnswers, StatusesOf
  <2>4. ApplySeverity(Registry[pos], status) \in {"pass", "fail", "human", "warn", "skip"}
    BY <2>3 DEF ApplySeverity
  <2>5. Hooked(Registry[pos]) => failed = 0
    BY <2>2 DEF WalkInv, Unrefused
  <2>6. QED BY <2>1, <2>2, <2>4, <2>5, RecordKeeps DEF GateAnswers, Status, Refusals
<1>5. QED BY <1>1, <1>2, <1>3, <1>4

\* The steps that write no line: into the environment, into a gate and out.
LEMMA MovesKeep ==
  ASSUME WalkInv,
         NEW g \in GateIDs,
         \/ BringUp(g) \/ AskGate(g) \/ OpenSucceeds \/ Finish
         \/ \E named \in BOOLEAN : InventoryEnds(named)
  PROVE  WalkInv'
<1> USE DEF WalkInv
<1>1. CASE BringUp(g)
  <2>1. RunnerTypeOK' /\ Written' /\ Armed' /\ CutIffRefused' /\ (cases' => "hooks" \in caps')
        /\ "diff" \in caps'
    BY <1>1, LinesKeep DEF BringUp, Live, Asked
  <2>2. Placed' /\ Unrefused'
    BY <1>1, <2>1 DEF BringUp, Live, Asked, Placed, Unrefused
  <2>3. NamesPending' /\ ImmutabilityJudges'
    BY <1>1 DEF BringUp, NamesPending, ImmutabilityJudges
  <2>4. QED BY <2>1, <2>2, <2>3
<1>2. CASE AskGate(g)
  <2>1. RunnerTypeOK' /\ Written' /\ Armed' /\ CutIffRefused' /\ (cases' => "hooks" \in caps')
        /\ "diff" \in caps'
    BY <1>2, LinesKeep DEF AskGate, Settled, Live, Asked, RunnerTypeOK
  <2>2. Placed' /\ NamesPending' /\ ImmutabilityJudges'
    BY <1>2, <2>1 DEF AskGate, Settled, Live, Asked, Placed, NamesPending, ImmutabilityJudges
  <2>3. Unrefused'
    <3>1. Hooked(g)' <=> Hooked(g)
      BY <1>2, HookedFrame DEF AskGate, options
    <3>2. QED BY <1>2, <3>1 DEF AskGate, Settled, Live, Asked, Unrefused
  <2>4. QED BY <2>1, <2>2, <2>3
<1>3. CASE OpenSucceeds
  <2>1. RunnerTypeOK' /\ Written' /\ Armed' /\ CutIffRefused' /\ (cases' => "hooks" \in caps')
        /\ "diff" \in caps'
    BY <1>3, LinesKeep DEF OpenSucceeds, RunnerTypeOK
  <2>2. Placed' /\ Unrefused'
    BY <1>3, <2>1 DEF OpenSucceeds, Placed, Unrefused
  <2>3. NamesPending' /\ ImmutabilityJudges'
    BY <1>3 DEF OpenSucceeds, NamesPending, ImmutabilityJudges
  <2>4. QED BY <2>1, <2>2, <2>3
<1>4. CASE Finish
  <2>1. RunnerTypeOK' /\ Written' /\ Armed' /\ CutIffRefused' /\ (cases' => "hooks" \in caps')
        /\ "diff" \in caps'
    BY <1>4, LinesKeep DEF Finish, RunnerTypeOK
  <2>2. Placed' /\ Unrefused' /\ NamesPending' /\ ImmutabilityJudges'
    BY <1>4, <2>1 DEF Finish, Placed, Unrefused, NamesPending, ImmutabilityJudges
  <2>3. QED BY <2>1, <2>2
<1>5. CASE \E named \in BOOLEAN : InventoryEnds(named)
  <2>1. RunnerTypeOK' /\ Written' /\ Armed' /\ CutIffRefused' /\ (cases' => "hooks" \in caps')
        /\ "diff" \in caps'
    BY <1>5, LinesKeep DEF InventoryEnds, RunnerTypeOK
  <2>2. Placed' /\ Unrefused' /\ NamesPending'
    BY <1>5, <2>1 DEF InventoryEnds, Placed, Unrefused, NamesPending
  <2>3. ImmutabilityJudges'
    BY <1>5 DEF InventoryEnds, NamesPending, ImmutabilityJudges
  <2>4. QED BY <2>1, <2>2, <2>3
<1>6. QED BY <1>1, <1>2, <1>3, <1>4, <1>5

\* An aborted walk has no lines left to contradict.
LEMMA AbortKeeps ==
  ASSUME WalkInv, Abort
  PROVE  WalkInv'
<1> USE DEF WalkInv, Abort, options
<1>1. RunnerTypeOK'
  BY DEF RunnerTypeOK, Status
<1>2. Placed' /\ Written' /\ Armed'
  BY DEF Placed, Written, Armed
<1>3. Unrefused' /\ NamesPending' /\ CutIffRefused' /\ ImmutabilityJudges'
  BY DEF Unrefused, NamesPending, CutIffRefused, ImmutabilityJudges
<1>4. QED BY <1>1, <1>2, <1>3

LEMMA WalkKeeps ==
  ASSUME WalkInv, WalkStep
  PROVE  WalkInv'
  BY LinesAreEarned, MovesKeep, AbortKeeps DEF WalkStep, GateIDs, Static

-----------------------------------------------------------------------------
(* A step of the command keeps IInv.                                       *)

\* What the lines say of the diff: 0 exactly where none of them refuses.
LEMMA OutcomeOfLines ==
  /\ Outcome(results) \in {0, 1, 5}
  /\ Outcome(results) = 0 <=> \A i \in Slots : results[i] \notin Refusals
  /\ (\E i \in Slots : results[i] \in Refusals) =>
       Outcome(results) = IF \E i \in Slots : results[i] = "human" THEN 5 ELSE 1
  BY DEF Outcome, Refusals

LEMMA WalkFrame ==
  ASSUME WalkInv, UNCHANGED <<options, walk>>
  PROVE  WalkInv' /\ (Refused' <=> Refused) /\ Outcome(results)' = Outcome(results)
<1> USE DEF WalkInv, options, walk
<1>1. RunnerTypeOK' /\ Placed' /\ Written' /\ Armed' /\ NamesPending' /\ ImmutabilityJudges'
  BY DEF RunnerTypeOK, Placed, Written, Armed, NamesPending, ImmutabilityJudges
<1>2. Unrefused' /\ CutIffRefused'
  BY DEF Unrefused, CutIffRefused, Hooked, NeedsHooks, Requires, Selected
<1>3. QED BY <1>1, <1>2 DEF Refused, Outcome

LEMMA InitEstablishes == Init => IInv
<1> SUFFICES ASSUME Init PROVE IInv
  OBVIOUS
<1> USE RegistryTyped DEF Init, Unstarted
<1>1. RunnerTypeOK
  <2>1. results \in [Slots -> Status]
    BY DEF Status
  <2>2. pos \in 1..(Len(Registry) + 1) /\ failed \in 0..Len(Registry)
    OBVIOUS
  <2>3. cases \in BOOLEAN /\ opened \in BOOLEAN
    OBVIOUS
  <2>4. QED BY <2>1, <2>2, <2>3 DEF RunnerTypeOK
<1>2. TypeOK
  <2>1. leaked \in BOOLEAN
    OBVIOUS
  <2>2. QED BY <1>1, <2>1 DEF TypeOK, ExitCodes
<1>3. Placed /\ Written /\ Armed /\ Unrefused /\ NamesPending
  BY DEF Placed, Written, Armed, Unrefused, NamesPending, Slots, Refusals
<1>4. CutIffRefused /\ ImmutabilityJudges
  BY DEF CutIffRefused, ImmutabilityJudges
<1>5. Staged
  BY DEF Staged
<1>6. QED BY <1>1, <1>2, <1>3, <1>4, <1>5 DEF IInv, WalkInv

LEMMA PrepareKeeps ==
  ASSUME IInv, Prepare
  PROVE  IInv'
<1> USE DEF IInv, Prepare
<1>1. /\ at = "idle" /\ pos = 1 /\ failed = 0 /\ session = "none" /\ err = 0 /\ ~leaked
      /\ \A i \in Slots : results[i] = "none"
  <2>1. at = "idle" /\ pos = 1 /\ failed = 0 /\ session = "none" /\ err = 0 /\ ~leaked
    BY DEF Staged, WalkInv, Placed
  <2>2. QED BY <2>1 DEF WalkInv, Written, Slots
<1>2. /\ at' = "walk" /\ UNCHANGED <<pos, failed, opened, results>>
      /\ "diff" \in caps' /\ caps' \subseteq Capability
      /\ cases' \in BOOLEAN /\ (cases' => "hooks" \in caps')
  BY DEF Start, Capabilities, CasesMode, Capability
<1>3. only' \subseteq GateIDs /\ disabled' \subseteq GateIDs /\ lowered' \subseteq GateIDs
  BY ConfigsAssumption
<1>4. RunnerTypeOK'
  BY <1>2, <1>3 DEF TypeOK, RunnerTypeOK
<1>5. TypeOK'
  BY <1>4 DEF TypeOK
<1>6. WalkInv'
  BY <1>1, <1>2, <1>4
  DEF WalkInv, Placed, Written, Armed, Unrefused, NamesPending, CutIffRefused,
      ImmutabilityJudges, Refusals, Slots
<1>7. Staged'
  BY <1>1, <1>2 DEF Staged
<1>8. QED BY <1>5, <1>6, <1>7

LEMMA JudgeKeeps ==
  ASSUME IInv, Judge
  PROVE  IInv'
<1>1. WalkInv'
  BY WalkKeeps DEF IInv, Judge
<1>2. TypeOK'
  BY <1>1 DEF IInv, Judge, TypeOK, WalkInv
<1>3. at # "idle" /\ at' # "idle"
  <2>1. at # "idle"
    BY DEF IInv, Judge, Staged
  <2>2. QED
    BY <2>1 DEF Judge, WalkStep, LeaveOut, ShortCircuit, BringUp, Unavailable, AskGate,
      OpenSucceeds, InventoryEnds, GateAnswers, Abort, Finish, Record
<1>4. Staged'
  BY <1>3 DEF IInv, Judge, Staged
<1>5. QED BY <1>1, <1>2, <1>4 DEF IInv

\* The steps around the walk leave its books alone.
LEMMA AroundKeeps ==
  ASSUME IInv,
         \/ \E failure \in ExitCodes : PrepareFails(failure) \/ RunnerReturns(failure)
         \/ TeardownFails \/ TeardownSucceeds
         \/ \E written \in BOOLEAN : Exit(written)
  PROVE  IInv'
<1>0. UNCHANGED <<options, walk>>
  BY DEF PrepareFails, RunnerReturns, TeardownFails, TeardownSucceeds, Exit
<1>1. WalkInv' /\ (Refused' <=> Refused) /\ Outcome(results)' = Outcome(results) /\ at' = at
  BY <1>0, WalkFrame DEF IInv, walk
<1>2. TypeOK' /\ Staged'
  <2> USE <1>1 DEF IInv, TypeOK, Staged, Judged, ExitCodes
  <2>0. RunnerTypeOK'
    BY DEF WalkInv
  <2>1. CASE \E failure \in ExitCodes : PrepareFails(failure)
    BY <2>0, <2>1 DEF PrepareFails
  <2>2. CASE \E failure \in ExitCodes : RunnerReturns(failure)
    <3>1. /\ stage = "judge" /\ stage' = "teardown" /\ at \in {"done", "aborted"}
          /\ at = "aborted" => err' \in {2, 4}
          /\ at = "done" => err' = 0
          /\ UNCHANGED <<session, leaked, code>>
      BY <2>2 DEF RunnerReturns
    <3>2. QED BY <2>0, <3>1 DEF Refused
  <2>3. CASE TeardownFails
    <3>1. CASE err # 0 \/ ~Refused
      BY <2>0, <2>3, <3>1 DEF TeardownFails, Refused
    <3>2. CASE err = 0 /\ Refused
      <4>1. leaked' = TRUE /\ leaked' \in BOOLEAN
        BY <2>3, <3>2 DEF TeardownFails
      <4>2. QED BY <2>0, <2>3, <3>2, <4>1 DEF TeardownFails, Refused
    <3>3. QED BY <3>1, <3>2
  <2>4. CASE TeardownSucceeds
    BY <2>0, <2>4 DEF TeardownSucceeds
  <2>5. CASE \E written \in BOOLEAN : Exit(written)
    BY <2>0, <2>5, OutcomeOfLines DEF Exit, Exits
  <2>6. QED BY <2>1, <2>2, <2>3, <2>4, <2>5
<1>3. QED BY <1>1, <1>2 DEF IInv

LEMMA StepKeeps ==
  ASSUME IInv, [Next]_vars
  PROVE  IInv'
<1>1. CASE UNCHANGED vars
  <2>1. WalkInv' /\ (Refused' <=> Refused) /\ Outcome(results)' = Outcome(results)
    BY <1>1, WalkFrame DEF IInv, vars
  <2>2. QED BY <1>1, <2>1 DEF IInv, vars, walk, TypeOK, WalkInv, Staged, Judged, Exits
<1>2. CASE Next
  BY <1>1, <1>2, PrepareKeeps, JudgeKeeps, AroundKeeps DEF Next, Step, Around, Exited
<1>3. QED BY <1>1, <1>2

LEMMA IInvHolds == Spec => []IInv
<1>1. IInv /\ [Next]_vars => IInv'
  BY StepKeeps
<1>2. QED BY InitEstablishes, <1>1, PTL DEF Spec

-----------------------------------------------------------------------------
(* The properties of Verify.                                               *)

\* IInv implies each of the safety invariants.
LEMMA IInvImplies ==
  ASSUME IInv
  PROVE  /\ TypeOK /\ CutIffRefused /\ ImmutabilityJudges
         /\ NoVerdictWithoutAnswers /\ AcquittalIsEarned /\ RefusalOutlivesTeardown
<1> USE DEF IInv
<1>1. TypeOK /\ CutIffRefused /\ ImmutabilityJudges
  BY DEF WalkInv
<1>2. code \in {0, 1, 5} => /\ at = "done" /\ err = 0 /\ session # "open"
                           /\ code = Outcome(results) /\ (leaked => Refused)
  BY OutcomeOfLines DEF Staged, Judged, Exits
<1>3. NoVerdictWithoutAnswers
  <2>1. code \in {0, 1, 5} => \A i \in Slots : results[i] # "none"
    BY <1>2, RegistryTyped DEF WalkInv, Written, Placed, Slots
  <2>2. QED BY <1>2, <2>1 DEF NoVerdictWithoutAnswers
<1>4. AcquittalIsEarned
  <2> SUFFICES ASSUME code = 0
               PROVE  /\ err = 0 /\ ~leaked /\ session # "open"
                      /\ \A i \in Slots : results[i] \notin Refusals \union {"cut"}
    BY DEF AcquittalIsEarned
  <2>1. \A i \in Slots : results[i] \notin Refusals
    BY <1>2, OutcomeOfLines
  <2>2. failed = 0
    BY <1>2, <2>1, RegistryTyped DEF WalkInv, Armed, RunnerTypeOK, Slots
  <2>3. QED BY <1>2, <2>2 DEF WalkInv, Armed, Refused
<1>5. RefusalOutlivesTeardown
  <2> SUFFICES ASSUME code # -1, at = "done", \E i \in Slots : results[i] \in Refusals
               PROVE  code \in {4, IF \E i \in Slots : results[i] = "human" THEN 5 ELSE 1}
    BY DEF RefusalOutlivesTeardown
  <2>1. Refused
    BY OutcomeOfLines DEF Refused
  <2>2. err = 0 /\ code \in {4, Outcome(results)}
    BY <2>1 DEF Staged, Judged, Exits
  <2>3. QED BY <2>2, OutcomeOfLines
<1>6. QED BY <1>1, <1>3, <1>4, <1>5

\* Only BringUp opens the environment, and it does so before any refusal.
LEMMA OpensUnrefused ==
  ASSUME IInv, [Next]_vars, ~opened, opened'
  PROVE  \A i \in Slots : results[i] \notin Refusals
<1>1. \E g \in GateIDs : BringUp(g)
  BY DEF vars, walk, Next, Step, Around, Exited, PrepareFails, Prepare, Start, RunnerReturns,
     TeardownFails, TeardownSucceeds, Exit, Judge, WalkStep, LeaveOut, ShortCircuit,
     Unavailable, AskGate, OpenSucceeds, InventoryEnds, GateAnswers, Abort, Finish
<1>2. QED BY <1>1 DEF BringUp, Live, Asked, IInv, WalkInv, Armed

\* The state of a run keeps its types, whatever gates the registry lists.
THEOREM RunTyped == Spec => []TypeOK
<1>1. IInv => TypeOK
  BY IInvImplies
<1>2. QED BY IInvHolds, <1>1, PTL

\* A code about the diff is the code of a walk that ended.
THEOREM VerdictsHaveAnswers == Spec => []NoVerdictWithoutAnswers
<1>1. IInv => NoVerdictWithoutAnswers
  BY IInvImplies
<1>2. QED BY IInvHolds, <1>1, PTL

\* Exit code 0 is earned.
THEOREM AcquittalsAreEarned == Spec => []AcquittalIsEarned
<1>1. IInv => AcquittalIsEarned
  BY IInvImplies
<1>2. QED BY IInvHolds, <1>1, PTL

\* A refusal outlives the teardown.
THEOREM RefusalsOutliveTeardown == Spec => []RefusalOutlivesTeardown
<1>1. IInv => RefusalOutlivesTeardown
  BY IInvImplies
<1>2. QED BY IInvHolds, <1>1, PTL

\* The short-circuit cuts off what follows a refusal, and nothing else.
THEOREM CutsFollowRefusals == Spec => []CutIffRefused
<1>1. IInv => CutIffRefused
  BY IInvImplies
<1>2. QED BY IInvHolds, <1>1, PTL

\* No mode of test-immutability switches it off.
THEOREM ImmutabilityAlwaysJudges == Spec => []ImmutabilityJudges
<1>1. IInv => ImmutabilityJudges
  BY IInvImplies
<1>2. QED BY IInvHolds, <1>1, PTL

\* The environment is brought up only for a diff nothing has refused.
THEOREM EnvironmentIsLazy == Spec => LazyEnvironment
<1>1. IInv /\ [Next]_vars
      => [~opened /\ opened' => \A i \in Slots : results[i] \notin Refusals]_vars
  BY OpensUnrefused
<1>2. QED BY IInvHolds, <1>1, PTL DEF Spec, LazyEnvironment

-----------------------------------------------------------------------------
(* Judge.                                                                  *)

\* The runner is at work only between prepare and the teardown.
LEMMA WalkingIsJudging ==
  ASSUME IInv, at \in {"walk", "open", "inventory", "gate"}
  PROVE  stage = "judge"
  BY DEF IInv, Staged, TypeOK

\* What a gate concludes is one of the statuses.
LEMMA ConclusionsAreStatuses ==
  ASSUME NEW g, NEW after
  PROVE  Concludes(g, after) \subseteq Status
  BY DEF Concludes, SuiteGreenAnswers, RedGreenAnswers, ImmutabilityAnswers, Status, Refusals

\* Every step of a run with its gates is a step of verify or leaves it alone.
LEMMA StepsAreSteps ==
  ASSUME IInv, [JudgeNext]_judgeVars
  PROVE  [Next]_vars
<1>1. CASE Alone
  <2>1. CASE Around
    BY <2>1 DEF Next, Step
  <2>2. CASE /\ stage = "judge"
             /\ \E g \in GateIDs : LeaveOut(g) \/ ShortCircuit(g) \/ BringUp(g)
                                   \/ Unavailable(g) \/ AskGate(g)
             /\ UNCHANGED <<stage, session, err, leaked, code>>
    <3>1. at = "walk"
      BY <2>2 DEF LeaveOut, ShortCircuit, BringUp, Unavailable, AskGate, Settled, Live, Asked
    <3>2. QED BY <2>2, <3>1 DEF Next, Step, Judge, WalkStep
  <2>3. CASE /\ stage = "judge" /\ Finish
             /\ UNCHANGED <<stage, session, err, leaked, code>>
    BY <2>3 DEF Finish, Next, Step, Judge, WalkStep
  <2>4. CASE /\ stage = "judge" /\ at = "open"
             /\ \/ OpenSucceeds /\ session' = "open"
                \/ Abort /\ UNCHANGED session
             /\ UNCHANGED <<stage, err, leaked, code>>
    BY <2>4 DEF OpenSucceeds, Abort, Next, Step, Judge, WalkStep
  <2>5. QED BY <1>1, <2>1, <2>2, <2>3, <2>4 DEF Alone
<1>2. CASE AsksInventory \/ GateAsks \/ ProbeWorks
  BY <1>2 DEF AsksInventory, GateAsks, ProbeWorks, Calls
<1>3. CASE InventoryAnswered
  <2>1. stage = "judge"
    BY <1>3, WalkingIsJudging DEF InventoryAnswered
  <2>2. QED BY <1>3, <2>1 DEF InventoryAnswered, Next, Step, Judge, WalkStep
<1>4. CASE GateConcludes
  <2>1. stage = "judge" /\ at = "gate"
    BY <1>4, WalkingIsJudging DEF GateConcludes
  <2>2. \E status \in Status : GateAnswers(status)
    BY <1>4, ConclusionsAreStatuses DEF GateConcludes
  <2>3. QED BY <1>4, <2>1, <2>2 DEF GateConcludes, Next, Step, Judge, WalkStep
<1>5. CASE GivesUp
  <2>1. stage = "judge" /\ at \in {"inventory", "gate"}
    BY <1>5, WalkingIsJudging DEF GivesUp
  <2>2. QED BY <1>5, <2>1 DEF GivesUp, Abort, Next, Step, Judge, WalkStep
<1>6. CASE UNCHANGED judgeVars
  BY <1>6 DEF judgeVars
<1>7. QED
  BY <1>1, <1>2, <1>3, <1>4, <1>5, <1>6 DEF JudgeNext, JudgeStep

LEMMA JudgeKeepsIInv == JudgeSpec => []IInv
<1>1. JudgeInit => IInv
  BY InitEstablishes DEF JudgeInit
<1>2. IInv /\ [JudgeNext]_judgeVars => IInv'
  BY StepsAreSteps, StepKeeps
<1>3. QED BY <1>1, <1>2, PTL DEF JudgeSpec

\* With its gates and the probe at work, a run is one that Verify describes.
THEOREM JudgementsAreRuns == JudgeSpec => RunsAsVerify
<1>1. JudgeInit => Init
  BY DEF JudgeInit
<1>2. IInv /\ [JudgeNext]_judgeVars => [Next]_vars
  BY StepsAreSteps
<1>3. QED BY <1>1, <1>2, JudgeKeepsIInv, PTL DEF JudgeSpec, RunsAsVerify, Spec

\* So that what is proved of Verify is true of the composition.
THEOREM JudgementsAreSound ==
  JudgeSpec => /\ [](NoVerdictWithoutAnswers /\ AcquittalIsEarned /\ RefusalOutlivesTeardown)
               /\ [](CutIffRefused /\ ImmutabilityJudges)
               /\ LazyEnvironment
<1>1. JudgeSpec => Spec
  BY JudgementsAreRuns DEF RunsAsVerify
<1>2. QED
  BY <1>1, VerdictsHaveAnswers, AcquittalsAreEarned, RefusalsOutliveTeardown,
     CutsFollowRefusals, ImmutabilityAlwaysJudges, EnvironmentIsLazy, PTL

-----------------------------------------------------------------------------
(* The probe under the gates. PP is the probe with its proofs.             *)

PP == INSTANCE ProbeProofs

LEMMA ProbeIsSound == PP!ProbeAssumption /\ PP!DiffsAssumption
  BY JudgeAssumption
  DEF P!ProbeAssumption, PP!ProbeAssumption, P!Changes, PP!Changes,
    P!DiffsAssumption, PP!DiffsAssumption, P!AsListed, PP!AsListed,
    P!ShortLinks, PP!ShortLinks

LEMMA SameProbe ==
  /\ P!Init => PP!Init
  /\ [P!Next]_(P!vars) => [PP!Next]_(PP!vars)
<1>1. P!Init => PP!Init
  BY DEF P!Init, PP!Init, P!BaseTree, PP!BaseTree, P!NoCopy, PP!NoCopy, P!Ops, PP!Ops,
    P!Memoised, PP!Memoised, P!Copies, PP!Copies, P!Nothing, PP!Nothing
<1>2. [P!Next]_(P!vars) => [PP!Next]_(PP!vars)
  BY DEF
  P!Changes, PP!Changes, P!Memoised, PP!Memoised, P!Ops, PP!Ops, P!Copies, PP!Copies,
    P!Trees, PP!Trees, P!NoCopy, PP!NoCopy, P!BaseTree, PP!BaseTree, P!HeadTree,
    PP!HeadTree, P!TestSurface, PP!TestSurface, P!BasePath, PP!BasePath, P!HeadPath,
    PP!HeadPath, P!BasePaths, PP!BasePaths, P!HeadPaths, PP!HeadPaths, P!Removed,
    PP!Removed, P!Written, PP!Written, P!Nothing, PP!Nothing, P!Overlay, PP!Overlay, P!CopyOf, PP!CopyOf, P!TreeOf, PP!TreeOf, P!TreeNamed, PP!TreeNamed,
    P!Filtered, PP!Filtered, P!Filter, PP!Filter, P!Times, PP!Times, P!Idle, PP!Idle,
    P!Before, PP!Before, P!Within, PP!Within, P!NeedsLaying, PP!NeedsLaying, P!Ask,
    PP!Ask, P!Due, PP!Due, P!Settle, PP!Settle, P!Enter, PP!Enter, P!Ready, PP!Ready,
    P!Reuse, PP!Reuse, P!Lay, PP!Lay, P!LayFails, PP!LayFails, P!OverlayFile,
    PP!OverlayFile, P!OverlayFails, PP!OverlayFails, P!LastRun, PP!LastRun,
    P!RunAnswers, PP!RunAnswers, P!RunFails, PP!RunFails, P!Return, PP!Return, P!Work,
    PP!Work, P!Over, PP!Over, P!Next, PP!Next, P!vars, PP!vars
<1>3. QED BY <1>1, <1>2

LEMMA SameIdle == \A op : P!Idle(op) <=> PP!Idle(op)
  BY DEF P!Idle, PP!Idle, P!Filtered, PP!Filtered, P!Filter, PP!Filter, P!BasePaths,
    PP!BasePaths, P!HeadPaths, PP!HeadPaths, P!TestSurface, PP!TestSurface, P!BasePath,
    PP!BasePath, P!HeadPath, PP!HeadPath

\* The gates ask only what the probe can be asked, so its steps are its own.
LEMMA ProbeMoves ==
  ASSUME [JudgeNext]_judgeVars
  PROVE  [PP!Next]_(PP!vars)
<1>1. \A g, after : Follows(g, after) \subseteq P!Ops
  BY DEF Follows, SuiteGreenAsks, RedGreenAsks, ImmutabilityAsks, P!Ops, P!Memoised
<1>2. "inventory" \in P!Ops
  BY DEF P!Ops, P!Memoised
<1>3. CASE AsksInventory \/ GateAsks
  <2>1. \E op \in P!Ops : P!Ask(op)
    BY <1>1, <1>2, <1>3 DEF AsksInventory, GateAsks, Calls
  <2>2. QED BY <2>1, SameProbe DEF P!Next
<1>4. CASE ProbeWorks
  BY <1>4, SameProbe DEF ProbeWorks, P!Next
<1>5. CASE UNCHANGED probeVars
  BY <1>5 DEF probeVars, PP!vars
<1>6. QED
  BY <1>3, <1>4, <1>5 DEF JudgeNext, JudgeStep, Alone, InventoryAnswered, GateConcludes, GivesUp,
     judgeVars

\* In a whole run, whatever gates ask in whatever order and whatever fails, a run
\* of test.sh reads the tree its question is about, but at the paths where a link
\* was in the way of the overlay.
THEOREM GatesReadTheirTree ==
  ASSUME \A d \in Diffs : P!StaysInSurface(d)
  PROVE  JudgeSpec => []PP!ReadsItsTree
<1>1. JudgeInit => PP!Init
  BY SameProbe DEF JudgeInit
<1>2. [JudgeNext]_judgeVars => [PP!Next]_(PP!vars)
  BY ProbeMoves
<1>3. \A d \in Diffs : PP!StaysInSurface(d)
  BY DEF P!StaysInSurface, PP!StaysInSurface
<1>4. PP!Spec => []PP!ReadsItsTree
  BY <1>3, ProbeIsSound, PP!RunsReadTheirTree
<1>5. QED BY <1>1, <1>2, <1>4, PTL DEF JudgeSpec, PP!Spec

\* What a question at work says of where the walk stands.
Asking ==
  /\ lowered \intersect Executing = {}
  /\ at \in {"open", "inventory"} => failed = 0
  /\ at = "gate" /\ Gate \in Executing => Drives(Gate)
  /\ call # "none" => call = latest /\ at \in {"inventory", "gate"}
  /\ call # "none" /\ at = "inventory" => call = "inventory"
  /\ at = "gate" /\ latest = "baseSuite" => Gate = "suite-green"
  /\ at = "gate" /\ latest = "head" /\ Gate = "red-green" => ~PP!Idle("overlaid")
  /\ latest \in PP!Ops \union {"none"}

\* The latest question has its answer when the gate takes the word again.
Answered == Quiet /\ ~stopped /\ latest # "none" => memo[latest] = "ok"

JudgeInv == IInv /\ PP!PhaseInv /\ Asking /\ Answered

LEMMA JudgeInitEstablishes == JudgeInit => JudgeInv
<1> SUFFICES ASSUME JudgeInit PROVE JudgeInv
  OBVIOUS
<1>1. IInv
  BY InitEstablishes DEF JudgeInit
<1>2. PP!PhaseInv
  BY SameProbe, ProbeIsSound, PP!InitEstablishes DEF JudgeInit
<1>3. Asking /\ Answered
  BY DEF JudgeInit, Init, Unstarted, P!Init, Asking, Answered
<1>4. QED BY <1>1, <1>2, <1>3 DEF JudgeInv

LEMMA ProbeKept ==
  ASSUME JudgeInv, [JudgeNext]_judgeVars
  PROVE  IInv' /\ PP!PhaseInv'
<1>1. IInv'
  BY StepsAreSteps, StepKeeps DEF JudgeInv
<1>2. PP!PhaseInv'
  BY ProbeMoves, ProbeIsSound, PP!PhaseKeeps DEF JudgeInv
<1>3. QED BY <1>1, <1>2

\* The steps of verify and its runner, while no question is at work.
LEMMA AloneKeepsAsking ==
  ASSUME JudgeInv, Alone
  PROVE  Asking' /\ Answered'
<1> USE DEF JudgeInv, Asking, Quiet
<1>0. call = "none" /\ UNCHANGED probeVars /\ latest' \in {latest, "none"}
  BY DEF Alone
<1>1. Answered'
  BY <1>0 DEF Answered, probeVars
<1>2. (\A op : PP!Idle(op)' <=> PP!Idle(op)) /\ PP!Ops' = PP!Ops
  BY <1>0, PP!DiffFrame, ProbeIsSound DEF probeVars
<1>3. CASE Around /\ UNCHANGED latest
  <2>1. CASE Prepare
    <3>1. at' = "walk" /\ lowered' \intersect Executing = {}
      BY <2>1, ConfigsAssumption DEF Prepare, Start
    <3>2. QED BY <1>0, <1>1, <1>2, <1>3, <3>1 DEF probeVars
  <2>2. CASE UNCHANGED <<options, walk>>
    <3>1. UNCHANGED <<at, pos, failed, lowered, latest, call>> /\ Gate' = Gate
      BY <1>0, <1>3, <2>2 DEF probeVars, options, walk, Gate
    <3>2. Drives(Gate)' <=> Drives(Gate)
      BY <2>2, <3>1 DEF options, walk, Drives, NeedsHooks, Requires
    <3>3. QED BY <1>1, <1>2, <3>1, <3>2
  <2>3. QED
    BY <1>3, <2>1, <2>2 DEF Around, PrepareFails, RunnerReturns, TeardownFails, TeardownSucceeds, Exit
<1>4. CASE /\ \E g \in GateIDs : LeaveOut(g) \/ ShortCircuit(g) \/ BringUp(g)
                                 \/ Unavailable(g) \/ AskGate(g)
           /\ latest' = "none"
  <2>1. PICK g \in GateIDs : LeaveOut(g) \/ ShortCircuit(g) \/ BringUp(g)
                           \/ Unavailable(g) \/ AskGate(g)
    BY <1>4
  <2>2. CASE LeaveOut(g) \/ ShortCircuit(g) \/ BringUp(g) \/ Unavailable(g)
    BY <1>0, <1>1, <1>2, <1>4, <2>2 DEF LeaveOut, ShortCircuit, BringUp, Unavailable, Record, Live, probeVars, options
  <2>3. CASE AskGate(g)
    <3>1. g \in Executing => Drives(g)'
      BY <2>3 DEF AskGate, options, Requires, Drives, NeedsHooks, Executing
    <3>2. QED
      BY <1>0, <1>1, <1>2, <1>4, <2>3, <3>1 DEF AskGate, Settled, Live, Asked, Gate, probeVars, options
  <2>4. QED BY <2>1, <2>2, <2>3
<1>5. CASE Finish \/ (at = "open" /\ (OpenSucceeds \/ Abort))
  BY <1>0, <1>1, <1>2, <1>5 DEF Finish, OpenSucceeds, Abort, probeVars, options
<1>6. QED BY <1>3, <1>4, <1>5 DEF Alone

\* A question is the walk's own, or one its gate may ask by now.
LEMMA CallsKeepAsking ==
  ASSUME JudgeInv, AsksInventory \/ GateAsks
  PROVE  Asking' /\ Answered'
<1> USE DEF JudgeInv, Asking
<1>1. PICK op : /\ Calls(op)
                /\ \/ at = "inventory" /\ op = "inventory"
                   \/ at = "gate" /\ op \in Follows(Gate, latest)
  BY DEF AsksInventory, GateAsks
<1>2. /\ call' = op /\ latest' = op /\ op \in PP!Ops /\ diff' = diff
      /\ UNCHANGED vars
  BY <1>1 DEF Calls, P!Ask, Follows, SuiteGreenAsks, RedGreenAsks, ImmutabilityAsks, PP!Ops, PP!Memoised
<1>3. (\A o : PP!Idle(o)' <=> PP!Idle(o)) /\ PP!Ops' = PP!Ops
  BY <1>2, PP!DiffFrame, ProbeIsSound
<1>4. op # "none"
  BY <1>2 DEF PP!Ops, PP!Memoised
<1>5. at = "gate" /\ op = "baseSuite" => Gate = "suite-green"
  BY <1>1 DEF Follows, RedGreenAsks, ImmutabilityAsks
<1>6. at = "gate" /\ op = "head" /\ Gate = "red-green" => ~PP!Idle("overlaid")
  BY <1>1, SameIdle DEF Follows, RedGreenAsks
<1>7. Asking'
  BY <1>1, <1>2, <1>3, <1>5, <1>6 DEF vars, options, walk, Gate, Drives, NeedsHooks, Requires
<1>8. Answered'
  BY <1>2, <1>4 DEF Answered, Quiet
<1>9. QED BY <1>7, <1>8

LEMMA ProbeKeepsAsking ==
  ASSUME JudgeInv, ProbeWorks
  PROVE  Asking' /\ Answered'
<1> USE DEF JudgeInv, Asking
<1>1. call # "none" /\ P!Work /\ UNCHANGED <<vars, latest, diff>>
  BY DEF ProbeWorks, P!Work, P!Settle, P!Reuse, P!Lay, P!LayFails, P!OverlayFile, P!OverlayFails,
     P!RunAnswers, P!RunFails, P!Return
<1>2. call' = call \/ P!Return
  BY <1>1 DEF P!Work, P!Settle, P!Reuse, P!Lay, P!LayFails, P!OverlayFile, P!OverlayFails,
     P!RunAnswers, P!RunFails
<1>3. call' \in {call, "none"}
  BY <1>2 DEF P!Return
<1>4. (\A o : PP!Idle(o)' <=> PP!Idle(o)) /\ PP!Ops' = PP!Ops
  BY <1>1, PP!DiffFrame, ProbeIsSound
<1>5. Asking'
  BY <1>1, <1>3, <1>4 DEF vars, options, walk, Gate, Drives, NeedsHooks, Requires
<1>6. Answered'
  <2>1. CASE call' = call
    BY <1>1, <2>1 DEF Answered, Quiet
  <2>2. CASE P!Return
    <3>1. memo[call] \in {"unasked", "ok", "err"}
      BY <1>1 DEF PP!PhaseInv, PP!TypeOK
    <3>2. QED BY <1>1, <2>2, <3>1 DEF P!Return, Answered, Quiet
  <2>3. QED BY <1>2, <2>1, <2>2
<1>7. QED BY <1>5, <1>6

\* The gate or the inventory is done with its questions.
LEMMA ConclusionsKeepAsking ==
  ASSUME JudgeInv, InventoryAnswered \/ GateConcludes \/ GivesUp
  PROVE  Asking' /\ Answered'
<1> USE DEF JudgeInv, Asking
<1>1. call = "none" /\ UNCHANGED <<probeVars, latest, options>> /\ at' \in {"walk", "aborted"}
  BY DEF InventoryAnswered, GateConcludes, GivesUp, Quiet, InventoryEnds, GateAnswers, Record, Abort
<1>2. Answered'
  BY <1>1 DEF Answered, Quiet, probeVars
<1>3. PP!Ops' = PP!Ops
  BY DEF PP!Ops, PP!Memoised
<1>4. QED BY <1>1, <1>2, <1>3 DEF probeVars, options

LEMMA JudgeInvKept ==
  ASSUME JudgeInv, [JudgeNext]_judgeVars
  PROVE  JudgeInv'
<1>1. IInv' /\ PP!PhaseInv'
  BY ProbeKept
<1>2. Asking' /\ Answered'
  <2>1. CASE UNCHANGED judgeVars
    <3>1. UNCHANGED <<probeVars, latest, options, walk>>
      BY <2>1 DEF judgeVars, vars
    <3>2. (\A o : PP!Idle(o)' <=> PP!Idle(o)) /\ PP!Ops' = PP!Ops
      BY <3>1, PP!DiffFrame, ProbeIsSound DEF probeVars
    <3>3. QED
      BY <3>1, <3>2 DEF JudgeInv, Asking, Answered, Quiet, probeVars, options, walk, Gate, Drives,
        NeedsHooks, Requires
  <2>2. QED
    BY <2>1, AloneKeepsAsking, CallsKeepAsking, ProbeKeepsAsking, ConclusionsKeepAsking
    DEF JudgeNext, JudgeStep
<1>3. QED BY <1>1, <1>2 DEF JudgeInv

LEMMA JudgeInvHolds == JudgeSpec => []JudgeInv
<1>1. JudgeInv /\ [JudgeNext]_judgeVars => JudgeInv'
  BY JudgeInvKept
<1>2. QED BY JudgeInitEstablishes, <1>1, PTL DEF JudgeSpec

-----------------------------------------------------------------------------
(* What a pass of red-green rests on.                                      *)

\* How often an answered question was put to the suite.
LEMMA RunsOfAnswers ==
  ASSUME JudgeInv
  PROVE  /\ \A op \in {"overlaid", "head"} : ran[op] \in Nat /\ ran[op] <= ProbeRuns
         /\ memo["head"] = "ok" /\ ~PP!Idle("overlaid") =>
              ran["overlaid"] = ProbeRuns /\ ran["head"] = ProbeRuns
<1> USE DEF JudgeInv, PP!PhaseInv
<1>1. {"overlaid", "head"} \subseteq PP!Memoised /\ PP!Memoised \subseteq PP!Ops
  BY DEF PP!Memoised, PP!Ops
<1>2. \A op \in {"overlaid", "head"} : PP!Times(op) = ProbeRuns
  BY DEF PP!Times
<1>3. PP!Idle("head") <=> PP!Idle("overlaid")
  BY DEF PP!Idle, PP!Filtered, PP!Filter
<1>4. memo["head"] = "ok" => memo["overlaid"] = "ok"
  BY <1>1 DEF PP!Chained, PP!Before
<1>5. QED BY <1>1, <1>2, <1>3, <1>4 DEF PP!Counts, PP!TypeOK

\* Runs are only ever added to.
LEMMA RunsGrow ==
  ASSUME JudgeInv, [JudgeNext]_judgeVars, NEW op \in {"overlaid", "head"}
  PROVE  ran'[op] >= ran[op]
<1>1. [PP!Next]_(PP!vars)
  BY ProbeMoves
<1>2. ran[op] \in Nat /\ op \in PP!Ops /\ ran \in [PP!Ops -> Nat]
  BY DEF JudgeInv, PP!PhaseInv, PP!TypeOK, PP!Ops, PP!Memoised
<1>3. CASE PP!RunAnswers
  BY <1>2, <1>3 DEF PP!RunAnswers
<1>4. CASE UNCHANGED ran
  BY <1>2, <1>4
<1>5. QED
  BY <1>1, <1>3, <1>4
  DEF PP!Next, PP!vars, PP!Over, PP!Ask, PP!Work, PP!Settle, PP!Reuse, PP!Lay, PP!LayFails,
      PP!OverlayFile, PP!OverlayFails, PP!RunFails, PP!Return

\* A new pass of red-green is the answer of the gate, and it has asked head.
LEMMA PassIsTheGates ==
  ASSUME JudgeInv, [JudgeNext]_judgeVars, NEW i \in Slots,
         Registry[i] = "red-green", results'[i] = "pass", results[i] # "pass"
  PROVE  memo["head"] = "ok" /\ ~PP!Idle("overlaid")
<1> USE DEF JudgeInv, Asking
<1>0. results \in [Slots -> Status]
  BY DEF IInv, WalkInv, RunnerTypeOK
<1>1. CASE GateConcludes
  <2>1. PICK status \in IF Drives(Gate) THEN Concludes(Gate, latest) ELSE Status :
          GateAnswers(status)
    BY <1>1 DEF GateConcludes
  <2>2. pos = i /\ ApplySeverity("red-green", status) = "pass"
    BY <1>0, <2>1 DEF GateAnswers, Record
  <2>3. status = "pass" /\ Gate = "red-green" /\ at = "gate"
    BY <2>1, <2>2 DEF ApplySeverity, GateAnswers, Gate
  <2>4. Drives(Gate)
    BY <2>3 DEF Executing
  <2>5. status \in RedGreenAnswers(latest, InventoryNamed)
    BY <2>1, <2>3, <2>4 DEF Concludes
  <2>6. latest = "head"
    BY <2>3, <2>5 DEF RedGreenAnswers
  <2>7. QED BY <1>1, <2>3, <2>6 DEF GateConcludes, Answered
<1>2. CASE ~GateConcludes
  <2>1. results'[i] \in {results[i], "none", "skip", "cut", "unavailable"}
    BY <1>0, <1>2
    DEF JudgeNext, JudgeStep, Alone, AsksInventory, GateAsks, ProbeWorks, InventoryAnswered, GivesUp,
        Calls, judgeVars, vars, walk, Around, PrepareFails, Prepare, Start, RunnerReturns,
        TeardownFails, TeardownSucceeds, Exit, LeaveOut, ShortCircuit, BringUp, Unavailable,
        AskGate, OpenSucceeds, InventoryEnds, Abort, Finish, Record
  <2>2. QED BY <2>1
<1>3. QED BY <1>1, <1>2

\* A pass of red-green rests on all its runs on base and all its runs on head.
THEOREM PassesRestOnBothProbes == JudgeSpec => []PassRestsOnBothProbes
<1>1. JudgeInit => PassRestsOnBothProbes
  BY DEF JudgeInit, Init, Unstarted, PassRestsOnBothProbes
<1>2. ASSUME JudgeInv, JudgeInv', PassRestsOnBothProbes, [JudgeNext]_judgeVars
      PROVE  PassRestsOnBothProbes'
  <2> SUFFICES ASSUME NEW i \in Slots, Registry[i] = "red-green", results'[i] = "pass"
               PROVE  ran'["overlaid"] = ProbeRuns /\ ran'["head"] = ProbeRuns
    BY DEF PassRestsOnBothProbes
  <2>1. ran["overlaid"] = ProbeRuns /\ ran["head"] = ProbeRuns
    BY <1>2, PassIsTheGates, RunsOfAnswers DEF PassRestsOnBothProbes
  <2>2. \A op \in {"overlaid", "head"} : ran'[op] \in Nat /\ ran'[op] <= ProbeRuns
    <3>1. ((\A op \in {"overlaid", "head"} : ran[op] \in Nat /\ ran[op] <= ProbeRuns))'
      BY <1>2, RunsOfAnswers, PTL
    <3>2. QED BY <3>1
  <2>3. \A op \in {"overlaid", "head"} : ran'[op] >= ran[op]
    BY <1>2, RunsGrow
  <2>4. ProbeRuns \in Nat
    BY JudgeAssumption DEF P!ProbeAssumption
  <2>5. QED BY <2>1, <2>2, <2>3, <2>4
<1>3. QED BY <1>1, <1>2, JudgeInvHolds, PTL DEF JudgeSpec

-----------------------------------------------------------------------------
(* The suite on base is the last run.                                      *)

\* Once the suite ran on base its answer is at hand, and either suite-green
\* still has the word or nothing that drives the hooks will have it again.
LastWord ==
  ran["baseSuite"] > 0 =>
    /\ memo["baseSuite"] = "ok"
    /\ \/ /\ at = "gate" /\ Gate = "suite-green"
          /\ latest = "baseSuite" /\ call \in {"none", "baseSuite"}
       \/ call = "none" /\ (failed # 0 \/ at \in {"done", "aborted"})

LEMMA BaseSuiteTyped ==
  ASSUME JudgeInv
  PROVE  /\ "baseSuite" \in PP!Ops /\ ran["baseSuite"] \in Nat /\ ran \in [PP!Ops -> Nat]
         /\ memo["baseSuite"] = "unasked" /\ ran["baseSuite"] > 0 => FALSE
         /\ doing # "none" => doing \in PP!Within(call) /\ memo[doing] = "unasked"
<1> USE DEF JudgeInv, PP!PhaseInv
<1>1. "baseSuite" \in PP!Memoised /\ "baseSuite" \in PP!Ops /\ PP!Times("baseSuite") = 1
  BY DEF PP!Memoised, PP!Ops, PP!Times
<1>2. ran["baseSuite"] \in Nat /\ ran \in [PP!Ops -> Nat]
  BY <1>1 DEF PP!TypeOK
<1>3. doing # "none" => doing \in PP!Within(call) /\ memo[doing] = "unasked" /\ left > 0
  BY DEF PP!Phase
<1>4. memo["baseSuite"] = "unasked" /\ ran["baseSuite"] > 0 => FALSE
  <2>1. left \in Nat
    BY ProbeIsSound DEF PP!TypeOK, PP!ProbeAssumption
  <2>2. QED BY <1>1, <1>2, <1>3, <2>1 DEF PP!Counts
<1>5. QED BY <1>1, <1>2, <1>3, <1>4

\* The suite on base is asked for by suite-green alone, and no phase comes before it.
LEMMA BaseSuiteAlone ==
  ASSUME JudgeInv, LastWord, ran["baseSuite"] > 0
  PROVE  doing = "none" /\ \A op \in PP!Ops : ~PP!Due(op)
<1>1. call \in {"none", "baseSuite"} /\ memo["baseSuite"] = "ok"
  BY DEF LastWord
<1>2. PP!Within("baseSuite") = {"baseSuite"}
  BY DEF PP!Within, PP!Before
<1>3. doing = "none"
  <2>1. CASE call = "baseSuite"
    BY <1>1, <1>2, <2>1, BaseSuiteTyped
  <2>2. CASE call = "none"
    BY <2>2 DEF JudgeInv, PP!PhaseInv, PP!Phase
  <2>3. QED BY <1>1, <2>1, <2>2
<1>4. QED BY <1>1, <1>2, <1>3 DEF PP!Due

\* No run follows a run of the suite on base.
LEMMA NoRunFollows ==
  ASSUME JudgeInv, LastWord, ran["baseSuite"] > 0, [JudgeNext]_judgeVars
  PROVE  ran' = ran
<1>1. [PP!Next]_(PP!vars)
  BY ProbeMoves
<1>2. ~PP!RunAnswers
  BY BaseSuiteAlone DEF PP!RunAnswers
<1>3. QED
  BY <1>1, <1>2
  DEF PP!Next, PP!vars, PP!Over, PP!Ask, PP!Work, PP!Settle, PP!Reuse, PP!Lay, PP!LayFails,
      PP!OverlayFile, PP!OverlayFails, PP!RunFails, PP!Return

\* The first run of the suite on base is asked for by suite-green, and is its answer.
LEMMA BaseSuiteBegins ==
  ASSUME JudgeInv, [JudgeNext]_judgeVars, ran["baseSuite"] = 0, ran'["baseSuite"] > 0
  PROVE  LastWord'
<1> USE DEF JudgeInv, Asking
<1>1. [PP!Next]_(PP!vars)
  BY ProbeMoves
<1>2. PP!RunAnswers
  BY <1>1
  DEF PP!Next, PP!vars, PP!Over, PP!Ask, PP!Work, PP!Settle, PP!Reuse, PP!Lay, PP!LayFails,
      PP!OverlayFile, PP!OverlayFails, PP!RunFails, PP!Return
<1>3. doing = "baseSuite"
  BY <1>2, BaseSuiteTyped DEF PP!RunAnswers
<1>4. call = "baseSuite"
  BY <1>3, BaseSuiteTyped DEF PP!Within, PP!Before, PP!PhaseInv, PP!TypeOK, PP!Ops, PP!Memoised
<1>5. at = "gate" /\ Gate = "suite-green" /\ latest = "baseSuite"
  BY <1>4
<1>6. UNCHANGED <<vars, latest, call>>
  <2>1. ProbeWorks
    BY <1>2, <1>3, <1>4 DEF JudgeNext, JudgeStep, Alone, AsksInventory, GateAsks, InventoryAnswered, GateConcludes,
      GivesUp, Calls, P!Ask, Quiet, judgeVars, probeVars
  <2>2. QED BY <1>2, <2>1 DEF ProbeWorks, PP!RunAnswers
<1>7. memo'["baseSuite"] = "ok"
  <2>1. left = 1
    <3>1. left \in Nat
      BY ProbeIsSound DEF PP!PhaseInv, PP!TypeOK, PP!ProbeAssumption
    <3>2. memo["baseSuite"] = "unasked"
      BY <1>3, BaseSuiteTyped
    <3>3. QED BY <1>3, <3>1, <3>2 DEF PP!PhaseInv, PP!Counts, PP!Times, PP!Memoised
  <2>2. QED BY <1>2, <1>3, <2>1, BaseSuiteTyped DEF PP!RunAnswers, PP!LastRun, PP!PhaseInv, PP!TypeOK
<1>8. QED BY <1>4, <1>5, <1>6, <1>7 DEF LastWord, vars, walk, Gate

\* A phase that is over keeps its answer while no other begins.
LEMMA BaseAnswerStays ==
  ASSUME JudgeInv, LastWord, ran["baseSuite"] > 0, [JudgeNext]_judgeVars
  PROVE  memo'["baseSuite"] = "ok"
<1>1. [PP!Next]_(PP!vars)
  BY ProbeMoves
<1>2. memo["baseSuite"] = "ok" /\ doing = "none" /\ \A op \in PP!Ops : ~PP!Due(op)
  BY BaseSuiteAlone DEF LastWord
<1>3. CASE \E op \in PP!Ops : PP!Ask(op)
  BY <1>2, <1>3, BaseSuiteTyped DEF PP!Ask, JudgeInv, PP!PhaseInv, PP!TypeOK
<1>4. CASE UNCHANGED memo
  BY <1>2, <1>4
<1>5. QED
  BY <1>1, <1>2, <1>3, <1>4
  DEF PP!Next, PP!vars, PP!Over, PP!Work, PP!Settle, PP!Reuse, PP!Lay, PP!LayFails, PP!Ready,
      PP!OverlayFile, PP!OverlayFails, PP!RunAnswers, PP!RunFails, PP!Return

\* After the suite on base suite-green refuses with effect, or gives up.
LEMMA LastWordKept ==
  ASSUME JudgeInv, LastWord, [JudgeNext]_judgeVars
  PROVE  LastWord'
<1> USE DEF JudgeInv, Asking
<1>0. CASE ran["baseSuite"] = 0
  BY <1>0, BaseSuiteBegins DEF LastWord
<1>1. CASE ran["baseSuite"] > 0
  <2>0. memo'["baseSuite"] = "ok"
    BY <1>1, BaseAnswerStays
  <2>1. CASE at = "gate" /\ Gate = "suite-green" /\ latest = "baseSuite"
             /\ call \in {"none", "baseSuite"}
    <3>1. Drives(Gate) /\ stage = "judge"
      BY <2>1, WalkingIsJudging DEF Executing
    <3>2. CASE GateConcludes
      <4>1. PICK status \in SuiteGreenAnswers(latest) : GateAnswers(status)
        BY <2>1, <3>1, <3>2 DEF GateConcludes, Concludes
      <4>2. status = "fail" /\ ApplySeverity(Registry[pos], status) = "fail"
        BY <2>1, <4>1 DEF SuiteGreenAnswers, ApplySeverity, Gate, Executing
      <4>3. failed' # 0
        <5>1. pos # 0
          BY <2>1, RegistryTyped DEF IInv, WalkInv, Placed, Slots
        <5>2. QED BY <4>1, <4>2, <5>1 DEF GateAnswers, Record, Refusals
      <4>4. QED BY <2>0, <3>2, <4>3 DEF LastWord, GateConcludes, Quiet, probeVars
    <3>3. CASE GivesUp
      BY <2>0, <3>3 DEF LastWord, GivesUp, Quiet, Abort, probeVars
    <3>4. CASE ProbeWorks
      <4>1. call' \in {call, "none"} /\ UNCHANGED <<vars, latest>>
        BY <3>4 DEF ProbeWorks, P!Work, P!Settle, P!Reuse, P!Lay, P!LayFails, P!OverlayFile,
          P!OverlayFails, P!RunAnswers, P!RunFails, P!Return
      <4>2. QED BY <2>0, <2>1, <4>1 DEF LastWord, vars, walk, Gate
    <3>5. CASE UNCHANGED judgeVars
      BY <2>0, <2>1, <3>5 DEF LastWord, judgeVars, probeVars, vars, walk, Gate
    <3>6. ~Alone /\ ~AsksInventory /\ ~GateAsks /\ ~InventoryAnswered
      <4>1. ~GateAsks
        BY <2>1 DEF GateAsks, Follows, SuiteGreenAsks
      <4>2. ~AsksInventory /\ ~InventoryAnswered
        BY <2>1 DEF AsksInventory, InventoryAnswered
      <4>3. ~Alone
        BY <2>1, <3>1 DEF Alone, Around, PrepareFails, Prepare, RunnerReturns, TeardownFails,
          TeardownSucceeds, Exit, LeaveOut, ShortCircuit, BringUp, Unavailable, AskGate,
          Settled, Live, Asked, Finish
      <4>4. QED BY <4>1, <4>2, <4>3
    <3>7. QED
      BY <3>2, <3>3, <3>4, <3>5, <3>6 DEF JudgeNext, JudgeStep
  <2>2. CASE call = "none" /\ (failed # 0 \/ at \in {"done", "aborted"})
    <3>1. failed # 0 \/ at \in {"done", "aborted"} => at \notin {"open", "inventory"}
      OBVIOUS
    <3>2. ~GateAsks
      <4>1. at = "gate" => pos \in Slots
        BY DEF IInv, WalkInv, Placed
      <4>2. QED BY <2>2, <4>1 DEF GateAsks, Drives, IInv, WalkInv, Unrefused, Hooked, Gate
    <3>3. UNCHANGED call
      BY <2>2, <3>1, <3>2 DEF JudgeNext, JudgeStep, Alone, AsksInventory, ProbeWorks,
        InventoryAnswered, GateConcludes, GivesUp, judgeVars, probeVars
    <3>4. failed # 0 => failed' # 0
      BY <3>1, <3>2 DEF JudgeNext, JudgeStep, Alone, AsksInventory, ProbeWorks, GateConcludes,
        InventoryAnswered, InventoryEnds, GivesUp, Calls, judgeVars, vars, walk,
        Around, PrepareFails, Prepare, Start, RunnerReturns, TeardownFails, TeardownSucceeds, Exit,
        LeaveOut, ShortCircuit, BringUp, Unavailable, AskGate, OpenSucceeds, GateAnswers, Abort,
        Finish, Record
    <3>5. at \in {"done", "aborted"} => at' = at
      BY <2>2, <3>2 DEF IInv, Staged, JudgeNext, JudgeStep, Alone, AsksInventory, ProbeWorks,
        GateConcludes, InventoryAnswered, GivesUp, Calls, judgeVars, vars, walk,
        Around, PrepareFails, Prepare, Start, RunnerReturns, TeardownFails, TeardownSucceeds, Exit,
        LeaveOut, ShortCircuit, BringUp, Unavailable, AskGate, Settled, Live, Asked, Finish
    <3>6. QED BY <2>0, <2>2, <3>3, <3>4, <3>5 DEF LastWord
  <2>3. QED BY <1>1, <2>1, <2>2 DEF LastWord
<1>2. ran["baseSuite"] = 0 \/ ran["baseSuite"] > 0
  BY BaseSuiteTyped
<1>3. QED BY <1>0, <1>1, <1>2

\* The suite on base is the last resort and the last run of the whole run.
THEOREM BaseSuiteComesLast == JudgeSpec => BaseSuiteIsLast
<1>1. JudgeInit => LastWord
  <2>1. "baseSuite" \in P!Ops
    BY DEF P!Ops, P!Memoised
  <2>2. QED BY <2>1 DEF JudgeInit, P!Init, LastWord
<1>2. JudgeInv /\ LastWord /\ [JudgeNext]_judgeVars => LastWord'
  BY LastWordKept
<1>3. JudgeInv /\ LastWord /\ [JudgeNext]_judgeVars
      => [\A op \in P!Memoised \union {"retry"} :
            ran["baseSuite"] > 0 => ran'[op] = ran[op]]_judgeVars
  BY NoRunFollows
<1>4. QED BY <1>1, <1>2, <1>3, JudgeInvHolds, PTL DEF JudgeSpec, BaseSuiteIsLast

=============================================================================
