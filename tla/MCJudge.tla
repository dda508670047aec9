------------------------------ MODULE MCJudge ------------------------------
(***************************************************************************)
(* A whole run over one gate of each kind: the gates that drive the test   *)
(* suite, a static one before them and the stub after them, under configs  *)
(* that select, leave out and lower any of them, and diffs that modify,    *)
(* add and delete a test beside a fix.                                     *)
(***************************************************************************)
EXTENDS Judge, FiniteSets

MCRegistry == <<"diff-budget", "test-immutability", "suite-green", "red-green", "blast-radius">>

UpTo(n) == {S \in SUBSET GateIDs : Cardinality(S) <= n}
Lowerings == SUBSET {"diff-budget", "test-immutability"}

MCConfigs ==
  [only : UpTo(1), disabled : {{}}, lowered : Lowerings]
  \union [only : {{}}, disabled : UpTo(1), lowered : Lowerings]

MCPaths == {"a_test", "src"}
MCSurface == {"a_test"}

MCLinkTo == [p \in MCPaths |-> "nowhere"]

Change(status, path) ==
  [status |-> status, path |-> path, old |-> path, from |-> "file", to |-> "file"]

MCDiffs == {{Change("M", "src"), Change(status, "a_test")} : status \in {"A", "M", "D"}}
=============================================================================
