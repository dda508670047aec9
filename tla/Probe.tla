-------------------------------- MODULE Probe --------------------------------
(***************************************************************************)
(* The probe of a run (internal/runner/probe.go): what the gates read the  *)
(* project's test suite through. It answers six questions, each with some  *)
(* runs of test.sh in a working copy that holds the right tree:            *)
(*                                                                         *)
(*   inventory   the diff's test files as base has them, on base           *)
(*   overlaid    the same files as head has them, copied onto base         *)
(*   head        the same files on head                                    *)
(*   suite       everything, on head                                       *)
(*   retry       the files that failed, again, on head                     *)
(*   baseSuite   everything, on base                                       *)
(*                                                                         *)
(* Every answer but the retry's is kept for the next gate that asks. A     *)
(* gate may ask in any order; the probe sees to it that the base phase is  *)
(* over before the head phase begins. A caller that gets an error asks     *)
(* nothing more, which is what the runner does (runner.go, step).          *)
(***************************************************************************)
EXTENDS Naturals

CONSTANTS
  Paths,       \* files of the repository
  Surface,     \* the test surface: test files and fixtures
  Diffs,       \* the diffs of interest, each a set of file changes
  LinkTo,      \* where a symbolic link of base at a path leads
  NoPath,      \* no file of the repository
  ProbeRuns,   \* red_green.probe_runs
  RetryFailed, \* suite.retry_failed
  MaxRetries   \* bound: retries the gates ask for

\* A change: git's status, the path on head, the path on base of a rename or a
\* copy (the path itself for the others), and what is there before and after. A
\* file that becomes a link, or a link that becomes a file, has status T.
Changes ==
  {f \in [status : {"A", "M", "D", "R", "C", "T"}, path : Paths, old : Paths,
          from : {"file", "link"}, to : {"file", "link"}] :
     f.status = "T" <=> f.from # f.to}

\* What git can list of two trees: one change at a path; an addition, a rename
\* and a copy arrive where base has no file; a rename leaves a path head does
\* not have; what base has at a path is one thing.
AsListed(d) == \A f, g \in d :
  /\ f.status \in {"A", "M", "D", "T"} => f.old = f.path
  /\ f.path = g.path => f = g
  /\ f.status \in {"A", "R", "C"} /\ g.old = f.path => g = f /\ f.status = "A"
  /\ f.status = "R" => g.path # f.old
  /\ f.old = g.old /\ "A" \notin {f.status, g.status} => f.from = g.from

\* No link of base leads to another link of base.
ShortLinks(d) == \A f, g \in d :
  f.status # "A" /\ f.from = "link" /\ g.status # "A" /\ g.old = LinkTo[f.old]
    => g.from = "file"

\* No file of the test surface comes from outside of it or leaves it.
StaysInSurface(d) == \A f \in d : f.path \in Surface <=> f.old \in Surface

ASSUME DiffsAssumption == \A d \in Diffs : AsListed(d) /\ ShortLinks(d)

ASSUME ProbeAssumption ==
  /\ Surface \subseteq Paths
  /\ Diffs \subseteq SUBSET Changes
  /\ NoPath \notin Paths /\ LinkTo \in [Paths -> Paths \union {NoPath}]
  /\ ProbeRuns \in Nat \ {0} /\ RetryFailed \in Nat /\ MaxRetries \in Nat

Memoised == {"inventory", "overlaid", "head", "suite", "baseSuite"}
Ops      == Memoised \union {"retry"}
Copies   == {"base", "head", "suite"}

\* A tree says what is at each path: nothing, or a file or a link that holds what
\* base or head has at some path, or the beginning of it ("torn"). A working copy
\* that is not laid out holds no file.
Entries == [kind : {"none", "file", "link"}, path : Paths \union {NoPath},
            side : {"old", "new", "torn"}]
Nothing == [kind |-> "none", path |-> NoPath, side |-> "old"]
Trees   == [Paths -> Entries]
NoCopy  == [p \in Paths |-> Nothing]

VARIABLES
  diff,       \* the diff under judgement
  copies,     \* what each working copy holds
  laid,       \* the tree each was laid out from: Probe.base, Probe.suiteTree
  memo,       \* cached: "unasked", "ok" or "err"
  call,       \* the question a gate waits on, "none" between questions
  doing,      \* the phase under way, "none" before, between and after
  todo,       \* changes the overlay has still to put onto the base copy
  left,       \* runs of the phase that are still to do
  ran,        \* how often test.sh was run for each question
  last,       \* the latest run: its question, its working copy, its filter
  asked,      \* retries asked for
  stopped     \* a call returned an error

vars == <<diff, copies, laid, memo, call, doing, todo, left, ran, last, asked,
          stopped>>

-----------------------------------------------------------------------------
(* The diff and its trees.                                                 *)

BaseTree == [p \in Paths |->
  IF \E f \in diff : f.path = p /\ f.status \in {"A", "R", "C"} THEN Nothing
  ELSE [kind |-> IF \E f \in diff : f.old = p /\ f.from = "link"
                 THEN "link" ELSE "file", path |-> p, side |-> "old"]]

HeadTree == [p \in Paths |->
  IF \E f \in diff : f.path = p /\ f.status # "D"
    THEN [kind |-> (CHOOSE f \in diff : f.path = p).to, path |-> p, side |-> "new"]
  ELSE IF \E f \in diff : \/ f.status = "D" /\ f.path = p
                          \/ f.status = "R" /\ f.old = p THEN Nothing
  ELSE BaseTree[p]]

TestSurface == {f \in diff : f.path \in Surface \/ f.old \in Surface}

\* FileChange.BasePath and HeadPath: where the file is, as a set of one or none.
BasePath(f) ==
  IF f.status \in {"A", "C"} THEN {} ELSE IF f.status = "R" THEN {f.old} ELSE {f.path}

HeadPath(f) == IF f.status = "D" THEN {} ELSE {f.path}

BasePaths == UNION {BasePath(f) : f \in TestSurface}
HeadPaths == UNION {HeadPath(f) : f \in TestSurface}

\* overlay, for one file: its base path goes where head has it elsewhere or not at
\* all, a link itself and not what it leads to.
Removed(tree, f) == [p \in Paths |->
  IF p \in BasePath(f) \ HeadPath(f) THEN Nothing ELSE tree[p]]

\* write: the blob of head becomes a plain file, whatever head has there. Opening
\* the path follows a link that is there, and the link stays.
Written(tree, f, side) ==
  LET spot == IF tree[f.path].kind = "link" THEN LinkTo[f.path] ELSE f.path
  IN [p \in Paths |-> IF f.status # "D" /\ p = spot
                        THEN [kind |-> "file", path |-> f.path, side |-> side]
                        ELSE tree[p]]

Overlay(tree, f) == Written(Removed(tree, f), f, "new")

-----------------------------------------------------------------------------
(* What each question is asked of.                                         *)

CopyOf(op) == IF op \in {"inventory", "overlaid"} THEN "base"
              ELSE IF op = "head" THEN "head" ELSE "suite"

TreeOf(op) == IF op \in {"inventory", "overlaid", "baseSuite"} THEN "base" ELSE "head"

TreeNamed(name) == IF name = "base" THEN BaseTree ELSE HeadTree

Filtered == {"inventory", "overlaid", "head"}

\* The files a filtered run is given.
Filter(op) == IF op = "inventory" THEN BasePaths ELSE HeadPaths

\* How many runs an answer takes.
Times(op) == IF op \in {"overlaid", "head"} THEN ProbeRuns
             ELSE IF op = "retry" THEN RetryFailed ELSE 1

\* A filtered phase without files and a retry that is switched off run nothing.
Idle(op) == \/ op \in Filtered /\ Filter(op) = {}
            \/ op = "retry" /\ RetryFailed = 0

\* Head waits for the inventory and not for the run that expects red.
Before_bug(op) == IF op \in {"head", "overlaid"} THEN {"inventory"} ELSE {}

\* The phase that has to be over before this one: Overlaid asks Inventory
\* first, and Head asks Overlaid.
Before(op) == IF op = "overlaid" THEN {"inventory"}
              ELSE IF op = "head" THEN {"overlaid"} ELSE {}

\* The phases a call runs through, in the order of Before.
Within(op) == {op} \union Before(op) \union UNION {Before(o) : o \in Before(op)}

\* Asks whether there is a copy and not what it holds.
NeedsLaying_bug(op) == op = "head" \/ laid[CopyOf(op)] = "none"

\* baseWorktree and suiteWorktree keep the copy they have where it holds the
\* tree asked for; the head phase builds its own.
NeedsLaying(op) == op = "head" \/ laid[CopyOf(op)] # TreeOf(op)

TypeOK ==
  /\ diff \in Diffs
  /\ copies \in [Copies -> Trees]
  /\ laid \in [Copies -> {"none", "base", "head"}]
  /\ memo \in [Ops -> {"unasked", "ok", "err"}]
  /\ call \in Ops \union {"none"} /\ doing \in Ops \union {"none"}
  /\ todo \subseteq TestSurface
  /\ left \in 0..(ProbeRuns + RetryFailed + 1)
  /\ ran \in [Ops -> Nat]
  /\ last \in [op : Ops \union {"none"}, holds : Trees, filter : SUBSET Paths]
  /\ asked \in 0..MaxRetries
  /\ stopped \in BOOLEAN

Init ==
  /\ diff \in Diffs
  /\ copies = [c \in Copies |-> NoCopy]
  /\ laid = [c \in Copies |-> "none"]
  /\ memo = [op \in Ops |-> "unasked"]
  /\ call = "none" /\ doing = "none" /\ todo = {} /\ left = 0
  /\ ran = [op \in Ops |-> 0]
  /\ last = [op |-> "none", holds |-> NoCopy, filter |-> {}]
  /\ asked = 0 /\ stopped = FALSE

-----------------------------------------------------------------------------
\* Forgets the answer it has.
Ask_bug(op) ==
  /\ call = "none" /\ ~stopped
  /\ op = "retry" => asked < MaxRetries
  /\ asked' = IF op = "retry" THEN asked + 1 ELSE asked
  /\ call' = op
  /\ memo' = [memo EXCEPT ![op] = "unasked"]
  /\ UNCHANGED <<diff, copies, laid, doing, todo, left, ran, last, stopped>>

(* A gate asks. Only the retry is asked afresh each time.                  *)
Ask(op) ==
  /\ call = "none" /\ ~stopped
  /\ op = "retry" => asked < MaxRetries
  /\ asked' = IF op = "retry" THEN asked + 1 ELSE asked
  /\ call' = op
  /\ memo' = IF op = "retry" THEN [memo EXCEPT ![op] = "unasked"] ELSE memo
  /\ UNCHANGED <<diff, copies, laid, doing, todo, left, ran, last, stopped>>

\* The phase a call has to see to next.
Due(op) ==
  /\ call # "none" /\ doing = "none"
  /\ op \in Within(call) /\ memo[op] = "unasked"
  /\ \A o \in Before(op) : memo[o] # "unasked"

\* The phase before failed, or there is nothing to run: no file of the diff, no
\* retry in the config, no file among the failures to be retried.
Settle(op) ==
  /\ Due(op)
  /\ \/ /\ \E o \in Before(op) : memo[o] = "err"
        /\ memo' = [memo EXCEPT ![op] = "err"]
     \/ /\ \A o \in Before(op) : memo[o] = "ok"
        /\ Idle(op) \/ op = "retry"
        /\ memo' = [memo EXCEPT ![op] = "ok"]
  /\ UNCHANGED <<diff, copies, laid, call, doing, todo, left, ran, last, asked, stopped>>

\* The working copy is in place and the phase begins.
Enter(op) ==
  /\ doing' = op
  /\ todo' = IF op = "overlaid" THEN TestSurface ELSE {}
  /\ left' = Times(op)

Ready(op) ==
  /\ Due(op)
  /\ \A o \in Before(op) : memo[o] = "ok"
  /\ ~Idle(op)

(* The copy the phase needs is there already.                              *)
Reuse(op) ==
  /\ Ready(op) /\ ~NeedsLaying(op)
  /\ Enter(op)
  /\ UNCHANGED <<diff, copies, laid, memo, call, ran, last, asked, stopped>>

(* Session.Worktree replaces what the copy held.                           *)
Lay(op) ==
  /\ Ready(op) /\ NeedsLaying(op)
  /\ copies' = [copies EXCEPT ![CopyOf(op)] = TreeNamed(TreeOf(op))]
  /\ laid' = [laid EXCEPT ![CopyOf(op)] = TreeOf(op)]
  /\ Enter(op)
  /\ UNCHANGED <<diff, memo, call, ran, last, asked, stopped>>

\* The old copy is gone by the time the new one fails; laid still names it.
LayFails(op) ==
  /\ Ready(op) /\ NeedsLaying(op)
  /\ copies' = [copies EXCEPT ![CopyOf(op)] = NoCopy]
  /\ memo' = [memo EXCEPT ![op] = "err"]
  /\ UNCHANGED <<diff, laid, call, doing, todo, left, ran, last, asked, stopped>>

(* The head version of one file of the test surface lands on the base      *)
(* copy, in any order here and in that of the diff in the code.            *)
OverlayFile ==
  /\ doing = "overlaid"
  /\ \E f \in todo :
       /\ copies' = [copies EXCEPT !["base"] = Overlay(@, f)]
       /\ todo' = todo \ {f}
  /\ UNCHANGED <<diff, laid, memo, call, doing, left, ran, last, asked, stopped>>

(* Reading head, the removal or the writing fails: the files before are    *)
(* there, and this one is not, is half there, or is only gone from base.   *)
OverlayFails ==
  /\ doing = "overlaid"
  /\ \E f \in todo :
       LET tree == copies["base"]
       IN \E torn \in {tree, Removed(tree, f), Written(Removed(tree, f), f, "torn")} :
            copies' = [copies EXCEPT !["base"] = torn]
  /\ memo' = [memo EXCEPT !["overlaid"] = "err"]
  /\ doing' = "none" /\ todo' = {}
  /\ UNCHANGED <<diff, laid, call, left, ran, last, asked, stopped>>

\* The run that completes the answer.
LastRun == left = 1

(* One run of test.sh by repeat: it answers, red or green.                 *)
RunAnswers ==
  /\ doing # "none" /\ todo = {}
  /\ ran' = [ran EXCEPT ![doing] = @ + 1]
  /\ last' = [op |-> doing, holds |-> copies[CopyOf(doing)],
              filter |-> IF doing \in Filtered THEN Filter(doing) ELSE {}]
  /\ left' = left - 1
  /\ IF LastRun THEN doing' = "none" /\ memo' = [memo EXCEPT ![doing] = "ok"]
                ELSE UNCHANGED <<doing, memo>>
  /\ UNCHANGED <<diff, copies, laid, call, todo, asked, stopped>>

(* A hook failed or the deadline struck: the phase is over, its runs lost. *)
RunFails ==
  /\ doing # "none" /\ todo = {}
  /\ memo' = [memo EXCEPT ![doing] = "err"]
  /\ doing' = "none"
  /\ UNCHANGED <<diff, copies, laid, call, todo, left, ran, last, asked, stopped>>

Return ==
  /\ call # "none" /\ doing = "none" /\ memo[call] # "unasked"
  /\ call' = "none"
  /\ stopped' = (memo[call] = "err")
  /\ UNCHANGED <<diff, copies, laid, memo, doing, todo, left, ran, last, asked>>

Work ==
  \/ \E op \in Ops : Settle(op) \/ Reuse(op) \/ Lay(op) \/ LayFails(op)
  \/ OverlayFile \/ OverlayFails
  \/ RunAnswers \/ RunFails
  \/ Return

\* The caller met an error and asks nothing more.
Over ==
  /\ stopped /\ call = "none"
  /\ UNCHANGED vars

Next == Work \/ (\E op \in Ops : Ask(op)) \/ Over

\* What the probe may do, whatever the gates ask. Judge says that it goes on.
Spec == Init /\ [][Next]_vars

-----------------------------------------------------------------------------
(* Properties.                                                             *)

\* Base with the test surface of head and nothing else of it.
OnlySurface == [p \in Paths |-> IF p \in Surface THEN HeadTree[p] ELSE BaseTree[p]]

\* The overlay writes nothing outside the test surface ("nothing else travels").
NothingElseTravels ==
  last.op = "overlaid" =>
    \A p \in Paths \ Surface : last.holds[p] = BaseTree[p]

\* Where a link is in the way of the overlay: head's link lands as a plain file,
\* and what should replace a link of base is written to the place it leads to.
Linked ==
  {f.path : f \in {g \in TestSurface : g.status # "D" /\ "link" \in {g.from, g.to}}}
    \union {LinkTo[f.path] : f \in {g \in TestSurface : g.status \in {"M", "T"}
                                                       /\ g.from = "link"}}

\* Every run of test.sh reads the tree its question is about, however the
\* questions before it used the copies: the inventory a base nothing was put
\* on, the red probe the base with head's tests and without its fix, a retry
\* the head even after the suite on base took over the copy. No run reads a copy
\* the overlay gave up on half way. A filtered run is given at least one file,
\* since an empty filter runs the whole suite, and only files that tree holds.
\* The overlay keeps its word where no link is in its way.
ReadsItsTree ==
  /\ last.op \notin {"none", "overlaid"} => last.holds = TreeNamed(TreeOf(last.op))
  /\ last.op = "overlaid" => \A p \in Paths \ Linked : last.holds[p] = OnlySurface[p]
  /\ last.op \in Filtered =>
       last.filter # {} /\ \A p \in last.filter : last.holds[p].kind # "none"

\* Two gates that ask the same thing share one answer, and it is a whole one:
\* K runs of K, or none where there was nothing to run.
SharedAnswers ==
  \A op \in Memoised :
    /\ ran[op] <= Times(op)
    /\ memo[op] = "ok" => ran[op] = IF Idle(op) THEN 0 ELSE Times(op)

\* Whichever of red-green's questions comes first, its runs on base are over when
\* its runs on head begin (Head asks Overlaid): what head's tests leave in the
\* services cannot make the red that red-green wants. What suite-green ran before,
\* on head and whole, is not among these phases.
BaseBeforeHead ==
  [][ran["head"] > 0 =>
       \A op \in {"inventory", "overlaid"} : ran'[op] = ran[op]]_vars

=============================================================================
