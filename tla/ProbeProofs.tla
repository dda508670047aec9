----------------------------- MODULE ProbeProofs -----------------------------
(***************************************************************************)
(* Proofs about Probe, for every diff and every number of runs: two gates  *)
(* that ask the same thing share one whole answer, and the base phase is   *)
(* over before the head phase begins.                                      *)
(***************************************************************************)
EXTENDS Probe, TLAPS

\* The phase under way: what it waited for is over, and it has runs to do.
Phase ==
  doing # "none" =>
    /\ call # "none" /\ doing \in Within(call) /\ memo[doing] = "unasked"
    /\ \A o \in Before(doing) : memo[o] = "ok"
    /\ ~Idle(doing)
    /\ left > 0

\* The runs done and the runs to do make up the answer.
Counts ==
  \A op \in Memoised :
    /\ memo[op] = "unasked" =>
         IF doing = op THEN ran[op] + left = Times(op) ELSE ran[op] = 0
    /\ memo[op] = "ok" => ran[op] = IF Idle(op) THEN 0 ELSE Times(op)
    /\ ran[op] <= Times(op)

\* An answer rests on the answers its phase waited for.
Chained ==
  \A op \in Memoised : \A o \in Before(op) :
    /\ memo[op] = "ok" => memo[o] = "ok"
    /\ ran[op] > 0 => memo[o] = "ok"

PhaseInv == TypeOK /\ Phase /\ Counts /\ Chained

-----------------------------------------------------------------------------
(* The values the steps write have their types.                            *)

LEMMA OpsTyped ==
  /\ Memoised \subseteq Ops /\ "retry" \in Ops /\ "none" \notin Ops
  /\ \A op \in Ops : /\ Before(op) \subseteq Memoised
                     /\ CopyOf(op) \in Copies /\ TreeOf(op) \in {"base", "head"}
                     /\ Times(op) \in 0..(ProbeRuns + RetryFailed + 1)
  /\ \A op \in Memoised : Times(op) > 0
  /\ \A op \in Ops : ~Idle(op) => Times(op) > 0
  BY ProbeAssumption
  DEF Memoised, Ops, Before, CopyOf, Copies, TreeOf, Times, Idle, Filtered

LEMMA ChangesTyped ==
  ASSUME diff \in Diffs
  PROVE  diff \subseteq Changes /\ TestSurface \subseteq diff
  BY ProbeAssumption DEF TestSurface

LEMMA TreesTyped ==
  /\ Nothing \in Entries /\ NoCopy \in Trees
  /\ diff \in Diffs => /\ BaseTree \in Trees /\ HeadTree \in Trees
                      /\ \A name : TreeNamed(name) \in Trees
<1>1. Nothing \in Entries
  BY DEF Nothing, Entries
<1>2. BaseTree \in Trees
  <2> SUFFICES ASSUME NEW p \in Paths PROVE BaseTree[p] \in Entries
    BY DEF BaseTree, Trees
  <2>1. QED BY <1>1 DEF BaseTree, Entries
<1>3. ASSUME diff \in Diffs PROVE HeadTree \in Trees
  <2> SUFFICES ASSUME NEW p \in Paths PROVE HeadTree[p] \in Entries
    BY DEF HeadTree, Trees
  <2>1. CASE \E f \in diff : f.path = p /\ f.status # "D"
    <3>1. (CHOOSE f \in diff : f.path = p) \in Changes
      BY <1>3, <2>1, ChangesTyped
    <3>2. (CHOOSE f \in diff : f.path = p).to \in {"file", "link"}
      BY <3>1 DEF Changes
    <3>3. QED BY <2>1, <3>2 DEF HeadTree, Entries
  <2>2. CASE ~\E f \in diff : f.path = p /\ f.status # "D"
    BY <1>1, <1>2, <2>2 DEF HeadTree, Trees
  <2>3. QED BY <2>1, <2>2
<1>4. QED BY <1>1, <1>2, <1>3 DEF NoCopy, Trees, TreeNamed

LEMMA OverlayTyped ==
  ASSUME NEW tree \in Trees, NEW f \in Changes, NEW side \in {"new", "torn"}
  PROVE  Removed(tree, f) \in Trees /\ Written(Removed(tree, f), f, side) \in Trees
<1>1. \A t \in Trees : Written(t, f, side) \in Trees
  <2>1. [kind |-> "file", path |-> f.path, side |-> side] \in Entries
    BY DEF Changes, Entries
  <2>2. QED BY <2>1 DEF Written, Trees
<1>2. Removed(tree, f) \in Trees
  BY TreesTyped DEF Removed, Trees
<1>3. QED BY <1>1, <1>2

LEMMA FilterTyped ==
  ASSUME diff \in Diffs, NEW op
  PROVE  Filter(op) \subseteq Paths
<1>1. \A f \in TestSurface : f \in Changes
  BY ProbeAssumption DEF TestSurface
<1>2. \A f \in TestSurface : BasePath(f) \subseteq Paths /\ HeadPath(f) \subseteq Paths
  BY <1>1 DEF Changes, BasePath, HeadPath
<1>3. BasePaths \subseteq Paths /\ HeadPaths \subseteq Paths
  BY <1>2 DEF BasePaths, HeadPaths
<1>4. QED BY <1>3 DEF Filter

-----------------------------------------------------------------------------
(* The inductive step, one lemma per kind of step.                         *)

LEMMA InitEstablishes == Init => PhaseInv
<1> SUFFICES ASSUME Init PROVE PhaseInv
  OBVIOUS
<1> USE ProbeAssumption DEF Init
<1>1. TypeOK
  <2>1. copies \in [Copies -> Trees]
    BY TreesTyped
  <2>2. last \in [op : Ops \union {"none"}, holds : Trees, filter : SUBSET Paths]
    BY TreesTyped
  <2>3. stopped \in BOOLEAN
    OBVIOUS
  <2>4. ran \in [Ops -> Nat] /\ memo \in [Ops -> {"unasked", "ok", "err"}]
    OBVIOUS
  <2>5. QED BY <2>1, <2>2, <2>3, <2>4 DEF TypeOK
<1>2. Phase
  BY DEF Phase
<1>3. Counts
  BY OpsTyped DEF Counts
<1>4. Chained
  BY OpsTyped DEF Chained
<1>5. QED BY <1>1, <1>2, <1>3, <1>4 DEF PhaseInv

\* The diff is settled before the first question, and what it says with it.
LEMMA DiffFrame ==
  ASSUME diff' = diff
  PROVE  /\ \A op : (Idle(op)' <=> Idle(op)) /\ Filter(op)' = Filter(op)
         /\ TestSurface' = TestSurface
  BY DEF Idle, Filter, BasePaths, HeadPaths, TestSurface

\* Between phases only the retry's answer is forgotten, and nothing waits on it.
LEMMA AskKeeps ==
  ASSUME PhaseInv, NEW op \in Ops, Ask(op)
  PROVE  PhaseInv'
<1> USE OpsTyped DEF PhaseInv, Ask
<1>0. doing = "none" /\ memo' \in [Ops -> {"unasked", "ok", "err"}]
      /\ \A o \in Memoised : memo'[o] = memo[o]
  BY DEF Phase, TypeOK, Memoised, Ops
<1>1. TypeOK'
  <2>1. asked' \in 0..MaxRetries
    BY ProbeAssumption DEF TypeOK
  <2>2. QED BY <1>0, <2>1, DiffFrame DEF TypeOK
<1>2. Phase' /\ Counts' /\ Chained'
  BY <1>0 DEF Phase, Counts, Chained, Times, Idle, Filter, BasePaths, HeadPaths, TestSurface
<1>3. QED BY <1>1, <1>2

\* A phase that ends without a run, in order or with an error.
LEMMA SettledKeeps ==
  ASSUME PhaseInv, NEW op \in Ops, NEW answer \in {"ok", "err"},
         doing = "none" \/ doing = op, doing' = "none",
         memo[op] = "unasked", memo' = [memo EXCEPT ![op] = answer],
         answer = "ok" => (Idle(op) \/ op = "retry")
                          /\ (\A o \in Before(op) : memo[o] = "ok") /\ doing = "none",
         diff' = diff, ran' = ran
  PROVE  Phase' /\ Counts' /\ Chained'
<1> USE OpsTyped, DiffFrame DEF PhaseInv
<1>1. Phase'
  BY DEF Phase
<1>2. \A o \in Ops : memo'[o] = IF o = op THEN answer ELSE memo[o]
  BY DEF TypeOK
<1>3. Counts'
  <2> SUFFICES ASSUME NEW o \in Memoised
               PROVE  /\ memo'[o] = "unasked" => ran[o] = 0
                      /\ memo'[o] = "ok" => ran[o] = IF Idle(o) THEN 0 ELSE Times(o)
                      /\ ran[o] <= Times(o)
    BY DEF Counts, Times
  <2>1. CASE o = op
    BY <1>2, <2>1 DEF Counts, Memoised
  <2>2. CASE o # op
    BY <1>2, <2>2 DEF Counts
  <2>3. QED BY <2>1, <2>2
<1>4. Chained'
  BY <1>2 DEF Chained, Before, Memoised, Ops
<1>5. QED BY <1>1, <1>3, <1>4

LEMMA SettleKeeps ==
  ASSUME PhaseInv, NEW op \in Ops, Settle(op) \/ LayFails(op)
  PROVE  PhaseInv'
<1>0. PICK answer \in {"ok", "err"} :
        /\ memo' = [memo EXCEPT ![op] = answer]
        /\ answer = "ok" => (Idle(op) \/ op = "retry") /\ \A o \in Before(op) : memo[o] = "ok"
  BY DEF Settle, LayFails
<1>1. doing = "none" /\ memo[op] = "unasked"
      /\ UNCHANGED <<diff, call, doing, todo, left, ran, last, asked, stopped, laid>>
  BY DEF Settle, LayFails, Due, Ready
<1>2. copies' \in [Copies -> Trees]
  BY TreesTyped DEF PhaseInv, TypeOK, Settle, LayFails
<1>3. TypeOK'
  BY <1>0, <1>1, <1>2, DiffFrame DEF PhaseInv, TypeOK
<1>4. Phase' /\ Counts' /\ Chained'
  BY <1>0, <1>1, SettledKeeps
<1>5. QED BY <1>3, <1>4 DEF PhaseInv

LEMMA EnterKeeps ==
  ASSUME PhaseInv, NEW op \in Ops, Reuse(op) \/ Lay(op)
  PROVE  PhaseInv'
<1> USE OpsTyped DEF PhaseInv
<1>1. /\ Ready(op) /\ Due(op) /\ doing = "none" /\ memo[op] = "unasked"
      /\ doing' = op /\ left' = Times(op) /\ todo' \subseteq TestSurface
      /\ UNCHANGED <<diff, memo, call, ran, last, asked, stopped>>
  BY DEF Reuse, Lay, Ready, Due, Enter
<1>2. copies' \in [Copies -> Trees] /\ laid' \in [Copies -> {"none", "base", "head"}]
  BY TreesTyped DEF TypeOK, Reuse, Lay
<1>3. TypeOK'
  BY <1>1, <1>2, DiffFrame DEF TypeOK
<1>4. Phase'
  BY <1>1, DiffFrame DEF Phase, Ready, Due
<1>5. Counts'
  BY <1>1, DiffFrame DEF Counts, Times, TypeOK
<1>6. Chained'
  BY <1>1 DEF Chained
<1>7. QED BY <1>3, <1>4, <1>5, <1>6

LEMMA OverlayKeeps ==
  ASSUME PhaseInv, OverlayFile \/ OverlayFails
  PROVE  PhaseInv'
<1> USE OpsTyped DEF PhaseInv
<1>1. copies' \in [Copies -> Trees] /\ todo' \subseteq todo
  <2>1. PICK f \in todo : copies' \in {[copies EXCEPT !["base"] = tree] :
               tree \in {copies["base"], Removed(copies["base"], f),
                         Written(Removed(copies["base"], f), f, "torn"),
                         Overlay(copies["base"], f)}}
    BY DEF OverlayFile, OverlayFails
  <2>2. f \in Changes /\ copies["base"] \in Trees
    BY <2>1, ChangesTyped DEF TypeOK, Copies
  <2>3. QED BY <2>1, <2>2, OverlayTyped DEF TypeOK, Overlay, OverlayFile, OverlayFails
<1>2. CASE OverlayFile
  <2>1. TypeOK'
    BY <1>1, <1>2 DEF OverlayFile, TypeOK, TestSurface
  <2>2. Phase' /\ Counts' /\ Chained'
    BY <1>2, DiffFrame DEF OverlayFile, Phase, Counts, Chained, Times
  <2>3. QED BY <2>1, <2>2
<1>3. CASE OverlayFails
  <2>1. "overlaid" \in Ops /\ memo["overlaid"] = "unasked"
    BY <1>3 DEF OverlayFails, Phase, Ops, Memoised
  <2>2. TypeOK'
    BY <1>1, <1>3 DEF OverlayFails, TypeOK, TestSurface
  <2>3. Phase' /\ Counts' /\ Chained'
    BY <1>3, <2>1, SettledKeeps DEF OverlayFails
  <2>4. QED BY <2>2, <2>3
<1>4. QED BY <1>2, <1>3

LEMMA RunFailsKeeps ==
  ASSUME PhaseInv, RunFails
  PROVE  PhaseInv'
<1>1. doing \in Ops /\ memo[doing] = "unasked"
  BY OpsTyped DEF PhaseInv, RunFails, Phase, TypeOK
<1>2. TypeOK'
  BY <1>1 DEF PhaseInv, RunFails, TypeOK
<1>3. Phase' /\ Counts' /\ Chained'
  BY <1>1, SettledKeeps DEF RunFails
<1>4. QED BY <1>2, <1>3 DEF PhaseInv

\* A run is one more of the answer, and the one that completes it ends its phase.
LEMMA RunAnswersKeeps ==
  ASSUME PhaseInv, RunAnswers
  PROVE  PhaseInv'
<1> USE OpsTyped DEF PhaseInv
<1>1. /\ doing \in Ops /\ memo[doing] = "unasked" /\ ~Idle(doing) /\ call # "none"
      /\ left \in Nat /\ left > 0 /\ left' = left - 1
      /\ \A o \in Before(doing) : memo[o] = "ok"
      /\ UNCHANGED <<diff, copies, laid, call, todo, asked, stopped>>
  BY ProbeAssumption DEF RunAnswers, Phase, TypeOK
<1>2. /\ ran' \in [Ops -> Nat]
      /\ \A o \in Ops : ran'[o] = IF o = doing THEN ran[o] + 1 ELSE ran[o]
  BY <1>1 DEF RunAnswers, TypeOK
<1>3. /\ memo' \in [Ops -> {"unasked", "ok", "err"}]
      /\ \A o \in Ops : memo'[o] = IF o = doing /\ left = 1 THEN "ok" ELSE memo[o]
      /\ doing' = IF left = 1 THEN "none" ELSE doing
  BY <1>1 DEF RunAnswers, LastRun, TypeOK
<1>4. last' \in [op : Ops \union {"none"}, holds : Trees, filter : SUBSET Paths]
  <2>1. copies[CopyOf(doing)] \in Trees
    BY <1>1 DEF TypeOK
  <2>2. Filter(doing) \subseteq Paths
    BY FilterTyped DEF TypeOK
  <2>3. QED BY <1>1, <2>1, <2>2 DEF RunAnswers
<1>5. TypeOK'
  BY <1>1, <1>2, <1>3, <1>4, DiffFrame, ProbeAssumption DEF TypeOK
<1>6. Phase'
  BY <1>1, <1>3, DiffFrame DEF Phase
<1>7. Counts'
  <2> SUFFICES ASSUME NEW op \in Memoised
               PROVE  /\ memo'[op] = "unasked" =>
                           IF doing' = op THEN ran'[op] + left' = Times(op) ELSE ran'[op] = 0
                      /\ memo'[op] = "ok" => ran'[op] = IF Idle(op) THEN 0 ELSE Times(op)
                      /\ ran'[op] <= Times(op)
    BY <1>1, DiffFrame DEF Counts, Times
  <2>0. op \in Ops /\ op # "none" /\ Times(op) \in Nat /\ ran[op] \in Nat
    BY ProbeAssumption DEF TypeOK
  <2>1. CASE op = doing
    <3>1. ran[op] + left = Times(op)
      BY <1>1, <2>1 DEF Counts
    <3>2. QED BY <1>1, <1>2, <1>3, <2>0, <2>1, <3>1
  <2>2. CASE op # doing
    BY <1>1, <1>2, <1>3, <2>0, <2>2 DEF Counts
  <2>3. QED BY <2>1, <2>2
<1>8. Chained'
  <2> SUFFICES ASSUME NEW op \in Memoised, NEW o \in Before(op)
               PROVE  /\ memo'[op] = "ok" => memo'[o] = "ok"
                      /\ ran'[op] > 0 => memo'[o] = "ok"
    BY DEF Chained
  <2>1. o \in Ops /\ op \in Ops /\ (memo[o] = "ok" => memo'[o] = "ok")
    BY <1>1, <1>3
  <2>2. CASE op = doing
    BY <1>1, <2>1, <2>2
  <2>3. CASE op # doing
    BY <1>2, <1>3, <2>1, <2>3 DEF Chained
  <2>4. QED BY <2>2, <2>3
<1>9. QED BY <1>5, <1>6, <1>7, <1>8

LEMMA FrameKeeps ==
  ASSUME PhaseInv, UNCHANGED <<diff, copies, laid, memo, doing, todo, left, ran, last, asked>>,
         call' \in Ops \union {"none"}, stopped' \in BOOLEAN,
         call' = call \/ doing = "none"
  PROVE  PhaseInv'
<1>1. TypeOK'
  BY DiffFrame DEF PhaseInv, TypeOK
<1>2. Phase' /\ Counts' /\ Chained'
  BY DiffFrame DEF PhaseInv, Phase, Counts, Chained, Times
<1>3. QED BY <1>1, <1>2 DEF PhaseInv

LEMMA ReturnKeeps ==
  ASSUME PhaseInv, Return
  PROVE  PhaseInv'
<1>1. (memo[call] = "err") \in BOOLEAN
  OBVIOUS
<1>2. QED BY <1>1, FrameKeeps DEF Return

LEMMA PhaseKeeps ==
  ASSUME PhaseInv, [Next]_vars
  PROVE  PhaseInv'
<1>1. CASE Work
  BY <1>1, SettleKeeps, EnterKeeps, OverlayKeeps, RunAnswersKeeps, RunFailsKeeps, ReturnKeeps
  DEF Work
<1>2. CASE \E op \in Ops : Ask(op)
  BY <1>2, AskKeeps
<1>3. CASE UNCHANGED vars
  BY <1>3, FrameKeeps DEF vars, PhaseInv, TypeOK
<1>4. QED BY <1>1, <1>2, <1>3 DEF Next, Over

LEMMA PhaseHolds == Spec => []PhaseInv
<1>1. PhaseInv /\ [Next]_vars => PhaseInv'
  BY PhaseKeeps
<1>2. QED BY InitEstablishes, <1>1, PTL DEF Spec

-----------------------------------------------------------------------------
(* What the working copies hold. The base copy is laid out once and only   *)
(* the overlay changes it; the head copy is laid out for its phase; the    *)
(* suite copy is laid out again for whoever asks for the other tree. Only  *)
(* after an error may a copy hold something else than it is taken for, and *)
(* then nothing reads it.                                                  *)

BasePhase == {"inventory", "overlaid"}
SuiteRuns == {"suite", "retry", "baseSuite"}

\* The call under way has met an error, or the one before had.
Failed == stopped \/ (call # "none" /\ doing = "none" /\ memo[call] = "err")

\* The paths of the base copy the overlay has seen to.
Touched == UNION {HeadPath(f) \union BasePath(f) : f \in TestSurface \ todo}

\* The overlay so far: on base's tree it has put head's at the paths it has seen
\* to, but where a link is in the way; it makes no links, and what it has put onto
\* the copy is there.
OverlaySoFar ==
  /\ \A p \in Paths \ Linked :
       copies["base"][p] = IF p \in Touched THEN OnlySurface[p] ELSE BaseTree[p]
  /\ \A p \in Paths : copies["base"][p].kind = "link" => BaseTree[p].kind = "link"
  /\ \A f \in TestSurface \ todo : \A p \in HeadPath(f) : copies["base"][p].kind # "none"

\* The base phases are settled in their order, and no overlay is past before
\* the answer it is for is.
BaseInOrder ==
  /\ memo["head"] # "unasked" => memo["overlaid"] # "unasked"
  /\ memo["overlaid"] # "unasked" => memo["inventory"] # "unasked"
  /\ doing = "inventory" => memo["overlaid"] = "unasked"
  /\ laid["base"] \in {"none", "base"}
  /\ doing \in BasePhase => laid["base"] = "base"

CopiesHold ==
  /\ laid["base"] = "base" /\ memo["overlaid"] = "unasked" /\ doing # "overlaid"
       => copies["base"] = BaseTree
  /\ doing = "overlaid" => OverlaySoFar
  /\ doing = "head" => copies["head"] = HeadTree
  /\ laid["suite"] # "none" /\ ~Failed => copies["suite"] = TreeNamed(laid["suite"])
  /\ doing \in SuiteRuns => laid["suite"] = TreeOf(doing)

StopsAsking == stopped => call = "none"

ReadInv == PhaseInv /\ StopsAsking /\ BaseInOrder /\ CopiesHold /\ ReadsItsTree

\* What head has at a path the overlay writes or removes.
LEMMA HeadAt ==
  ASSUME diff \in Diffs, AsListed(diff), StaysInSurface(diff),
         NEW f \in TestSurface
  PROVE  /\ f.path \in Surface /\ f.old \in Surface /\ f.path \in Paths /\ f.old \in Paths
         /\ f.status # "D" => HeadTree[f.path] = [kind |-> f.to, path |-> f.path, side |-> "new"]
         /\ \A p \in BasePath(f) \ HeadPath(f) : p \in Surface /\ HeadTree[p] = Nothing
<1> USE DEF AsListed
<1>1. f \in diff /\ f \in Changes /\ f.path \in Surface /\ f.old \in Surface
  BY ChangesTyped DEF StaysInSurface, TestSurface
<1>2. f.path \in Paths /\ f.old \in Paths
  BY <1>1 DEF Changes
<1>3. \A g \in diff : g.path = f.path => g = f
  BY <1>1
<1>4. ASSUME f.status # "D"
      PROVE  HeadTree[f.path] = [kind |-> f.to, path |-> f.path, side |-> "new"]
  <2>1. (CHOOSE g \in diff : g.path = f.path) = f
    BY <1>1, <1>3
  <2>2. QED BY <1>1, <1>2, <1>4, <2>1 DEF HeadTree
<1>5. ASSUME NEW p \in BasePath(f) \ HeadPath(f)
      PROVE  p \in Surface /\ HeadTree[p] = Nothing
  <2>1. CASE f.status = "R"
    <3>1. p = f.old /\ ~\E g \in diff : g.path = p /\ g.status # "D"
      BY <1>1, <1>5, <2>1 DEF BasePath
    <3>2. QED BY <1>1, <1>2, <2>1, <3>1 DEF HeadTree
  <2>2. CASE f.status # "R"
    <3>1. p = f.path /\ f.status = "D"
      BY <1>1, <1>5, <2>2 DEF BasePath, HeadPath
    <3>2. ~\E g \in diff : g.path = p /\ g.status # "D"
      BY <1>3, <3>1
    <3>3. QED BY <1>1, <1>2, <3>1, <3>2 DEF HeadTree
  <2>3. QED BY <2>1, <2>2
<1>6. QED BY <1>1, <1>2, <1>4, <1>5

\* A link in the way of a write is base's, and the paths it spoils are Linked.
LEMMA LinkInTheWay ==
  ASSUME diff \in Diffs, AsListed(diff), NEW f \in TestSurface, f.status # "D",
         BaseTree[f.path].kind = "link"
  PROVE  f.path \in Linked /\ LinkTo[f.path] \in Linked /\ f.status \in {"M", "T"}
<1> USE DEF AsListed
<1>1. f \in diff /\ f \in Changes /\ f.path \in Paths
  BY ChangesTyped DEF Changes
<1>2. f.status \notin {"A", "R", "C"}
  BY <1>1 DEF BaseTree, Nothing
<1>3. PICK g \in diff : g.old = f.path /\ g.from = "link"
  BY <1>1 DEF BaseTree, Nothing
<1>4. g \in Changes /\ f.status \in {"M", "T"} /\ f.old = f.path
  BY <1>1, <1>2, ChangesTyped DEF Changes
<1>5. g.status # "A"
  BY <1>1, <1>2, <1>3, <1>4
<1>6. f.from = "link"
  BY <1>1, <1>3, <1>4, <1>5
<1>7. QED BY <1>4, <1>6 DEF Linked

\* The overlay begins on base's tree, and one more file of it keeps what it did.
LEMMA OverlayBegins ==
  ASSUME todo = TestSurface, copies["base"] = BaseTree
  PROVE  OverlaySoFar
<1>1. Touched = {}
  BY DEF Touched
<1>2. QED BY <1>1 DEF OverlaySoFar

LEMMA OverlayGoesOn ==
  ASSUME diff \in Diffs, AsListed(diff), StaysInSurface(diff), diff' = diff,
         NEW f \in TestSurface, f \in todo, todo' = todo \ {f},
         OverlaySoFar, copies'["base"] = Overlay(copies["base"], f)
  PROVE  OverlaySoFar'
<1> DEFINE tree == copies["base"]
           gone == Removed(tree, f)
           spot == IF gone[f.path].kind = "link" THEN LinkTo[f.path] ELSE f.path
           new  == [kind |-> "file", path |-> f.path, side |-> "new"]
           next == Overlay(tree, f)
<1>1. f \in Changes /\ f \in diff /\ f.path \in Paths
      /\ (f.status # "D" => f.path \notin BasePath(f) \ HeadPath(f))
  BY ChangesTyped DEF Changes, HeadPath
<1>2. \A p \in Paths : gone[p] = IF p \in BasePath(f) \ HeadPath(f) THEN Nothing ELSE tree[p]
  BY DEF Removed
<1>3. \A p \in Paths : next[p] = IF f.status # "D" /\ p = spot THEN new ELSE gone[p]
  BY DEF Overlay, Written
<1>4. f.status # "D" /\ gone[f.path].kind = "link"
        => f.path \in Linked /\ spot \in Linked /\ BasePath(f) \ HeadPath(f) = {}
  <2> SUFFICES ASSUME f.status # "D", gone[f.path].kind = "link"
               PROVE  f.path \in Linked /\ spot \in Linked /\ BasePath(f) \ HeadPath(f) = {}
    OBVIOUS
  <2>1. BaseTree[f.path].kind = "link"
    BY <1>1, <1>2 DEF OverlaySoFar
  <2>2. QED BY <2>1, LinkInTheWay DEF BasePath, HeadPath
<1>5. Touched' = Touched \union HeadPath(f) \union BasePath(f)
      /\ Linked' = Linked /\ TestSurface' = TestSurface
      /\ BaseTree' = BaseTree /\ OnlySurface' = OnlySurface
  <2>1. TestSurface \ todo' = (TestSurface \ todo) \union {f}
    OBVIOUS
  <2>2. TestSurface' = TestSurface
    BY DEF TestSurface
  <2>3. Touched' = UNION {HeadPath(g) \union BasePath(g) : g \in TestSurface \ todo'}
    BY <2>2 DEF Touched, HeadPath, BasePath
  <2>4. Touched' = Touched \union HeadPath(f) \union BasePath(f)
    BY <2>1, <2>3 DEF Touched
  <2>5. QED BY <2>2, <2>4 DEF Linked, BaseTree, OnlySurface, HeadTree, TestSurface
<1>6. ASSUME NEW p \in Paths \ Linked
      PROVE  next[p] = IF p \in Touched' THEN OnlySurface[p] ELSE BaseTree[p]
  <2>0. tree[p] = IF p \in Touched THEN OnlySurface[p] ELSE BaseTree[p]
    BY DEF OverlaySoFar
  <2>1. CASE p \in BasePath(f) \ HeadPath(f)
    <3>1. p \in Surface /\ HeadTree[p] = Nothing
      BY <2>1, HeadAt
    <3>2. ~(f.status # "D" /\ p = spot)
      BY <1>1, <1>4, <2>1
    <3>3. next[p] = Nothing
      BY <1>2, <1>3, <2>1, <3>2
    <3>4. QED BY <1>5, <2>1, <3>1, <3>3 DEF OnlySurface
  <2>2. CASE p \in HeadPath(f)
    <3>1. p = f.path /\ f.status # "D" /\ gone[p].kind # "link"
      BY <1>4, <2>2 DEF HeadPath
    <3>2. f.to = "file"
      BY <1>1, <3>1 DEF Linked, Changes
    <3>3. OnlySurface[p] = new
      BY <3>1, <3>2, HeadAt DEF OnlySurface
    <3>4. QED BY <1>3, <1>5, <2>2, <3>1, <3>3
  <2>3. CASE p \notin BasePath(f) \union HeadPath(f)
    <3>1. ~(f.status # "D" /\ p = spot)
      BY <1>4, <2>3 DEF HeadPath
    <3>2. next[p] = tree[p]
      BY <1>2, <1>3, <2>3, <3>1
    <3>3. QED BY <1>5, <2>0, <2>3, <3>2
  <2>4. QED BY <2>1, <2>2, <2>3
<1>7. ASSUME NEW p \in Paths, next[p].kind = "link"
      PROVE  BaseTree[p].kind = "link"
  <2>1. next[p] = tree[p]
    BY <1>2, <1>3, <1>7 DEF Nothing
  <2>2. QED BY <1>7, <2>1 DEF OverlaySoFar
<1>8. ASSUME NEW g \in TestSurface \ todo', NEW p \in HeadPath(g)
      PROVE  next[p].kind # "none"
  <2>1. g \in diff /\ p = g.path /\ g.status # "D" /\ p \in Paths
    BY ChangesTyped, <1>8 DEF HeadPath, Changes
  <2>2. p \notin BasePath(f) \ HeadPath(f)
    BY <1>1, <2>1 DEF AsListed, BasePath, HeadPath
  <2>3. CASE g = f
    BY <1>2, <1>3, <2>1, <2>2, <2>3
  <2>4. CASE g # f
    <3>1. tree[p].kind # "none"
      BY <1>8, <2>4 DEF OverlaySoFar
    <3>2. QED BY <1>2, <1>3, <2>1, <2>2, <3>1
  <2>5. QED BY <2>3, <2>4
<1>9. (copies["base"])' = next
  OBVIOUS
<1> HIDE DEF gone, spot, new, next, tree
<1>10. (\A p \in Paths \ Linked :
          copies["base"][p] = IF p \in Touched THEN OnlySurface[p] ELSE BaseTree[p])'
  BY <1>5, <1>6, <1>9
<1>11. (\A p \in Paths : copies["base"][p].kind = "link" => BaseTree[p].kind = "link")'
  BY <1>5, <1>7, <1>9
<1>12. (\A g \in TestSurface \ todo : \A p \in HeadPath(g) : copies["base"][p].kind # "none")'
  BY <1>5, <1>8, <1>9 DEF HeadPath
<1>13. QED BY <1>10, <1>11, <1>12 DEF OverlaySoFar

\* Once it has seen to every file, base has the test surface of head.
LEMMA OverlayIsDone ==
  ASSUME diff \in Diffs, AsListed(diff), StaysInSurface(diff),
         OverlaySoFar, todo = {}
  PROVE  /\ \A p \in Paths \ Linked : copies["base"][p] = OnlySurface[p]
         /\ \A p \in HeadPaths : copies["base"][p].kind # "none"
<1>1. \A p \in HeadPaths : copies["base"][p].kind # "none"
  BY DEF OverlaySoFar, HeadPaths
<1>2. ASSUME NEW p \in Paths \ Linked PROVE copies["base"][p] = OnlySurface[p]
  <2>1. CASE p \in Touched
    BY <2>1 DEF OverlaySoFar
  <2>2. CASE p \notin Touched
    <3>1. copies["base"][p] = BaseTree[p]
      BY <2>2 DEF OverlaySoFar
    <3>2. \A f \in TestSurface : p \notin HeadPath(f) /\ p \notin BasePath(f)
      BY <2>2 DEF Touched
    <3>3. p \in Surface => \A f \in diff : f.path # p /\ (f.status = "R" => f.old # p)
      BY <3>2 DEF TestSurface, HeadPath, BasePath
    <3>4. p \in Surface => HeadTree[p] = BaseTree[p]
      BY <3>3 DEF HeadTree
    <3>5. QED BY <3>1, <3>4 DEF OnlySurface
  <2>3. QED BY <2>1, <2>2
<1>3. QED BY <1>1, <1>2

\* A filter names files of the tree its question is about, and no others.
LEMMA FilterIsThere ==
  ASSUME diff \in Diffs, AsListed(diff), StaysInSurface(diff)
  PROVE  /\ \A p \in BasePaths : BaseTree[p].kind # "none"
         /\ \A p \in HeadPaths : HeadTree[p].kind # "none"
<1>a. ASSUME NEW f \in TestSurface, f.status # "D" PROVE HeadTree[f.path].kind = f.to
  <2>1. HeadTree[f.path] = [kind |-> f.to, path |-> f.path, side |-> "new"]
    BY <1>a, HeadAt
  <2>2. QED BY <2>1
<1> USE DEF AsListed, StaysInSurface, TestSurface, HeadPath, BasePath
<1>0. BasePaths \subseteq Paths /\ HeadPaths \subseteq Paths
  BY FilterTyped, "inventory" # "overlaid" DEF Filter
<1>1. ASSUME NEW p \in BasePaths PROVE BaseTree[p].kind # "none"
  <2>1. PICK f \in TestSurface : p \in BasePath(f)
    BY DEF BasePaths
  <2>2. f \in diff /\ f.old = p /\ f.status \in {"M", "D", "R", "T"}
    BY <2>1, ChangesTyped DEF Changes
  <2>3. ~\E g \in diff : g.path = p /\ g.status \in {"A", "R", "C"}
    BY <2>2
  <2>4. QED BY <1>0, <2>3 DEF BaseTree
<1>2. ASSUME NEW p \in HeadPaths PROVE HeadTree[p].kind # "none"
  <2>1. PICK f \in TestSurface : p \in HeadPath(f)
    BY DEF HeadPaths
  <2>2. f \in diff /\ f.path = p /\ f.status # "D" /\ p \in Surface
    BY <2>1
  <2>3. HeadTree[p].kind = f.to
    BY <1>a, <2>1, <2>2
  <2>4. f.to # "none"
    BY <2>2, ChangesTyped DEF Changes
  <2>5. QED BY <2>3, <2>4
<1>3. QED BY <1>1, <1>2

LEMMA TreesFrame ==
  ASSUME diff' = diff
  PROVE  /\ BaseTree' = BaseTree /\ HeadTree' = HeadTree /\ OnlySurface' = OnlySurface
         /\ Linked' = Linked /\ TestSurface' = TestSurface
         /\ \A name : TreeNamed(name)' = TreeNamed(name)
  BY DEF BaseTree, HeadTree, OnlySurface, TreeNamed, Linked, TestSurface

\* What the overlay has done is told from the diff and what it has still to do.
LEMMA OverlayFrame ==
  ASSUME diff' = diff, todo' = todo, copies' = copies
  PROVE  OverlaySoFar => OverlaySoFar'
<1>1. Touched' = Touched
  BY TreesFrame DEF Touched, HeadPath, BasePath
<1>2. QED BY <1>1, TreesFrame DEF OverlaySoFar, HeadPath

\* A step without a run reads nothing new.
LEMMA ReadsFrame ==
  ASSUME ReadsItsTree, diff' = diff, last' = last
  PROVE  ReadsItsTree'
  BY TreesFrame DEF ReadsItsTree, Filtered

LEMMA ReadInitially == Init => ReadInv
<1> SUFFICES ASSUME Init PROVE ReadInv
  OBVIOUS
<1>1. StopsAsking /\ BaseInOrder /\ CopiesHold /\ ReadsItsTree
  BY DEF Init, StopsAsking, BaseInOrder, CopiesHold, ReadsItsTree, BasePhase, SuiteRuns, Filtered,
     Copies, Ops, Memoised
<1>2. QED BY <1>1, InitEstablishes DEF ReadInv

LEMMA AskKeepsCopies ==
  ASSUME ReadInv, NEW op \in Ops, Ask(op)
  PROVE  BaseInOrder' /\ CopiesHold'
<1>1. /\ doing = "none" /\ doing' = "none" /\ ~Failed
      /\ UNCHANGED <<diff, copies, laid, todo, stopped>>
  BY DEF ReadInv, PhaseInv, Phase, Ask, Failed
<1>2. /\ memo'["overlaid"] = memo["overlaid"] /\ memo'["inventory"] = memo["inventory"]
      /\ memo'["head"] = memo["head"]
  BY DEF ReadInv, PhaseInv, TypeOK, Ask, Ops, Memoised
<1>3. BaseInOrder'
  BY <1>1, <1>2 DEF ReadInv, BaseInOrder, BasePhase
<1>4. CopiesHold'
  BY <1>1, <1>2, TreesFrame DEF ReadInv, CopiesHold, SuiteRuns
<1>5. QED BY <1>3, <1>4

\* A phase that is settled leaves its copy as it was, or is an error.
LEMMA SettleKeepsCopies ==
  ASSUME ReadInv, NEW op \in Ops, Settle(op) \/ LayFails(op)
  PROVE  BaseInOrder' /\ CopiesHold'
<1> USE DEF ReadInv
<1>0. PICK answer \in {"ok", "err"} :
        /\ memo' = [memo EXCEPT ![op] = answer]
        /\ LayFails(op) => answer = "err"
  BY DEF Settle, LayFails
<1>1. /\ Due(op) /\ doing = "none" /\ doing' = "none" /\ call # "none"
      /\ UNCHANGED <<diff, laid, todo, stopped, call>>
  BY DEF Settle, LayFails, Due, Ready
<1>2. /\ memo' \in [Ops -> {"unasked", "ok", "err"}]
      /\ \A o \in Ops : memo'[o] = IF o = op THEN answer ELSE memo[o]
  BY <1>0 DEF PhaseInv, TypeOK
<1>3. {"inventory", "overlaid", "head"} \subseteq Ops
  BY DEF Ops, Memoised
<1>4. /\ op = "overlaid" => memo["inventory"] # "unasked"
      /\ op = "head" => memo["overlaid"] # "unasked"
  BY <1>1 DEF Due, Before
<1>5. BaseInOrder'
  BY <1>1, <1>2, <1>3, <1>4 DEF BaseInOrder, BasePhase
<1>6. CASE Settle(op)
  <2>1. copies' = copies
    BY <1>6 DEF Settle
  <2>2. Failed => Failed'
    BY <1>1, <1>2 DEF Failed, Due, PhaseInv, TypeOK
  <2>3. QED BY <1>5, <1>1, <1>2, <1>3, <2>1, <2>2, TreesFrame
        DEF CopiesHold, SuiteRuns, TreeNamed
<1>7. CASE LayFails(op)
  <2>1. copies' = [copies EXCEPT ![CopyOf(op)] = NoCopy] /\ NeedsLaying(op) /\ answer = "err"
    BY <1>0, <1>7 DEF LayFails
  <2>2. CASE CopyOf(op) = "suite"
    <3>1. call = op
      BY <1>1, <2>2 DEF CopyOf, Due, Within, Before
    <3>2. Failed'
      BY <1>1, <1>2, <2>1, <3>1 DEF Failed
    <3>3. copies'["base"] = copies["base"] /\ memo'["overlaid"] = memo["overlaid"]
      BY <1>2, <1>3, <2>1, <2>2 DEF PhaseInv, TypeOK, Copies, CopyOf
    <3>4. QED BY <1>5, <1>1, <3>2, <3>3, TreesFrame
        DEF CopiesHold, SuiteRuns, TreeNamed
  <2>3. CASE CopyOf(op) # "suite"
    <3>1. copies'["suite"] = copies["suite"]
      BY <2>1, <2>3 DEF PhaseInv, TypeOK, Copies
    <3>2. Failed => Failed'
      BY <1>1, <1>2 DEF Failed, Due, PhaseInv, TypeOK
    <3>3. laid["base"] = "base" => copies'["base"] = copies["base"]
      BY <2>1, <2>3 DEF NeedsLaying, PhaseInv, TypeOK, Copies, CopyOf, TreeOf
    <3>4. QED BY <1>5, <1>1, <1>2, <1>3, <3>1, <3>2, <3>3, TreesFrame
          DEF CopiesHold, SuiteRuns, TreeNamed
  <2>4. QED BY <2>2, <2>3
<1>8. QED BY <1>5, <1>6, <1>7

\* A phase begins on a copy that holds its tree: laid out for it, or kept since.
LEMMA EnterKeepsCopies ==
  ASSUME ReadInv, NEW op \in Ops, Reuse(op) \/ Lay(op)
  PROVE  BaseInOrder' /\ CopiesHold'
<1> USE OpsTyped DEF ReadInv
<1>1. /\ Ready(op) /\ Due(op) /\ doing = "none" /\ memo[op] = "unasked"
      /\ doing' = op /\ todo' = (IF op = "overlaid" THEN TestSurface ELSE {})
      /\ UNCHANGED <<diff, memo, call, stopped>>
  BY DEF Reuse, Lay, Ready, Due, Enter
<1>2. op # "none" /\ ~Failed' <=> ~stopped
  BY <1>1 DEF Failed
<1>3. op = "inventory" => memo["overlaid"] = "unasked"
  BY <1>1 DEF BaseInOrder
<1>4. laid'[CopyOf(op)] = TreeOf(op)
      /\ \A c \in Copies : c # CopyOf(op) => laid'[c] = laid[c] /\ copies'[c] = copies[c]
  BY DEF Reuse, Lay, NeedsLaying, PhaseInv, TypeOK
<1>5. BaseInOrder'
  BY <1>1, <1>3, <1>4 DEF BaseInOrder, BasePhase, CopyOf, TreeOf, Copies
<1>6. CASE CopyOf(op) = "base"
  <2>1. op \in BasePhase /\ TreeOf(op) = "base" /\ memo["overlaid"] = "unasked"
    BY <1>1, <1>3, <1>6 DEF CopyOf, TreeOf, BasePhase
  <2>2. copies'["base"] = BaseTree
    <3>1. CASE Reuse(op)
      BY <1>1, <1>6, <2>1, <3>1 DEF Reuse, NeedsLaying, CopiesHold, BasePhase
    <3>2. CASE Lay(op)
      BY <1>6, <2>1, <3>2 DEF Lay, TreeNamed, PhaseInv, TypeOK, Copies
    <3>3. QED BY <3>1, <3>2
  <2>3. copies'["suite"] = copies["suite"] /\ laid'["suite"] = laid["suite"]
    BY <1>4, <1>6 DEF Copies
  <2>4. Failed => stopped
    BY <1>1, <2>1 DEF Failed, Due, Within, Before, BasePhase, Ready, BaseInOrder
  <2>6. op = "overlaid" => OverlaySoFar'
    <3>1. CASE op = "overlaid"
      <4>1. (todo = TestSurface)' /\ (copies["base"] = BaseTree)'
        BY <1>1, <2>2, <3>1, TreesFrame
      <4>2. QED BY <4>1, OverlayBegins, PTL
    <3>2. QED BY <3>1
  <2>5. QED BY <1>5, <1>1, <1>2, <2>1, <2>2, <2>3, <2>4, <2>6, TreesFrame
        DEF CopiesHold, SuiteRuns, BasePhase, Failed, TreeNamed
<1>7. CASE CopyOf(op) = "head"
  <2>1. op = "head" /\ copies'["head"] = HeadTree
    BY <1>1, <1>7 DEF CopyOf, Reuse, Lay, NeedsLaying, TreeNamed, TreeOf, PhaseInv, TypeOK, Copies
  <2>2. copies'["suite"] = copies["suite"] /\ laid'["suite"] = laid["suite"]
        /\ copies'["base"] = copies["base"] /\ laid'["base"] = laid["base"]
    BY <1>4, <1>7 DEF Copies
  <2>3. Failed => stopped
    BY <1>1, <2>1 DEF Failed, Due, Within, Before, Ready, BaseInOrder
  <2>4. QED BY <1>5, <1>1, <1>2, <2>1, <2>2, <2>3, TreesFrame
        DEF CopiesHold, SuiteRuns, Failed, TreeNamed
<1>8. CASE CopyOf(op) = "suite"
  <2>1. op \in SuiteRuns /\ call = op /\ ~(memo[call] = "err")
    BY <1>1, <1>8 DEF CopyOf, SuiteRuns, Due, Within, Before, Ops, Memoised
  <2>2. ~stopped => copies'["suite"] = TreeNamed(TreeOf(op))
    <3>1. CASE Reuse(op)
      BY <1>1, <1>8, <2>1, <3>1 DEF Reuse, NeedsLaying, CopiesHold, Failed, TreeOf
    <3>2. CASE Lay(op)
      BY <1>8, <3>2 DEF Lay, PhaseInv, TypeOK, Copies
    <3>3. QED BY <3>1, <3>2
  <2>3. copies'["base"] = copies["base"] /\ laid'["base"] = laid["base"]
    BY <1>4, <1>8 DEF Copies
  <2>4. QED BY <1>5, <1>1, <1>2, <1>4, <1>8, <2>1, <2>2, <2>3, TreesFrame
        DEF CopiesHold, SuiteRuns, Failed, TreeNamed
<1>9. QED BY <1>5, <1>6, <1>7, <1>8 DEF CopyOf

LEMMA OverlayKeepsCopies ==
  ASSUME ReadInv, AsListed(diff), StaysInSurface(diff), OverlayFile \/ OverlayFails
  PROVE  BaseInOrder' /\ CopiesHold'
<1> USE DEF ReadInv
<1>1. /\ doing = "overlaid" /\ "overlaid" \in Ops
      /\ memo["overlaid"] = "unasked" /\ memo["inventory"] = "ok"
      /\ UNCHANGED <<diff, laid, call, stopped>>
  BY DEF OverlayFile, OverlayFails, PhaseInv, Phase, Before, Ops, Memoised
<1>2. OverlaySoFar /\ (Failed <=> stopped)
  BY <1>1 DEF CopiesHold, Failed
<1>3. copies'["suite"] = copies["suite"]
  BY DEF OverlayFile, OverlayFails, PhaseInv, TypeOK, Copies
<1>4. CASE OverlayFile
  <2>1. OverlaySoFar'
    <3>1. PICK f \in todo : /\ todo' = todo \ {f}
                            /\ copies' = [copies EXCEPT !["base"] = Overlay(@, f)]
      BY <1>4 DEF OverlayFile
    <3>2. f \in TestSurface /\ diff \in Diffs
          /\ copies'["base"] = Overlay(copies["base"], f)
      BY <3>1 DEF PhaseInv, TypeOK, Copies
    <3>3. QED BY <1>1, <1>2, <3>1, <3>2, OverlayGoesOn
  <2>2. doing' = doing /\ memo' = memo /\ (Failed' <=> stopped)
    BY <1>1, <1>4 DEF OverlayFile, Failed
  <2>3. BaseInOrder'
    BY <1>1, <2>2 DEF BaseInOrder, BasePhase
  <2>4. CopiesHold'
    BY <1>1, <1>2, <1>3, <2>1, <2>2, <1>4, TreesFrame
    DEF OverlayFile, CopiesHold, SuiteRuns, TreeNamed
  <2>5. QED BY <2>3, <2>4
<1>5. CASE OverlayFails
  <2>1. doing' = "none" /\ memo'["overlaid"] = "err" /\ memo'["inventory"] = "ok"
        /\ memo'["head"] = memo["head"]
    BY <1>1, <1>5 DEF OverlayFails, PhaseInv, TypeOK, Ops, Memoised
  <2>2. BaseInOrder'
    BY <1>1, <2>1 DEF BaseInOrder, BasePhase
  <2>3. ~Failed' => ~Failed
    BY <1>1, <1>2 DEF Failed
  <2>4. CopiesHold'
    BY <1>1, <1>3, <2>1, <2>3, TreesFrame DEF CopiesHold, SuiteRuns, TreeNamed
  <2>5. QED BY <2>2, <2>4
<1>6. QED BY <1>4, <1>5

\* A run that answers or fails leaves the copies alone. Its phase may be over.
LEMMA RunKeepsCopies ==
  ASSUME ReadInv, RunAnswers \/ RunFails
  PROVE  BaseInOrder' /\ CopiesHold'
<1> USE DEF ReadInv
<1>1. /\ doing \in Ops /\ doing # "none" /\ todo = {} /\ memo[doing] = "unasked"
      /\ call # "none"
      /\ \A o \in Before(doing) : memo[o] = "ok"
      /\ UNCHANGED <<diff, copies, laid, call, todo, stopped>>
  BY OpsTyped DEF RunAnswers, RunFails, PhaseInv, Phase, TypeOK
<1>2. ~Failed <=> ~stopped
  BY <1>1 DEF Failed
<1>3. {"inventory", "overlaid", "head"} \subseteq Ops
  BY DEF Ops, Memoised
<1>4. CASE doing' = doing /\ memo' = memo
  <2>1. Failed' <=> Failed
    BY <1>1, <1>4 DEF Failed
  <2>2. BaseInOrder'
    BY <1>1, <1>4 DEF BaseInOrder, BasePhase
  <2>3. CopiesHold'
    BY <1>1, <1>2, <1>4, <2>1, TreesFrame, OverlayFrame
    DEF CopiesHold, SuiteRuns, TreeNamed
  <2>4. QED BY <2>2, <2>3
<1>5. ASSUME NEW answer \in {"ok", "err"}, doing' = "none", memo' = [memo EXCEPT ![doing] = answer]
      PROVE  BaseInOrder' /\ CopiesHold'
  <2>1. \A o \in Ops : memo'[o] = IF o = doing THEN answer ELSE memo[o]
    BY <1>5 DEF PhaseInv, TypeOK
  <2>2. BaseInOrder'
    BY <1>1, <1>3, <1>5, <2>1 DEF BaseInOrder, BasePhase, Before
  <2>3. ~Failed' => ~Failed
    BY <1>1, <1>2 DEF Failed
  <2>4. memo'["overlaid"] = "unasked" => memo["overlaid"] = "unasked" /\ doing # "overlaid"
    BY <1>3, <1>5, <2>1
  <2>5. CopiesHold'
    BY <1>1, <1>5, <2>3, <2>4, TreesFrame DEF CopiesHold, SuiteRuns, TreeNamed
  <2>6. QED BY <2>2, <2>5
<1>6. QED BY <1>4, <1>5 DEF RunAnswers, RunFails, LastRun

\* What a run reads is what its copy holds, and its filter is the question's.
LEMMA RunReads ==
  ASSUME ReadInv, AsListed(diff), StaysInSurface(diff), RunAnswers
  PROVE  ReadsItsTree'
<1> USE DEF ReadInv
<1>1. /\ doing \in Ops /\ doing # "none" /\ todo = {} /\ ~Idle(doing)
      /\ diff' = diff /\ diff \in Diffs /\ call # "none"
      /\ last' = [op |-> doing, holds |-> copies[CopyOf(doing)],
                  filter |-> IF doing \in Filtered THEN Filter(doing) ELSE {}]
  BY OpsTyped DEF RunAnswers, PhaseInv, Phase, TypeOK
<1>2. ~stopped
  BY <1>1 DEF StopsAsking
<1>3. CASE doing = "overlaid"
  <2>1. \A p \in Paths \ Linked : copies["base"][p] = OnlySurface[p]
    BY <1>1, <1>3, DiffsAssumption, OverlayIsDone DEF CopiesHold
  <2>2. Filter(doing) # {} /\ \A p \in Filter(doing) : copies["base"][p].kind # "none"
    BY <1>1, <1>3, DiffsAssumption, OverlayIsDone DEF CopiesHold, Idle, Filter, Filtered
  <2>3. QED BY <1>1, <1>3, <2>1, <2>2, TreesFrame DEF ReadsItsTree, CopyOf, Filtered
<1>4. CASE doing # "overlaid"
  <2>1. copies[CopyOf(doing)] = TreeNamed(TreeOf(doing))
    BY <1>1, <1>2, <1>4 DEF BaseInOrder, CopiesHold, BasePhase, SuiteRuns, Failed, CopyOf, TreeOf,
       TreeNamed, Ops, Memoised
  <2>2. doing \in Filtered =>
          Filter(doing) # {} /\ \A p \in Filter(doing) : copies[CopyOf(doing)][p].kind # "none"
    BY <1>1, <1>4, <2>1, FilterIsThere DEF Idle, Filter, Filtered, TreeNamed, TreeOf
  <2>3. QED BY <1>1, <1>4, <2>1, <2>2, TreesFrame DEF ReadsItsTree
<1>5. QED BY <1>3, <1>4

LEMMA ReturnKeepsCopies ==
  ASSUME ReadInv, Return
  PROVE  BaseInOrder' /\ CopiesHold'
<1>1. /\ doing = "none" /\ stopped' = (memo[call] = "err") /\ call # "none" /\ call' = "none"
      /\ UNCHANGED <<diff, copies, laid, memo, doing, todo>>
  BY DEF Return
<1>2. Failed => Failed'
  BY <1>1 DEF Failed, ReadInv, StopsAsking
<1>3. BaseInOrder'
  BY <1>1 DEF ReadInv, BaseInOrder, BasePhase
<1>4. QED BY <1>1, <1>2, <1>3, TreesFrame
      DEF ReadInv, CopiesHold, SuiteRuns, TreeNamed

LEMMA StillCopies ==
  ASSUME ReadInv, UNCHANGED vars
  PROVE  ReadInv'
<1>1. PhaseInv'
  BY PhaseKeeps DEF ReadInv
<1>2. BaseInOrder' /\ StopsAsking'
  BY DEF vars, ReadInv, BaseInOrder, BasePhase, StopsAsking
<1>3. CopiesHold'
  BY TreesFrame, OverlayFrame DEF vars, ReadInv, CopiesHold, SuiteRuns, TreeNamed, Failed
<1>4. ReadsItsTree'
  BY ReadsFrame DEF vars, ReadInv
<1>5. QED BY <1>1, <1>2, <1>3, <1>4 DEF ReadInv

LEMMA ReadKeeps ==
  ASSUME ReadInv, AsListed(diff), StaysInSurface(diff), [Next]_vars
  PROVE  ReadInv'
<1>1. PhaseInv'
  BY PhaseKeeps DEF ReadInv
<1>2. ASSUME NEW op \in Ops, Ask(op) PROVE ReadInv'
  <2>1. StopsAsking' /\ ReadsItsTree'
    BY <1>2, ReadsFrame DEF Ask, ReadInv, StopsAsking
  <2>2. QED BY <1>1, <1>2, <2>1, AskKeepsCopies DEF ReadInv
<1>3. CASE Work
  <2>1. StopsAsking'
    BY <1>3 DEF Work, Settle, Reuse, Lay, LayFails, OverlayFile, OverlayFails, RunAnswers,
       RunFails, Return, ReadInv, StopsAsking
  <2>2. BaseInOrder' /\ CopiesHold'
    BY <1>3, SettleKeepsCopies, EnterKeepsCopies, OverlayKeepsCopies, RunKeepsCopies,
       ReturnKeepsCopies DEF Work
  <2>3. CASE RunAnswers
    BY <1>1, <2>1, <2>2, <2>3, RunReads DEF ReadInv
  <2>4. CASE ~RunAnswers
    <3>1. diff' = diff /\ last' = last
      BY <1>3, <2>4 DEF Work, Settle, Reuse, Lay, LayFails, OverlayFile, OverlayFails, RunFails,
         Return
    <3>2. QED BY <1>1, <2>1, <2>2, <3>1, ReadsFrame DEF ReadInv
  <2>5. QED BY <2>3, <2>4
<1>4. CASE UNCHANGED vars
  BY <1>4, StillCopies
<1>5. QED BY <1>2, <1>3, <1>4 DEF Next, Over

-----------------------------------------------------------------------------
(* The properties of Probe.                                                *)

\* A run of a phase is only ever done while the phase is under way.
LEMMA RunsWithinPhase ==
  ASSUME PhaseInv, [Next]_vars, NEW op \in Ops, ran'[op] # ran[op]
  PROVE  doing = op
<1>1. RunAnswers
  BY DEF vars, Next, Over, Ask, Work, Settle, Reuse, Lay, LayFails, OverlayFile, OverlayFails,
     RunFails, Return
<1>2. QED BY <1>1, OpsTyped DEF RunAnswers, PhaseInv, TypeOK

\* The probe's state keeps its types.
THEOREM ProbeTyped == Spec => []TypeOK
<1>1. PhaseInv => TypeOK
  BY DEF PhaseInv
<1>2. QED BY PhaseHolds, <1>1, PTL

\* Whatever the diff and however many gates ask, an answer is asked of the suite
\* once, and it is a whole one.
THEOREM AnswersAreShared == Spec => []SharedAnswers
<1>1. PhaseInv => SharedAnswers
  BY DEF PhaseInv, Counts, SharedAnswers
<1>2. QED BY PhaseHolds, <1>1, PTL

\* However the questions before it used the working copies, and whatever failed
\* before it, a run of test.sh reads the tree its question is about, and a
\* filtered one is given files that tree holds. Two things are excepted: a diff
\* with a file that crosses the border of the test surface, and in a run of head's
\* tests on base the paths where a symbolic link is in the way of the overlay.
THEOREM RunsReadTheirTree ==
  ASSUME \A d \in Diffs : StaysInSurface(d)
  PROVE  Spec => []ReadsItsTree
<1>1. ReadInv => AsListed(diff) /\ StaysInSurface(diff)
  BY DiffsAssumption DEF ReadInv, PhaseInv, TypeOK
<1>2. ReadInv /\ [Next]_vars => ReadInv'
  BY <1>1, ReadKeeps
<1>3. ReadInv => ReadsItsTree
  BY DEF ReadInv
<1>4. QED BY ReadInitially, <1>2, <1>3, PTL DEF Spec

\* In whatever order the questions come, no base run follows a head run.
THEOREM BaseComesFirst == Spec => BaseBeforeHead
<1>1. ASSUME PhaseInv, [Next]_vars, ran["head"] > 0, NEW op \in {"inventory", "overlaid"}
      PROVE  ran'[op] = ran[op]
  <2>1. memo["overlaid"] = "ok" /\ memo["inventory"] = "ok"
    BY <1>1 DEF PhaseInv, Chained, Before, Memoised
  <2>2. doing # op
    BY <1>1, <2>1 DEF PhaseInv, Phase
  <2>3. QED BY <1>1, <2>2, RunsWithinPhase, OpsTyped DEF Memoised
<1>2. PhaseInv /\ [Next]_vars
      => [ran["head"] > 0 => \A op \in {"inventory", "overlaid"} : ran'[op] = ran[op]]_vars
  BY <1>1
<1>3. QED BY PhaseHolds, <1>2, PTL DEF Spec, BaseBeforeHead

=============================================================================
