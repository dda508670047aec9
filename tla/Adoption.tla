----------------------------- MODULE Adoption ------------------------------
(***************************************************************************)
(* The files a repository adopts redfirst with: what redfirst init writes  *)
(* into the work tree (cmd/redfirst/init.go, internal/cliux), and what     *)
(* doctor says is missing for the next tier. Only what is on base counts   *)
(* for a verdict; init writes and doctor advises from the work tree.       *)
(***************************************************************************)
EXTENDS Rules, SequencesExt

CONSTANTS
  WorkflowAt,  \* per commit, whether the workflow is on it
  WorkTrees,   \* the work trees of interest: sets of paths
  Markers,     \* what the files at the root say: [stacks, compose]
  Orders,      \* what init is asked for: [ci, config, hooks]
  Released     \* whether this binary knows a release to pin

Stacks == {"node", "python", "go"}
Presets == {"node-unit", "node-postgres-docker", "python-pytest", "go", "blank"}
HookFiles == {"compose.yaml", "env.sh", "env-up.sh", "env-reset.sh", "test.sh", "env-down.sh"}

\* The directory of the hooks, .redfirst, which may be there without a file of theirs.
Hooks == "hooks"

\* A work tree holds the directory and the hook files in it by their own names.
TreePaths == {"workflow", "config", Hooks} \union HookFiles

ASSUME AdoptionAssumption ==
  /\ WorkflowAt \in [Commits -> BOOLEAN]
  /\ WorkTrees \subseteq SUBSET TreePaths
  /\ \A t \in WorkTrees : t \intersect HookFiles # {} => Hooks \in t
  /\ Markers \subseteq [stacks : SUBSET Stacks, compose : BOOLEAN]
  /\ Orders \subseteq [ci : BOOLEAN, config : BOOLEAN, hooks : Presets \union {"", "auto"}]
  /\ \A o \in Orders : o.ci \/ o.config \/ o.hooks # ""
  /\ Released \in BOOLEAN

VARIABLES
  tree,      \* the paths in the work tree
  markers,
  order,     \* what init was asked for, and has still to do
  todo,      \* the hook files init has checked and has still to write
  found,     \* the hook files init found
  spoiled    \* a write failed

adoptionVars == <<tree, markers, order, todo, found, spoiled>>

AdoptionInit(files, says, wants) ==
  /\ tree = files /\ markers = says /\ order = wants
  /\ todo = <<>> /\ found = tree \intersect HookFiles /\ spoiled = FALSE

AdoptionTypeOK ==
  /\ tree \subseteq TreePaths /\ found \subseteq tree \intersect HookFiles
  /\ spoiled \in BOOLEAN
  /\ Range(todo) \subseteq HookFiles
  /\ order \in [ci : BOOLEAN, config : BOOLEAN, hooks : Presets \union {"", "auto"}]

-----------------------------------------------------------------------------
(* Which preset and which files.                                           *)

\* hookSets.
FilesOf(preset) ==
  IF preset = "node-postgres-docker"
  THEN <<"compose.yaml", "env.sh", "env-up.sh", "env-reset.sh", "test.sh", "env-down.sh">>
  ELSE <<"env-up.sh", "test.sh", "env-down.sh">>

\* What "auto" writes: two stacks refuse rather than pick.
PresetFor(m) ==
  IF Cardinality(m.stacks) > 1 THEN "refused"
  ELSE IF m.stacks = {"node"} THEN IF m.compose THEN "node-postgres-docker" ELSE "node-unit"
  ELSE IF m.stacks = {"python"} THEN "python-pytest"
  ELSE IF m.stacks = {"go"} THEN "go" ELSE "blank"

Picked(hooksFlag) == IF hooksFlag = "auto" THEN PresetFor(markers) ELSE hooksFlag

\* A path that is there is never written over.
Free(paths) == paths \intersect tree = {}

\* Checks each file as it comes to write it.
HooksFree_bug(files) == Free({files[1]})

\* The whole hook set is checked before any of it lands.
HooksFree(files) == Free(Range(files))

-----------------------------------------------------------------------------
(* init: the workflow, the config, the hooks, in that order, each reported *)
(* as it lands. A write that fails may leave nothing behind, the directory *)
(* alone or the file, and a report that fails comes after the write.       *)

\* MkdirAll comes before WriteFile.
With(path) == IF path \in HookFiles THEN {path, Hooks} ELSE {path}

Done == ~order.ci /\ ~order.config /\ order.hooks = "" /\ todo = <<>>

\* What a write leaves: the steps that remain, or the end of a run.
Writes(path, rest, left) ==
  \/ /\ tree' = tree \union With(path) /\ order' = rest /\ todo' = left
     /\ UNCHANGED <<ruleVars, markers, found, spoiled>>
  \/ /\ \E there \in {{}, With(path) \ {path}, With(path)} : tree' = tree \union there
     /\ spoiled' = TRUE
     /\ Exit(4)
     /\ UNCHANGED <<markers, order, todo, found>>

Refuses == Exit(4) /\ UNCHANGED adoptionVars

\* An unpinned workflow would be a weaker file than the one asked for.
InitCI ==
  /\ at = "generate" /\ order.ci
  /\ IF Released /\ Free({"workflow"})
     THEN Writes("workflow", [order EXCEPT !.ci = FALSE], <<>>)
     ELSE Refuses

InitConfig ==
  /\ at = "generate" /\ ~order.ci /\ order.config
  /\ IF Free({"config"}) THEN Writes("config", [order EXCEPT !.config = FALSE], <<>>)
     ELSE Refuses

InitHooks ==
  /\ at = "generate" /\ ~order.ci /\ ~order.config /\ order.hooks # ""
  /\ LET preset == Picked(order.hooks)
     IN IF preset # "refused" /\ HooksFree(FilesOf(preset))
        THEN /\ todo' = FilesOf(preset) /\ order' = [order EXCEPT !.hooks = ""]
             /\ UNCHANGED <<ruleVars, tree, markers, found, spoiled>>
        ELSE Refuses

\* write looks for itself again.
WriteHook ==
  /\ at = "generate" /\ todo # <<>>
  /\ IF Free({Head(todo)}) THEN Writes(Head(todo), order, Tail(todo)) ELSE Refuses

InitEnds ==
  /\ at = "generate" /\ Done
  /\ Exit(0) /\ UNCHANGED adoptionVars

AdoptionStep == InitCI \/ InitConfig \/ InitHooks \/ WriteHook \/ InitEnds

-----------------------------------------------------------------------------
(* doctor: where a file was found, the tier, and the step up.              *)

\* anyKind: a file or a directory, whatever is in it.
InTree(path) == path \in tree

OnBase(path) ==
  IF path = Hooks THEN HooksAt[pinned] # Missing
  ELSE IF path = "workflow" THEN WorkflowAt[pinned]
  ELSE ConfigAt[pinned] # Missing

Located(path) == IF OnBase(path) THEN "base" ELSE IF InTree(path) THEN "tree" ELSE "nowhere"

Tier == IF Located("workflow") # "base" THEN 0 ELSE IF Located(Hooks) = "base" THEN 2 ELSE 1

\* Names the generator whether the file is there or not.
NextTier_bug ==
  IF Tier = 0 THEN "init-ci"
  ELSE IF Tier = 2 THEN "nothing"
  ELSE IF PresetFor(markers) = "refused" THEN "init-hooks-preset" ELSE "init-hooks-auto"

\* writeNextTier: a file that is in the work tree needs committing, and one that is
\* not needs its generator.
NextTier ==
  IF Tier = 0 THEN IF Located("workflow") = "tree" THEN "commit-workflow" ELSE "init-ci"
  ELSE IF Tier = 2 THEN "nothing"
  ELSE IF Located(Hooks) = "tree" THEN "commit-hooks"
  ELSE IF PresetFor(markers) = "refused" THEN "init-hooks-preset" ELSE "init-hooks-auto"

-----------------------------------------------------------------------------
(* Properties.                                                             *)

\* doctor never sends somebody to a refusal: where it names a command of init, that
\* command would find every path free and a preset to write, in a released binary;
\* where it names a commit, base does not have what it names and the work tree does,
\* if only, of the hooks, their directory.
AdviceIsTaken ==
  command = "doctor" /\ pinned # 0 =>
    /\ NextTier = "init-ci" => Free({"workflow"})
    /\ NextTier \in {"init-hooks-auto", "init-hooks-preset"} =>
         \A p \in Presets : HooksFree(FilesOf(p))
    /\ NextTier = "init-hooks-auto" => Picked("auto") \in Presets
    /\ NextTier = "commit-workflow" => "workflow" \in tree /\ ~WorkflowAt[pinned]
    /\ NextTier = "commit-hooks" => Hooks \in tree /\ HooksAt[pinned] = Missing

\* Half a hook set is the one state the contract of the hooks has no name for: init
\* leaves either the hook files it found or a preset it wrote whole where it found
\* none of its files, whatever it refused on the way, unless a write failed.
HookSetIsWhole ==
  command = "init" /\ at = "exited" /\ ~spoiled =>
    LET hookFiles == tree \intersect HookFiles
    IN \/ hookFiles = found
       \/ \E p \in Presets : /\ found \intersect Range(FilesOf(p)) = {}
                            /\ hookFiles = found \union Range(FilesOf(p))

=============================================================================
