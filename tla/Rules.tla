------------------------------- MODULE Rules -------------------------------
(***************************************************************************)
(* Where the rules of a run come from. A command reads the config from the *)
(* base ref, joins it onto the built-in defaults key by key and refuses    *)
(* one that is broken or weakens a check (internal/config). verify then    *)
(* reads the diff, the presence of the hooks, the key of the base probe    *)
(* and the hooks themselves (cmd/redfirst/verify.go, digest.go); explain   *)
(* prints, doctor and audit go on in modules of their own.                 *)
(*                                                                         *)
(* A ref is a branch, and a branch may move between two reads. A command   *)
(* that resolved its ref reads that commit from then on.                   *)
(***************************************************************************)
EXTENDS Integers, FiniteSets, Sequences

CONSTANTS
  Commits,     \* the commits the base branch goes through, 1..n
  Missing, Unreadable,
  ConfigAt,    \* the config file of each: Missing, Unreadable, or a ConfigFile
  HooksAt,     \* the hook directory of each: an id, or Missing
  Flags        \* the flags of interest

GateIDs == {"diff-budget", "test-immutability", "suite-green", "red-green"}
Keys == {"version", "severity", "disabled", "protected", "guarded", "immutability",
         "fixtures_immutability", "probe_runs", "red_green"}

Modes == {"strict", "append-only", "cases", "warn"}

\* What the decoder made of a file: the keys it sets, and whether it has a key the
\* config does not know, or a scope, which it knows and refuses, or a line that is
\* no TOML. A mode that is none of the four does not decode.
ConfigFile(file) ==
  /\ DOMAIN file.sets \subseteq Keys /\ {file.unknown, file.malformed} \subseteq BOOLEAN
  /\ "immutability" \in DOMAIN file.sets => file.sets["immutability"] \in Modes

ASSUME RulesAssumption ==
  /\ IsFiniteSet(Commits) /\ Commits = 1..Cardinality(Commits)
  /\ DOMAIN ConfigAt = Commits /\ DOMAIN HooksAt = Commits
  /\ \A c \in Commits : ConfigAt[c] \in {Missing, Unreadable} \/ ConfigFile(ConfigAt[c])
  /\ Flags \subseteq [probeRuns : Nat, noHooks : BOOLEAN, testFiles : BOOLEAN,
                      unit : {"auto", "merge", "squash", "commit"}, last : Nat \ {0},
                      since : Nat]

VARIABLES
  command,   \* "verify", "explain", "doctor", "audit" or "init"
  flags,
  tip,       \* the commit the base branch points to
  pinned,    \* the commit the command resolved its ref to, 0 where it did not
  at,        \* the step that is next, "exited" at the end
  cfg,       \* the effective config
  broken,    \* doctor: the config was refused and the defaults stand in
  hooks,     \* whether the run has hooks
  from,      \* the commit each fact was read from, 0 before
  code       \* the exit code, -1 before the exit

ruleVars == <<command, flags, tip, pinned, at, cfg, broken, hooks, from, code>>

Facts == {"config", "diff", "hooks", "key", "session"}

-----------------------------------------------------------------------------
(* The config.                                                             *)

Defaults ==
  [version |-> 1, severity |-> [g \in {"diff-budget"} |-> "warn"], disabled |-> {},
   protected |-> {"rules"}, guarded |-> {"ci"},
   immutability |-> "append-only", fixtures_immutability |-> "warn",
   probe_runs |-> 3, red_green |-> TRUE]

\* The decoder writes over the defaults: a key the file sets replaces its default
\* whole, and only severity, a map, is merged entry by entry.
Joined(file) ==
  [k \in Keys |->
     IF k \notin DOMAIN file.sets THEN Defaults[k]
     ELSE IF k # "severity" THEN file.sets[k]
     ELSE [g \in DOMAIN Defaults[k] \union DOMAIN file.sets[k] |->
             IF g \in DOMAIN file.sets[k] THEN file.sets[k][g] ELSE Defaults[k][g]]]

Lowered(c) == {g \in DOMAIN c.severity : c.severity[g] = "warn"}

\* Looks for a clash among the keys the file sets itself.
Valid_bug(file) ==
  LET c == Joined(file)
  IN /\ ~file.unknown /\ c.version = 1
     /\ DOMAIN c.severity \union c.disabled \subseteq GateIDs
     /\ Lowered(c) \intersect {"red-green", "suite-green"} = {}
     /\ {"protected", "guarded"} \subseteq DOMAIN file.sets => c.protected \intersect c.guarded = {}
     /\ c.immutability # "warn" /\ c.probe_runs >= 1

\* validate, on the joined config: what each row of its table refuses.
Valid(file) ==
  LET c == Joined(file)
  IN /\ ~file.unknown /\ c.version = 1
     /\ DOMAIN c.severity \union c.disabled \subseteq GateIDs
     /\ Lowered(c) \intersect {"red-green", "suite-green"} = {}
     /\ c.protected \intersect c.guarded = {}
     /\ c.immutability # "warn" /\ c.probe_runs >= 1

\* resolveRedGreenEnabled: red-green's own switch is one more disabled gate.
Resolved(c) ==
  [c EXCEPT !.disabled = @ \union (IF c.red_green THEN {} ELSE {"red-green"})]

\* DowngradeCasesWithoutHooks, for both lists.
Downgraded(c) ==
  LET Lower(mode) == IF mode = "cases" THEN "append-only" ELSE mode
  IN [c EXCEPT !.immutability = Lower(@), !.fixtures_immutability = Lower(@)]

-----------------------------------------------------------------------------
CommandNames == {"verify", "explain", "doctor", "audit", "init"}

RulesInit(name, with) ==
  /\ command = name /\ flags = with
  /\ tip \in Commits /\ pinned = 0
  /\ at = "start"
  /\ cfg = Defaults /\ broken = FALSE /\ hooks = FALSE
  /\ from = [f \in Facts |-> 0] /\ code = -1

RulesTypeOK ==
  /\ command \in CommandNames /\ flags \in Flags /\ tip \in Commits /\ pinned \in Commits \union {0}
  /\ at \in {"start", "resolve", "lookup", "show", "diff", "hooks", "key", "open", "judge",
             "report", "probe", "close", "print", "mode", "walk", "units", "generate", "exited"}
  /\ DOMAIN cfg = Keys /\ cfg.immutability \in Modes
  /\ broken \in BOOLEAN /\ hooks \in BOOLEAN
  /\ from \in [Facts -> Commits \union {0}]
  /\ code \in (0..5) \union {-1}
  /\ at = "exited" <=> code # -1

\* The commit a read of the base ref reaches.
Base == IF pinned = 0 THEN tip ELSE pinned

Exit(with) ==
  /\ at' = "exited" /\ code' = with
  /\ UNCHANGED <<command, flags, tip, pinned, cfg, broken, hooks, from>>

\* A push, or a fetch of another process, while the command runs.
BranchMoves ==
  /\ at # "exited" /\ tip + 1 \in Commits
  /\ tip' = tip + 1
  /\ UNCHANGED <<command, flags, pinned, at, cfg, broken, hooks, from, code>>

\* Git is gone, or the deadline struck: any step that reads the repository. What it
\* prints of a blob, a diff or a history may also be something nobody can read.
GitFails ==
  /\ at \in {"start", "resolve", "lookup", "show", "diff", "hooks", "key", "open", "report",
             "mode", "walk", "units"}
  /\ \/ Exit(2)
     \/ at \in {"show", "diff", "mode", "walk", "units"} /\ Exit(4)

\* gitx.Open anchors every command at the top of the work tree.
OpenRepo ==
  /\ at = "start"
  /\ at' = IF command = "doctor" THEN "resolve"
           ELSE IF command = "init" THEN "generate" ELSE "lookup"
  /\ UNCHANGED <<command, flags, tip, pinned, cfg, broken, hooks, from, code>>

\* doctor alone resolves the ref before it reads anything.
Resolve ==
  /\ at = "resolve"
  /\ pinned' = tip /\ at' = "lookup"
  /\ UNCHANGED <<command, flags, tip, cfg, broken, hooks, from, code>>

AfterConfig ==
  IF command = "verify" THEN "diff" ELSE IF command = "doctor" THEN "report"
  ELSE IF command = "explain" THEN "print" ELSE "mode"

\* Load: a missing file is no error, the defaults are the rules then.
LookUpConfig ==
  /\ at = "lookup"
  /\ from' = [from EXCEPT !.config = Base]
  /\ at' = IF ConfigAt[Base] = Missing THEN AfterConfig ELSE "show"
  /\ UNCHANGED <<command, flags, tip, pinned, cfg, broken, hooks, code>>

\* The file Exists found may be gone by now, or its blob was never fetched.
ConfigUnreadable ==
  /\ at = "show" /\ ConfigAt[Base] \in {Missing, Unreadable}
  /\ Exit(2)

Refused(file) == file.malformed \/ ~Valid(file)

\* A config nobody may run with is exit code 3, except for doctor, which is what
\* one runs to hear about it.
ConfigRefused ==
  /\ at = "show" /\ ConfigAt[Base] \notin {Missing, Unreadable} /\ Refused(ConfigAt[Base])
  /\ IF command # "doctor" THEN Exit(3)
     ELSE /\ cfg' = Defaults /\ broken' = TRUE /\ at' = AfterConfig
          /\ from' = [from EXCEPT !.config = Base]
          /\ UNCHANGED <<command, flags, tip, pinned, hooks, code>>

ConfigLoads ==
  /\ at = "show" /\ ConfigAt[Base] \notin {Missing, Unreadable} /\ ~Refused(ConfigAt[Base])
  /\ cfg' = Resolved(Joined(ConfigAt[Base])) /\ at' = AfterConfig
  /\ from' = [from EXCEPT !.config = Base]
  /\ UNCHANGED <<command, flags, tip, pinned, broken, hooks, code>>

-----------------------------------------------------------------------------
(* prepare and judge of verify, up to the first gate.                      *)

\* --probe-runs, and the diff, which resolves the ref for itself.
ReadDiff ==
  /\ at = "diff"
  /\ cfg' = IF flags.probeRuns > 0 THEN [cfg EXCEPT !.probe_runs = flags.probeRuns] ELSE cfg
  /\ from' = [from EXCEPT !.diff = Base] /\ at' = "hooks"
  /\ UNCHANGED <<command, flags, tip, pinned, broken, hooks, code>>

\* The hooks are looked for under the name of the branch.
LookForHooks ==
  /\ at = "hooks"
  /\ from' = [from EXCEPT !.hooks = Base]
  /\ hooks' = (HooksAt[Base] # Missing /\ ~flags.noHooks)
  /\ cfg' = IF hooks' THEN cfg ELSE Downgraded(cfg)
  /\ at' = IF hooks' /\ flags.testFiles THEN "key" ELSE "open"
  /\ UNCHANGED <<command, flags, tip, pinned, broken, code>>

\* baseProbeKey, for a probe that would run. It has no name for hooks that left.
NameBaseProbe ==
  /\ at = "key"
  /\ IF HooksAt[Base] = Missing THEN Exit(2)
     ELSE /\ from' = [from EXCEPT !.key = Base] /\ at' = "open"
          /\ UNCHANGED <<command, flags, tip, pinned, cfg, broken, hooks, code>>

\* environment: the session takes its hooks from the commit of the diff. Where a
\* gate refused before, or there are no hooks, it never opens.
OpenSession ==
  /\ at = "open"
  /\ \/ /\ hooks /\ HooksAt[from.diff] # Missing
        /\ from' = [from EXCEPT !.session = from.diff] /\ at' = "judge"
        /\ UNCHANGED <<command, flags, tip, pinned, cfg, broken, hooks, code>>
     \/ /\ hooks /\ HooksAt[from.diff] = Missing
        /\ Exit(2)
     \/ /\ at' = "judge"
        /\ UNCHANGED <<command, flags, tip, pinned, cfg, broken, hooks, from, code>>

\* Explain: the rules are printed, or cannot be.
Explains ==
  /\ command = "explain" /\ at = "print"
  /\ \E c \in {0, 4} : Exit(c)

\* What follows is Verify.
Verdict ==
  /\ at = "judge"
  /\ \E c \in 0..5 : Exit(c)

RulesStep ==
  \/ BranchMoves \/ GitFails \/ OpenRepo \/ Resolve \/ LookUpConfig
  \/ ConfigUnreadable \/ ConfigRefused \/ ConfigLoads
  \/ ReadDiff \/ LookForHooks \/ NameBaseProbe \/ OpenSession \/ Explains \/ Verdict

-----------------------------------------------------------------------------
(* Properties.                                                             *)

\* No command judges by rules nobody wrote: whatever files the branch goes through,
\* the two gates that carry the claim block, a probe runs at least once, a path
\* that is protected by default or by the file is not at the same time merely
\* guarded, tests never merely warn, and without hooks no list waits for outcomes.
\* An exit with code 3 before the gates means a file of base that was refused.
RulesAreSound ==
  /\ Lowered(cfg) \intersect {"red-green", "suite-green"} = {}
  /\ cfg.probe_runs >= 1 /\ cfg.immutability # "warn"
  /\ cfg.protected \intersect cfg.guarded = {}
  /\ at = "judge" /\ ~hooks => "cases" \notin {cfg.immutability, cfg.fixtures_immutability}
  /\ code = 3 /\ from.diff = 0 =>
       \E c \in Commits : ConfigAt[c] \notin {Missing, Unreadable} /\ Refused(ConfigAt[c])

\* "A branch that moved mid-run would hand two phases two rule sets" (verify.go):
\* everything that decides a run of verify is read from one commit.
OneRuleSet ==
  command = "verify" =>
    \A f, g \in Facts : from[f] # 0 /\ from[g] # 0 => from[f] = from[g]

=============================================================================
