--------------------------- MODULE CommandsProofs ---------------------------
(***************************************************************************)
(* Proofs about Commands, for any branch, any config files on it and any   *)
(* invocations: no command goes by rules that the validation would have    *)
(* refused, init leaves no half of a hook set, doctor's advice is sound    *)
(* and its diagnosis honest, and an audit answers for a whole window.      *)
(***************************************************************************)
EXTENDS Commands, FiniteSetTheorems, TLAPS

-----------------------------------------------------------------------------
(* The rules.                                                              *)

\* What a command keeps to while it reads.
Kept ==
  /\ flags \in Flags /\ tip \in Commits /\ pinned \in Commits \union {0}
  /\ DOMAIN cfg = Keys /\ DOMAIN from = Facts

\* What validation asks of a config, and no later step takes back.
Sound ==
  /\ Lowered(cfg) \intersect {"red-green", "suite-green"} = {}
  /\ cfg.probe_runs >= 1 /\ cfg.immutability # "warn"
  /\ cfg.protected \intersect cfg.guarded = {}

\* Behind the diff its commit is known, and behind the hooks the mode of a run
\* without them.
Reached ==
  /\ at \in {"hooks", "key", "open", "judge"} => from.diff # 0
  /\ at = "key" => hooks
  /\ at \in {"open", "judge"} /\ ~hooks =>
       "cases" \notin {cfg.immutability, cfg.fixtures_immutability}

\* A code is spoken once, and code 3 before the diff over a file that was refused.
Spoken ==
  /\ at # "exited" => code = -1
  /\ code = 3 /\ from.diff = 0 =>
       \E c \in Commits : ConfigAt[c] \notin {Missing, Unreadable} /\ Refused(ConfigAt[c])

RulesInv == Kept /\ Sound /\ Reached /\ Spoken

\* What a step of init, doctor or audit may do to the rules.
Elsewhere ==
  \/ UNCHANGED ruleVars
  \/ at # "exited" /\ \E c \in {0, 4} : Exit(c)
  \/ /\ at # "exited" /\ at' \in {"probe", "close", "print", "walk"}
     /\ UNCHANGED <<command, flags, tip, pinned, cfg, broken, hooks, from, code>>
  \/ /\ at # "exited" /\ at' = "units" /\ cfg' = Downgraded(cfg)
     /\ UNCHANGED <<command, flags, tip, pinned, broken, hooks, from, code>>

LEMMA CommitsAreNumbers == 0 \notin Commits
<1> DEFINE n == Cardinality(Commits)
<1>1. Commits = 1..n
  BY RulesAssumption
<1> HIDE DEF n
<1>2. \A S : S = 1..n => 0 \notin S
  OBVIOUS
<1>3. QED BY <1>1, <1>2

LEMMA BaseIsCommit ==
  ASSUME Kept
  PROVE  Base \in Commits /\ Base # 0
  BY CommitsAreNumbers DEF Kept, Base

LEMMA JoinedKeeps ==
  ASSUME NEW file
  PROVE  DOMAIN Joined(file) = Keys
  BY DEF Joined

LEMMA ResolvedKeeps ==
  ASSUME NEW c, DOMAIN c = Keys
  PROVE  /\ DOMAIN Resolved(c) = Keys
         /\ \A k \in Keys \ {"disabled"} : Resolved(c)[k] = c[k]
  BY DEF Resolved, Keys

LEMMA DowngradedKeeps ==
  ASSUME NEW c, DOMAIN c = Keys
  PROVE  /\ DOMAIN Downgraded(c) = Keys
         /\ \A k \in Keys \ {"immutability", "fixtures_immutability"} : Downgraded(c)[k] = c[k]
         /\ "cases" \notin {Downgraded(c).immutability, Downgraded(c).fixtures_immutability}
         /\ c.immutability # "warn" => Downgraded(c).immutability # "warn"
  BY DEF Downgraded, Keys

LEMMA DefaultsAreSound ==
  /\ DOMAIN Defaults = Keys
  /\ Lowered(Defaults) \intersect {"red-green", "suite-green"} = {}
  /\ Defaults.probe_runs >= 1 /\ Defaults.immutability # "warn"
  /\ Defaults.protected \intersect Defaults.guarded = {}
  BY DEF Defaults, Lowered, Keys

LEMMA AdoptionIsElsewhere == AdoptionStep => Elsewhere
  BY DEF AdoptionStep, InitCI, InitConfig, InitHooks, WriteHook, InitEnds, Writes, Refuses, Elsewhere

LEMMA DoctorIsElsewhere == DoctorStep => Elsewhere
<1>1. ASSUME Locates \/ OpenFails \/ Opens \/ LaysCopy \/ RunsTwice \/ RunsTheOther \/ Closes
      PROVE  at # "exited" /\ \E next \in {"probe", "close", "print"} : GoesTo(next)
  BY <1>1, Zenon DEF Locates, OpenFails, Opens, LaysCopy, RunsTwice, RunsTheOther, Concludes, Closes
<1>2. ASSUME Prints
      PROVE  at # "exited" /\ \E c \in {0, 4} : Exit(c)
  BY <1>2 DEF Prints
<1>3. QED BY <1>1, <1>2 DEF DoctorStep, GoesTo, Elsewhere

LEMMA AuditIsElsewhere == AuditStep => Elsewhere
  BY DEF AuditStep, ResolveMode, Walk, JudgeUnit, Summarise, Elsewhere

LEMMA SoundKept ==
  ASSUME Sound, Kept, Kept',
         \A k \in Keys \ {"immutability", "fixtures_immutability", "disabled"} : cfg'[k] = cfg[k],
         cfg'.immutability # "warn"
  PROVE  Sound'
<1>1. /\ cfg'.severity = cfg.severity /\ cfg'.probe_runs = cfg.probe_runs
      /\ cfg'.protected = cfg.protected /\ cfg'.guarded = cfg.guarded
  BY DEF Keys
<1>2. Lowered(cfg') = Lowered(cfg)
  BY <1>1 DEF Lowered
<1>3. QED BY <1>1, <1>2 DEF Sound, Lowered

LEMMA ElsewhereKeeps ==
  ASSUME RulesInv, Elsewhere
  PROVE  RulesInv'
<1>1. CASE UNCHANGED ruleVars
  BY <1>1 DEF RulesInv, Kept, Sound, Lowered, Reached, Spoken, ruleVars
<1>2. CASE at # "exited" /\ \E c \in {0, 4} : Exit(c)
  BY <1>2 DEF RulesInv, Kept, Sound, Lowered, Reached, Spoken, Exit
<1>3. CASE /\ at # "exited" /\ at' \in {"probe", "close", "print", "walk"}
           /\ UNCHANGED <<command, flags, tip, pinned, cfg, broken, hooks, from, code>>
  BY <1>3 DEF RulesInv, Kept, Sound, Lowered, Reached, Spoken
<1>4. CASE /\ at # "exited" /\ at' = "units" /\ cfg' = Downgraded(cfg)
           /\ UNCHANGED <<command, flags, tip, pinned, broken, hooks, from, code>>
  <2>1. Kept'
    BY <1>4, DowngradedKeeps DEF RulesInv, Kept
  <2>2. Sound'
    BY <1>4, <2>1, DowngradedKeeps, SoundKept DEF RulesInv, Kept, Sound
  <2>3. QED BY <1>4, <2>1, <2>2 DEF RulesInv, Reached, Spoken
<1>5. QED BY <1>1, <1>2, <1>3, <1>4 DEF Elsewhere

LEMMA RulesKeep ==
  ASSUME RulesInv, RulesStep
  PROVE  RulesInv'
<1> USE DEF RulesInv
<1>0. AfterConfig \in {"diff", "report", "print", "mode"}
  BY DEF AfterConfig
<1>1. CASE BranchMoves \/ OpenRepo \/ Resolve
  <2>1. UNCHANGED <<flags, cfg, hooks, from, code>> /\ at # "exited"
    BY <1>1 DEF BranchMoves, OpenRepo, Resolve
  <2>2. Kept'
    BY <1>1, <2>1 DEF Kept, BranchMoves, OpenRepo, Resolve
  <2>3. at' \in {at, "resolve", "generate", "lookup"}
    BY <1>1 DEF BranchMoves, OpenRepo, Resolve
  <2>4. QED BY <2>1, <2>2, <2>3 DEF Sound, Lowered, Reached, Spoken
<1>2. CASE GitFails \/ ConfigUnreadable \/ Explains \/ Verdict
  <2>1. PICK c \in 0..5 : Exit(c) /\ (c = 3 => at = "judge")
    BY <1>2 DEF GitFails, ConfigUnreadable, Explains, Verdict
  <2>2. QED BY <2>1 DEF Exit, Kept, Sound, Lowered, Reached, Spoken
<1>3. CASE LookUpConfig
  BY <1>0, <1>3 DEF LookUpConfig, Kept, Sound, Lowered, Reached, Spoken, Facts
<1>4. CASE ConfigRefused
  <2>1. CASE Exit(3)
    BY <1>4, <2>1, BaseIsCommit DEF ConfigRefused, Exit, Kept, Sound, Lowered, Reached, Spoken
  <2>2. CASE /\ cfg' = Defaults /\ at' = AfterConfig
             /\ from' = [from EXCEPT !.config = Base]
             /\ UNCHANGED <<command, flags, tip, pinned, hooks, code>>
    <3>1. Kept' /\ Sound'
      BY <2>2, DefaultsAreSound DEF Kept, Sound, Lowered
    <3>2. Reached' /\ Spoken'
      BY <1>0, <1>4, <2>2 DEF ConfigRefused, Kept, Reached, Spoken, Facts
    <3>3. QED BY <3>1, <3>2
  <2>3. QED BY <1>4, <2>1, <2>2 DEF ConfigRefused
<1>5. CASE ConfigLoads
  <2> DEFINE c == Joined(ConfigAt[Base])
  <2>1. Valid(ConfigAt[Base]) /\ cfg' = Resolved(c)
    BY <1>5 DEF ConfigLoads, Refused
  <2>2. /\ Lowered(c) \intersect {"red-green", "suite-green"} = {}
        /\ c.protected \intersect c.guarded = {} /\ c.immutability # "warn" /\ c.probe_runs >= 1
    BY <2>1 DEF Valid
  <2>3. DOMAIN c = Keys
    BY JoinedKeeps
  <2> HIDE DEF c
  <2>4. /\ DOMAIN cfg' = Keys
        /\ cfg'.severity = c.severity /\ cfg'.probe_runs = c.probe_runs
        /\ cfg'.immutability = c.immutability
        /\ cfg'.protected = c.protected /\ cfg'.guarded = c.guarded
    BY <2>1, <2>3, ResolvedKeeps DEF Keys
  <2>5. Lowered(cfg') = Lowered(c)
    BY <2>4 DEF Lowered
  <2>6. Sound'
    BY <2>2, <2>4, <2>5 DEF Sound, Lowered
  <2>7. QED BY <1>0, <1>5, <2>4, <2>6 DEF ConfigLoads, Kept, Reached, Spoken, Facts
<1>6. CASE ReadDiff
  <2>1. from'.diff # 0
    BY <1>6, BaseIsCommit DEF ReadDiff, Kept, Facts
  <2>2. flags.probeRuns \in Nat
    BY RulesAssumption DEF Kept
  <2>3. DOMAIN cfg' = Keys /\ \A k \in Keys \ {"probe_runs"} : cfg'[k] = cfg[k]
    BY <1>6 DEF ReadDiff, Kept
  <2>4. cfg'.probe_runs >= 1
    BY <1>6, <2>2 DEF ReadDiff, Kept, Sound, Keys
  <2>5. /\ cfg'.severity = cfg.severity /\ cfg'.immutability = cfg.immutability
        /\ cfg'.protected = cfg.protected /\ cfg'.guarded = cfg.guarded
    BY <2>3 DEF Keys
  <2>6. Lowered(cfg') = Lowered(cfg)
    BY <2>5 DEF Lowered
  <2>7. Sound'
    BY <2>4, <2>5, <2>6 DEF Sound, Lowered
  <2>8. QED BY <1>6, <2>1, <2>3, <2>7 DEF ReadDiff, Kept, Reached, Spoken
<1>7. CASE LookForHooks
  <2>1. /\ at = "hooks" /\ at' \in {"key", "open"} /\ (at' = "key" => hooks')
        /\ cfg' = IF hooks' THEN cfg ELSE Downgraded(cfg)
        /\ from' = [from EXCEPT !.hooks = Base]
        /\ UNCHANGED <<flags, tip, pinned, code>>
    BY <1>7 DEF LookForHooks
  <2>2. Kept'
    BY <2>1, DowngradedKeeps DEF Kept
  <2>3. Sound'
    <3>1. CASE hooks'
      BY <2>1, <3>1 DEF Sound, Lowered
    <3>2. CASE ~hooks'
      BY <2>1, <2>2, <3>2, DowngradedKeeps, SoundKept DEF Kept, Sound
    <3>3. QED BY <3>1, <3>2
  <2>4. ~hooks' => "cases" \notin {cfg'.immutability, cfg'.fixtures_immutability}
    BY <2>1, DowngradedKeeps DEF Kept
  <2>5. from'.diff = from.diff
    BY <2>1 DEF Kept, Facts
  <2>6. QED BY <2>1, <2>2, <2>3, <2>4, <2>5 DEF Reached, Spoken
<1>8. CASE NameBaseProbe
  <2>1. CASE Exit(2)
    BY <2>1 DEF Exit, Kept, Sound, Lowered, Reached, Spoken
  <2>2. CASE ~Exit(2)
    BY <1>8, <2>2 DEF NameBaseProbe, Kept, Sound, Lowered, Reached, Spoken, Facts
  <2>3. QED BY <2>1, <2>2
<1>9. CASE OpenSession
  <2>1. CASE Exit(2)
    BY <2>1 DEF Exit, Kept, Sound, Lowered, Reached, Spoken
  <2>2. CASE ~Exit(2)
    BY <1>9, <2>2 DEF OpenSession, Kept, Sound, Lowered, Reached, Spoken, Facts
  <2>3. QED BY <2>1, <2>2
<1>10. QED BY <1>1, <1>2, <1>3, <1>4, <1>5, <1>6, <1>7, <1>8, <1>9 DEF RulesStep

LEMMA StepIsElsewhere ==
  ASSUME [Next]_vars
  PROVE  RulesStep \/ Elsewhere
  BY AdoptionIsElsewhere, DoctorIsElsewhere, AuditIsElsewhere DEF Next, vars, Elsewhere

LEMMA RulesInitially == Init => RulesInv
<1> SUFFICES ASSUME Init PROVE RulesInv
  OBVIOUS
<1>1. PICK i \in Invocations : RulesInit(i.command, i.flags)
  BY DEF Init
<1>2. i.flags \in Flags
  BY CommandsAssumption
<1>3. Kept /\ Sound
  BY <1>1, <1>2, DefaultsAreSound DEF RulesInit, Kept, Sound
<1>4. QED BY <1>1, <1>3 DEF RulesInit, RulesInv, Reached, Spoken

LEMMA RulesInvHolds == Spec => []RulesInv
<1>1. RulesInv /\ [Next]_vars => RulesInv'
  BY StepIsElsewhere, RulesKeep, ElsewhereKeeps
<1>2. QED BY RulesInitially, <1>1, PTL DEF Spec

\* Whatever files the branch goes through, no command goes by rules the validation
\* would have refused.
THEOREM RulesStaySound == Spec => []RulesAreSound
<1>1. RulesInv => RulesAreSound
  BY DEF RulesInv, Sound, Reached, Spoken, RulesAreSound
<1>2. QED BY RulesInvHolds, <1>1, PTL

-----------------------------------------------------------------------------
(* The types.                                                              *)

LEMMA ModesTyped ==
  /\ Defaults.immutability \in Modes
  /\ \A c \in Commits :
       ConfigAt[c] \notin {Missing, Unreadable} => Joined(ConfigAt[c]).immutability \in Modes
<1>1. Defaults.immutability \in Modes
  BY DEF Defaults, Modes
<1>2. ASSUME NEW c \in Commits, ConfigAt[c] \notin {Missing, Unreadable}
      PROVE  Joined(ConfigAt[c]).immutability \in Modes
  <2>1. ConfigFile(ConfigAt[c])
    BY <1>2, RulesAssumption
  <2>2. Joined(ConfigAt[c]).immutability
          = IF "immutability" \notin DOMAIN ConfigAt[c].sets THEN Defaults.immutability
            ELSE ConfigAt[c].sets["immutability"]
    BY DEF Joined, Keys
  <2>3. QED BY <1>1, <2>1, <2>2 DEF ConfigFile
<1>3. QED BY <1>1, <1>2

LEMMA RulesTypedInitially == Init => RulesTypeOK
<1> SUFFICES ASSUME Init PROVE RulesTypeOK
  OBVIOUS
<1>1. PICK i \in Invocations : RulesInit(i.command, i.flags)
  BY DEF Init
<1>2. i.flags \in Flags /\ i.command \in CommandNames
  BY CommandsAssumption
<1>3. QED BY <1>1, <1>2, DefaultsAreSound, ModesTyped DEF RulesInit, RulesTypeOK

LEMMA ElsewhereTyped ==
  ASSUME RulesTypeOK, Elsewhere
  PROVE  RulesTypeOK'
<1>1. CASE UNCHANGED ruleVars
  BY <1>1 DEF RulesTypeOK, ruleVars
<1>2. CASE at # "exited" /\ \E c \in {0, 4} : Exit(c)
  BY <1>2 DEF RulesTypeOK, Exit
<1>3. CASE /\ at # "exited" /\ at' \in {"probe", "close", "print", "walk"}
           /\ UNCHANGED <<command, flags, tip, pinned, cfg, broken, hooks, from, code>>
  BY <1>3 DEF RulesTypeOK
<1>4. CASE /\ at # "exited" /\ at' = "units" /\ cfg' = Downgraded(cfg)
           /\ UNCHANGED <<command, flags, tip, pinned, broken, hooks, from, code>>
  <2>1. DOMAIN cfg' = Keys /\ cfg'.immutability \in Modes
    BY <1>4, DowngradedKeeps DEF RulesTypeOK, Downgraded, Keys, Modes
  <2>2. QED BY <1>4, <2>1 DEF RulesTypeOK
<1>5. QED BY <1>1, <1>2, <1>3, <1>4 DEF Elsewhere

LEMMA RulesTyped ==
  ASSUME RulesInv, RulesTypeOK, RulesStep
  PROVE  RulesTypeOK'
<1>0. /\ AfterConfig \in {"diff", "report", "print", "mode"}
      /\ Base \in Commits
      /\ at # "exited" => code = -1
  BY BaseIsCommit DEF AfterConfig, RulesInv, Spoken
<1>1. CASE BranchMoves \/ OpenRepo \/ Resolve
  BY <1>0, <1>1 DEF RulesTypeOK, BranchMoves, OpenRepo, Resolve
<1>2. CASE \E c \in 0..5 : Exit(c)
  BY <1>2 DEF RulesTypeOK, Exit
<1>3. CASE LookUpConfig
  BY <1>0, <1>3 DEF LookUpConfig, RulesTypeOK
<1>4. CASE ConfigRefused /\ ~Exit(3)
  BY <1>0, <1>4, DefaultsAreSound, ModesTyped DEF ConfigRefused, RulesTypeOK
<1>5. CASE ConfigLoads
  <2>1. DOMAIN cfg' = Keys /\ cfg'.immutability \in Modes
    BY <1>0, <1>5, JoinedKeeps, ResolvedKeeps, ModesTyped DEF ConfigLoads, Keys
  <2>2. QED BY <1>0, <1>5, <2>1 DEF ConfigLoads, RulesTypeOK
<1>6. CASE ReadDiff
  BY <1>0, <1>6 DEF ReadDiff, RulesTypeOK, Keys
<1>7. CASE LookForHooks
  <2>1. DOMAIN cfg' = Keys /\ cfg'.immutability \in Modes
    BY <1>7, DowngradedKeeps DEF LookForHooks, RulesTypeOK, Downgraded, Keys, Modes
  <2>2. at' \in {"key", "open"} /\ hooks' \in BOOLEAN /\ at = "hooks"
    BY <1>7 DEF LookForHooks
  <2>3. QED BY <1>0, <1>7, <2>1, <2>2 DEF LookForHooks, RulesTypeOK
<1>8. CASE NameBaseProbe /\ ~Exit(2)
  BY <1>0, <1>8 DEF NameBaseProbe, RulesTypeOK
<1>9. CASE OpenSession /\ ~Exit(2)
  BY <1>0, <1>9 DEF OpenSession, RulesTypeOK, Facts
<1>10. RulesStep => \/ BranchMoves \/ OpenRepo \/ Resolve \/ LookUpConfig \/ ConfigLoads
                    \/ ReadDiff \/ LookForHooks
                    \/ \E c \in 0..5 : Exit(c)
                    \/ ConfigRefused /\ ~Exit(3)
                    \/ NameBaseProbe /\ ~Exit(2)
                    \/ OpenSession /\ ~Exit(2)
  BY DEF RulesStep, GitFails, ConfigUnreadable, Explains, Verdict, ConfigRefused
<1>11. QED BY <1>1, <1>2, <1>3, <1>4, <1>5, <1>6, <1>7, <1>8, <1>9, <1>10

-----------------------------------------------------------------------------
(* The hook set of init.                                                   *)

Distinct(s) == \A i, j \in DOMAIN s : s[i] = s[j] => i = j

\* What init still has to write is of one preset, none of whose files it found, and
\* nothing of it is in the tree yet.
OfOnePreset ==
  /\ Distinct(todo) /\ Range(todo) \intersect tree = {}
  /\ \E p \in Presets :
       /\ found \intersect Range(FilesOf(p)) = {}
       /\ (tree \intersect HookFiles) \union Range(todo) = found \union Range(FilesOf(p))

Untouched == todo = <<>> /\ tree \intersect HookFiles = found

\* Unless a write failed: before its hooks are due init has touched none of them, and
\* it never rests between two of them.
HookInv ==
  /\ order \in [ci : BOOLEAN, config : BOOLEAN, hooks : Presets \union {"", "auto"}]
  /\ todo \in Seq(HookFiles)
  /\ ~spoiled =>
       /\ Untouched \/ OfOnePreset
       /\ order.ci \/ order.config \/ order.hooks # "" => Untouched
       /\ todo # <<>> => at = "generate"

LEMMA PresetFiles ==
  ASSUME NEW p
  PROVE  /\ FilesOf(p) \in Seq(HookFiles) /\ FilesOf(p) # <<>>
         /\ Distinct(FilesOf(p)) /\ Range(FilesOf(p)) \subseteq HookFiles
<1>1. CASE p = "node-postgres-docker"
  BY <1>1 DEF FilesOf, HookFiles, Distinct, Range
<1>2. CASE p # "node-postgres-docker"
  BY <1>2 DEF FilesOf, HookFiles, Distinct, Range
<1>3. QED BY <1>1, <1>2

LEMMA PickedIsPreset ==
  ASSUME NEW flag \in Presets \union {"auto"}, Picked(flag) # "refused"
  PROVE  Picked(flag) \in Presets
  BY DEF Picked, PresetFor, Presets

LEMMA EmptyOrKept ==
  ASSUME NEW S, NEW s \in Seq(S), NEW t, t = <<>> \/ t = s
  PROVE  t \in Seq(S)
<1>1. CASE t = <<>>
  BY <1>1
<1>2. CASE t = s
  BY <1>2
<1>3. QED BY <1>1, <1>2

LEMMA TailTyped ==
  ASSUME NEW S, NEW s \in Seq(S), s # <<>>
  PROVE  Tail(s) \in Seq(S) /\ Head(s) \in S
  OBVIOUS

LEMMA RangeTyped ==
  ASSUME NEW S, NEW s \in Seq(S)
  PROVE  Range(s) \subseteq S
  BY DEF Range

LEMMA TailLeaves ==
  ASSUME NEW S, NEW s \in Seq(S), s # <<>>, Distinct(s)
  PROVE  /\ Tail(s) \in Seq(S) /\ Distinct(Tail(s))
         /\ Head(s) \in Range(s) /\ Range(Tail(s)) = Range(s) \ {Head(s)}
<1>1. /\ Len(s) \in Nat \ {0} /\ DOMAIN s = 1..Len(s) /\ Head(s) = s[1]
      /\ Tail(s) \in Seq(S) /\ DOMAIN Tail(s) = 1..(Len(s) - 1)
      /\ \A i \in 1..(Len(s) - 1) : Tail(s)[i] = s[i + 1]
  OBVIOUS
<1>2. Distinct(Tail(s))
  BY <1>1 DEF Distinct
<1>3. Head(s) \in Range(s)
  BY <1>1 DEF Range
<1>4. Range(Tail(s)) \subseteq Range(s) \ {Head(s)}
  BY <1>1 DEF Range, Distinct
<1>5. Range(s) \ {Head(s)} \subseteq Range(Tail(s))
  <2> SUFFICES ASSUME NEW i \in DOMAIN s, s[i] # Head(s) PROVE s[i] \in Range(Tail(s))
    BY DEF Range
  <2>1. i - 1 \in DOMAIN Tail(s) /\ Tail(s)[i - 1] = s[i]
    BY <1>1
  <2>2. QED BY <2>1 DEF Range
<1>6. QED BY <1>1, <1>2, <1>3, <1>4, <1>5

LEMMA AdoptionKeepsHooks ==
  ASSUME HookInv, AdoptionStep
  PROVE  HookInv'
<1> USE DEF HookInv
<1>1. CASE InitCI
  <2>1. CASE Refuses
    BY <1>1, <2>1 DEF InitCI, Refuses, Exit, adoptionVars, Untouched, OfOnePreset
  <2>2. CASE Writes("workflow", [order EXCEPT !.ci = FALSE], <<>>)
    <3>1. tree' \intersect HookFiles = tree \intersect HookFiles
      BY <2>2 DEF Writes, With, Hooks, HookFiles
    <3>2. order.ci /\ at = "generate" /\ UNCHANGED found /\ todo' \in {<<>>, todo}
      BY <1>1, <2>2 DEF InitCI, Writes
    <3>3. ~spoiled' => ~spoiled
      BY <2>2 DEF Writes
    <3>4. order' \in [ci : BOOLEAN, config : BOOLEAN, hooks : Presets \union {"", "auto"}]
      BY <2>2 DEF Writes
    <3>5. todo' \in Seq(HookFiles)
      BY <3>2, EmptyOrKept
    <3>6. ~spoiled' => Untouched'
      BY <3>1, <3>2, <3>3 DEF Untouched
    <3>7. QED BY <3>4, <3>5, <3>6 DEF Untouched
  <2>3. QED BY <1>1, <2>1, <2>2 DEF InitCI
<1>2. CASE InitConfig
  <2>1. CASE Refuses
    BY <1>2, <2>1 DEF InitConfig, Refuses, Exit, adoptionVars, Untouched, OfOnePreset
  <2>2. CASE Writes("config", [order EXCEPT !.config = FALSE], <<>>)
    <3>1. tree' \intersect HookFiles = tree \intersect HookFiles
      BY <2>2 DEF Writes, With, Hooks, HookFiles
    <3>2. order.config /\ at = "generate" /\ UNCHANGED found /\ todo' \in {<<>>, todo}
      BY <1>2, <2>2 DEF InitConfig, Writes
    <3>3. ~spoiled' => ~spoiled
      BY <2>2 DEF Writes
    <3>4. order' \in [ci : BOOLEAN, config : BOOLEAN, hooks : Presets \union {"", "auto"}]
      BY <2>2 DEF Writes
    <3>5. todo' \in Seq(HookFiles)
      BY <3>2, EmptyOrKept
    <3>6. ~spoiled' => Untouched'
      BY <3>1, <3>2, <3>3 DEF Untouched
    <3>7. QED BY <3>4, <3>5, <3>6 DEF Untouched
  <2>3. QED BY <1>2, <2>1, <2>2 DEF InitConfig
<1>3. CASE InitHooks
  <2> DEFINE p == Picked(order.hooks)
  <2>1. CASE Refuses
    BY <1>3, <2>1 DEF InitHooks, Refuses, Exit, adoptionVars, Untouched, OfOnePreset
  <2>2. CASE ~Refuses
    <3>1. /\ at = "generate" /\ order.hooks # "" /\ ~order.ci /\ ~order.config
          /\ p # "refused" /\ HooksFree(FilesOf(p))
          /\ todo' = FilesOf(p) /\ order' = [order EXCEPT !.hooks = ""]
          /\ UNCHANGED <<ruleVars, tree, markers, found, spoiled>>
      BY <1>3, <2>2 DEF InitHooks
    <3>2. p \in Presets
      BY <3>1, PickedIsPreset
    <3> HIDE DEF p
    <3>3. todo' \in Seq(HookFiles) /\ Distinct(todo') /\ Range(todo') \subseteq HookFiles
      BY <3>1, PresetFiles
    <3>4. Range(todo') \intersect tree = {}
      BY <3>1 DEF HooksFree, Free
    <3>5. ASSUME ~spoiled' PROVE OfOnePreset'
      <4>1. tree \intersect HookFiles = found
        BY <3>1, <3>5 DEF Untouched
      <4>2. QED BY <3>1, <3>2, <3>3, <3>4, <4>1 DEF OfOnePreset
    <3>6. QED BY <3>1, <3>3, <3>5 DEF ruleVars
  <2>3. QED BY <2>1, <2>2
<1>4. CASE WriteHook
  <2>1. at = "generate" /\ todo # <<>>
    BY <1>4 DEF WriteHook
  <2>2. CASE Refuses
    <3>1. ~Free({Head(todo)}) \/ spoiled'
      BY <1>4, <2>2 DEF WriteHook, Writes, With, Refuses, Exit, Free, adoptionVars
    <3>2. ~spoiled => OfOnePreset
      BY <2>1 DEF Untouched
    <3>3. ~spoiled => Head(todo) \in Range(todo) /\ Range(todo) \intersect tree = {}
      BY <2>1, <3>2, TailLeaves DEF OfOnePreset
    <3>4. spoiled' = spoiled
      BY <2>2 DEF Refuses, adoptionVars
    <3>5. spoiled
      BY <3>1, <3>3, <3>4 DEF Free
    <3>6. QED BY <2>2, <3>5 DEF Refuses, adoptionVars
  <2>3. CASE Free({Head(todo)}) /\ Writes(Head(todo), order, Tail(todo))
    <3>1. CASE spoiled' = TRUE /\ UNCHANGED <<order, todo>>
      BY <3>1
    <3>2. CASE /\ tree' = tree \union With(Head(todo)) /\ order' = order /\ todo' = Tail(todo)
               /\ UNCHANGED <<ruleVars, markers, found, spoiled>>
      <4>1. todo' \in Seq(HookFiles) /\ Head(todo) \in HookFiles
        BY <2>1, <3>2, TailTyped
      <4>2. Hooks \notin HookFiles
        BY DEF Hooks, HookFiles
      <4>3. ASSUME ~spoiled
            PROVE  OfOnePreset' /\ ~(order.ci \/ order.config \/ order.hooks # "")
        <5>1. ~Untouched /\ OfOnePreset
          BY <2>1, <4>3 DEF Untouched
        <5>2. /\ Distinct(todo') /\ Head(todo) \in Range(todo)
              /\ Range(todo') = Range(todo) \ {Head(todo)}
          <6>1. Distinct(todo) /\ todo \in Seq(HookFiles) /\ todo # <<>>
            BY <2>1, <5>1 DEF OfOnePreset
          <6>2. QED BY <3>2, <6>1, TailLeaves
        <5>3. (tree' \intersect HookFiles) \union Range(todo')
                = (tree \intersect HookFiles) \union Range(todo)
          BY <3>2, <4>1, <4>2, <5>2 DEF With
        <5>4. Range(todo') \intersect tree' = {}
          <6>1. Hooks \notin Range(todo')
            BY <4>1, <4>2, RangeTyped
          <6>2. QED BY <3>2, <5>1, <5>2, <6>1 DEF OfOnePreset, With
        <5>5. QED BY <3>2, <4>3, <5>1, <5>2, <5>3, <5>4 DEF OfOnePreset
      <4>4. QED BY <2>1, <3>2, <4>1, <4>3 DEF ruleVars
    <3>3. QED BY <2>3, <3>1, <3>2 DEF Writes
  <2>4. QED BY <1>4, <2>2, <2>3 DEF WriteHook
<1>5. CASE InitEnds
  BY <1>5 DEF InitEnds, Done, Exit, adoptionVars, Untouched, OfOnePreset
<1>6. QED BY <1>1, <1>2, <1>3, <1>4, <1>5 DEF AdoptionStep

\* No other step writes a file, or leaves the stage in which init does.
LEMMA OthersLeaveHooks ==
  ASSUME HookInv, RulesStep \/ DoctorStep \/ AuditStep, UNCHANGED adoptionVars
  PROVE  HookInv'
<1>1. at = "generate" => at' = "generate"
  BY DEF RulesStep, BranchMoves, GitFails, OpenRepo, Resolve, LookUpConfig, ConfigUnreadable,
         ConfigRefused, ConfigLoads, ReadDiff, LookForHooks, NameBaseProbe, OpenSession, Explains,
         Verdict, DoctorStep, Locates, OpenFails, Opens, LaysCopy, RunsTwice, RunsTheOther,
         Closes, Prints, AuditStep, ResolveMode, Walk, JudgeUnit, Summarise, ruleVars
<1>2. QED BY <1>1 DEF HookInv, Untouched, OfOnePreset, adoptionVars

LEMMA HookInvHolds == Spec => []HookInv
<1>1. Init => HookInv
  <2> SUFFICES ASSUME Init PROVE HookInv
    OBVIOUS
  <2>1. PICK i \in Invocations : AdoptionInit(i.tree, i.markers, i.order)
    BY DEF Init
  <2>2. i.order \in Orders
    BY CommandsAssumption
  <2>3. i.order \in [ci : BOOLEAN, config : BOOLEAN, hooks : Presets \union {"", "auto"}]
    BY <2>2, AdoptionAssumption
  <2>4. /\ order = i.order /\ todo = <<>> /\ found = tree \intersect HookFiles /\ ~spoiled
    BY <2>1 DEF AdoptionInit
  <2>5. todo \in Seq(HookFiles)
    BY <2>4
  <2>6. QED BY <2>3, <2>4, <2>5 DEF HookInv, Untouched
<1>2. HookInv /\ [Next]_vars => HookInv'
  <2> SUFFICES ASSUME HookInv, [Next]_vars PROVE HookInv'
    OBVIOUS
  <2>1. CASE AdoptionStep
    BY <2>1, AdoptionKeepsHooks
  <2>2. CASE (RulesStep \/ DoctorStep \/ AuditStep) /\ UNCHANGED adoptionVars
    BY <2>2, OthersLeaveHooks
  <2>3. CASE UNCHANGED vars
    BY <2>3 DEF HookInv, Untouched, OfOnePreset, vars, adoptionVars, ruleVars
  <2>4. DoctorStep => UNCHANGED adoptionVars
    BY Zenon DEF DoctorStep, Locates, OpenFails, Opens, LaysCopy, RunsTwice, RunsTheOther,
       Concludes, Closes, Prints, GoesTo, adoptionVars
  <2>5. QED BY <2>1, <2>2, <2>3, <2>4 DEF Next
<1>3. QED BY <1>1, <1>2, PTL DEF Spec

\* For any preset, work tree and order, init leaves the hook files it found or a whole
\* set beside them, unless a write failed.
THEOREM HookSetsAreWhole == Spec => []HookSetIsWhole
<1>1. HookInv => HookSetIsWhole
  <2> SUFFICES ASSUME HookInv, at = "exited", ~spoiled
               PROVE  \/ tree \intersect HookFiles = found
                      \/ \E p \in Presets :
                           /\ found \intersect Range(FilesOf(p)) = {}
                           /\ tree \intersect HookFiles = found \union Range(FilesOf(p))
    BY DEF HookSetIsWhole
  <2>1. todo = <<>> /\ (Untouched \/ OfOnePreset)
    BY DEF HookInv
  <2>2. Range(todo) = {}
    BY <2>1 DEF Range
  <2>3. QED BY <2>1, <2>2 DEF Untouched, OfOnePreset
<1>2. QED BY HookInvHolds, <1>1, PTL

-----------------------------------------------------------------------------
(* The stations of each command.                                           *)

\* A command only comes by its own steps, and doctor has resolved its ref by then.
Stations ==
  /\ at = "generate" => command = "init"
  /\ at \in {"diff", "hooks", "key", "open", "judge"} => command = "verify"
  /\ at \in {"resolve", "report", "probe", "close"} => command = "doctor"
  /\ at \in {"mode", "walk", "units"} => command = "audit"
  /\ command = "init" => at \in {"start", "generate", "exited"}
  /\ command = "doctor" /\ at \notin {"start", "resolve", "exited"} => pinned # 0

LEMMA StationsInitially == Init => Stations
<1> SUFFICES ASSUME Init PROVE Stations
  OBVIOUS
<1>1. PICK i \in Invocations : RulesInit(i.command, i.flags)
  BY DEF Init
<1>2. QED BY <1>1 DEF RulesInit, Stations

\* How far a step of doctor or audit takes the command.
LEMMA DoctorMoves ==
  ASSUME DoctorStep
  PROVE  \/ /\ at \in {"report", "probe", "close"} /\ at' \in {"probe", "close", "print"}
            /\ UNCHANGED <<command, flags, tip, pinned, cfg, broken, hooks, from, code>>
         \/ at = "print" /\ command = "doctor" /\ (Exit(0) \/ Exit(4)) /\ UNCHANGED doctorVars
<1>1. ASSUME Locates \/ OpenFails \/ Opens \/ LaysCopy \/ RunsTwice \/ RunsTheOther \/ Closes
      PROVE  /\ at \in {"report", "probe", "close"}
             /\ \E next \in {"probe", "close", "print"} : GoesTo(next)
  BY <1>1, Zenon DEF Locates, OpenFails, Opens, LaysCopy, RunsTwice, RunsTheOther, Concludes, Closes
<1>2. ASSUME Prints
      PROVE  at = "print" /\ command = "doctor" /\ (Exit(0) \/ Exit(4)) /\ UNCHANGED doctorVars
  BY <1>2 DEF Prints
<1>3. QED BY <1>1, <1>2 DEF DoctorStep, GoesTo

LEMMA RulesKeepCommand == RulesStep => UNCHANGED <<command, flags>>
  BY DEF Exit, RulesStep, BranchMoves, GitFails, OpenRepo, Resolve, LookUpConfig, ConfigUnreadable,
     ConfigRefused, ConfigLoads, ReadDiff, LookForHooks, NameBaseProbe, OpenSession, Explains, Verdict

LEMMA StepKeepsCommand ==
  ASSUME [Next]_vars
  PROVE  command' = command /\ flags' = flags
  BY StepIsElsewhere, RulesKeepCommand DEF Elsewhere, ruleVars, Exit

LEMMA StationsKept ==
  ASSUME RulesInv, RulesTypeOK, Stations, [Next]_vars
  PROVE  Stations'
<1> USE DEF Stations
<1>0. command' = command /\ command \in CommandNames
  BY StepKeepsCommand DEF RulesTypeOK
<1>1. CASE at' = "exited"
  BY <1>0, <1>1
<1>2. CASE at' # "exited" /\ RulesStep
  <2>1. CASE UNCHANGED <<at, pinned>>
    BY <1>0, <2>1
  <2>2. CASE OpenRepo \/ Resolve
    BY <1>0, <2>2, CommitsAreNumbers DEF OpenRepo, Resolve, RulesTypeOK
  <2>3. CASE LookUpConfig \/ ConfigRefused \/ ConfigLoads
    BY <1>0, <1>2, <2>3 DEF LookUpConfig, ConfigRefused, ConfigLoads, Exit, AfterConfig, CommandNames
  <2>4. CASE ReadDiff \/ LookForHooks \/ NameBaseProbe \/ OpenSession
    BY <1>0, <1>2, <2>4 DEF ReadDiff, LookForHooks, NameBaseProbe, OpenSession, Exit
  <2>5. QED BY <1>2, <2>1, <2>2, <2>3, <2>4
        DEF RulesStep, BranchMoves, GitFails, ConfigUnreadable, Explains, Verdict, Exit
<1>3. CASE UNCHANGED <<at, pinned>>
  BY <1>0, <1>3
<1>4. CASE at' # "exited" /\ AdoptionStep
  BY <1>3, <1>4 DEF AdoptionStep, InitCI, InitConfig, InitHooks, WriteHook, InitEnds, Writes, Refuses,
     Exit, ruleVars
<1>5. CASE at' # "exited" /\ DoctorStep
  BY <1>0, <1>5, DoctorMoves DEF Exit
<1>6. CASE at' # "exited" /\ AuditStep
  BY <1>0, <1>3, <1>6 DEF AuditStep, ResolveMode, Walk, JudgeUnit, Summarise, Exit, ruleVars
<1>7. QED BY <1>1, <1>2, <1>3, <1>4, <1>5, <1>6 DEF Next, vars, ruleVars

\* What every step may rest on.
BaseInv == RulesInv /\ RulesTypeOK /\ Stations

LEMMA BaseInitially == Init => BaseInv
  BY RulesInitially, RulesTypedInitially, StationsInitially DEF BaseInv

LEMMA BaseKept ==
  ASSUME BaseInv, [Next]_vars
  PROVE  BaseInv'
  BY StepIsElsewhere, RulesKeep, ElsewhereKeeps, RulesTyped, ElsewhereTyped, StationsKept DEF BaseInv

-----------------------------------------------------------------------------
(* What the work tree holds.                                               *)

\* The files of the hooks lie in their directory.
AdoptionTyped ==
  /\ tree \subseteq TreePaths /\ found \subseteq tree \intersect HookFiles /\ spoiled \in BOOLEAN
  /\ tree \intersect HookFiles # {} => Hooks \in tree

LEMMA AdoptionTypedInitially == Init => AdoptionTyped
<1> SUFFICES ASSUME Init PROVE AdoptionTyped
  OBVIOUS
<1>1. PICK i \in Invocations : AdoptionInit(i.tree, i.markers, i.order)
  BY DEF Init
<1>2. i.tree \in SUBSET TreePaths /\ (i.tree \intersect HookFiles # {} => Hooks \in i.tree)
  BY CommandsAssumption, AdoptionAssumption
<1>3. QED BY <1>1, <1>2 DEF AdoptionInit, AdoptionTyped

LEMMA WritesTyped ==
  ASSUME AdoptionTyped, NEW path \in TreePaths, NEW rest, NEW left, Writes(path, rest, left)
  PROVE  AdoptionTyped'
  BY DEF Writes, With, AdoptionTyped, TreePaths

LEMMA HeadTyped ==
  ASSUME NEW S, NEW s \in Seq(S), s # <<>>
  PROVE  Head(s) \in S
  OBVIOUS

LEMMA AdoptionTypedKept ==
  ASSUME AdoptionTyped, HookInv, [Next]_vars
  PROVE  AdoptionTyped'
<1>1. CASE UNCHANGED adoptionVars
  BY <1>1 DEF AdoptionTyped, adoptionVars
<1>2. CASE InitCI \/ InitConfig
  <2>1. \/ UNCHANGED adoptionVars
        \/ \E path \in {"workflow", "config"} : \E rest : Writes(path, rest, <<>>)
    BY <1>2 DEF InitCI, InitConfig, Refuses
  <2>2. QED BY <1>1, <2>1, WritesTyped DEF TreePaths
<1>3. CASE InitHooks
  BY <1>1, <1>3 DEF InitHooks, Refuses, AdoptionTyped
<1>4. CASE WriteHook
  <2>1. Head(todo) \in TreePaths
    BY <1>4, HeadTyped DEF HookInv, WriteHook, TreePaths
  <2>2. \/ UNCHANGED adoptionVars
        \/ Writes(Head(todo), order, Tail(todo))
    BY <1>4 DEF WriteHook, Refuses
  <2>3. QED BY <1>1, <2>1, <2>2, WritesTyped
<1>5. CASE InitEnds
  BY <1>1, <1>5 DEF InitEnds
<1>6. DoctorStep => UNCHANGED adoptionVars
  BY Zenon DEF DoctorStep, Locates, OpenFails, Opens, LaysCopy, RunsTwice, RunsTheOther,
     Concludes, Closes, Prints, GoesTo, adoptionVars
<1>7. QED BY <1>1, <1>2, <1>3, <1>4, <1>5, <1>6 DEF Next, AdoptionStep, vars

LEMMA AdoptionIsTyped == Spec => []AdoptionTyped
<1>1. AdoptionTyped /\ HookInv /\ [Next]_vars => AdoptionTyped'
  BY AdoptionTypedKept
<1>2. QED BY AdoptionTypedInitially, HookInvHolds, <1>1, PTL DEF Spec

-----------------------------------------------------------------------------
(* The advice of doctor, which is a matter of what lies where.             *)

\* Whatever is in the work tree and on base, doctor advises a command of init only
\* where init would not refuse it, and a commit only of what the work tree has and
\* base does not, if only an empty directory.
THEOREM AdviceHolds == Spec => []AdviceIsTaken
<1>1. AdoptionTyped => AdviceIsTaken
  <2> SUFFICES ASSUME AdoptionTyped PROVE AdviceIsTaken
    OBVIOUS
  <2>1. Tier = 0 => Located("workflow") \in {"tree", "nowhere"} /\ ~OnBase("workflow")
    BY DEF Tier, Located
  <2>2. Tier = 1 => Located(Hooks) \in {"tree", "nowhere"} /\ ~OnBase(Hooks)
    BY DEF Tier, Located
  <2>3. Tier \in {0, 1, 2}
    BY DEF Tier
  <2>4. Located("workflow") = "tree" => "workflow" \in tree
    BY DEF Located, InTree, Hooks
  <2>5. Located("workflow") = "nowhere" => "workflow" \notin tree
    BY DEF Located, InTree, Hooks
  <2>6. /\ Located(Hooks) = "tree" => Hooks \in tree
        /\ Located(Hooks) = "nowhere" => tree \intersect HookFiles = {}
    BY DEF Located, InTree, AdoptionTyped
  <2>7. \A p : tree \intersect HookFiles = {} => HooksFree(FilesOf(p))
    BY PresetFiles DEF HooksFree, Free
  <2>8. NextTier = "init-ci" => Free({"workflow"})
    BY <2>1, <2>3, <2>5 DEF NextTier, Free
  <2>9. NextTier \in {"init-hooks-auto", "init-hooks-preset"} =>
          \A p \in Presets : HooksFree(FilesOf(p))
    BY <2>2, <2>3, <2>6, <2>7 DEF NextTier
  <2>10. NextTier = "init-hooks-auto" => Picked("auto") \in Presets
    BY <2>3, PickedIsPreset DEF NextTier, Picked
  <2>11. NextTier = "commit-workflow" => "workflow" \in tree /\ ~WorkflowAt[pinned]
    BY <2>1, <2>3, <2>4 DEF NextTier, OnBase, Hooks
  <2>12. NextTier = "commit-hooks" => Hooks \in tree /\ HooksAt[pinned] = Missing
    BY <2>2, <2>3, <2>6 DEF NextTier, OnBase
  <2>13. QED BY <2>8, <2>9, <2>10, <2>11, <2>12 DEF AdviceIsTaken
<1>2. QED BY <1>1, AdoptionIsTyped, PTL

-----------------------------------------------------------------------------
(* The diagnosis of doctor.                                                *)

LEMMA HasLeast ==
  ASSUME NEW T \in SUBSET Nat, T # {}
  PROVE  \E n \in T : \A m \in T : n <= m
<1> DEFINE Less == {ss \in Nat \X Nat : ss[1] < ss[2]}
<1>1. IsWellFoundedOn(Less, Nat)
  BY NatLessThanWellFounded DEF OpToRel
<1>2. \A x, y \in Nat : y < x => <<y, x>> \in Less
  OBVIOUS
<1> HIDE DEF Less
<1>3. PICK n \in T : \A m \in T : ~(<<m, n>> \in Less)
  BY <1>1, WFMin
<1>4. \A m \in T : ~(m < n)
  BY <1>2, <1>3
<1>5. \A m \in T : n <= m
  BY <1>4
<1>6. QED BY <1>5

LEMMA SuiteTyped ==
  ASSUME suite \in Suites
  PROVE  /\ Len(tests) \in Nat /\ DOMAIN tests = 1..Len(tests)
         /\ suite.script.reads \in {"file", "dir", "nothing"}
  BY DoctorAssumption DEF tests, Scripts

\* There is a first of the files elsewhere.
LEMMA PairIsElsewhere ==
  ASSUME suite \in Suites, Others # {}
  PROVE  Pair \in Others
<1>1. Others \subseteq Nat
  BY SuiteTyped DEF Others
<1>2. \E i \in Others : \A j \in Others : i <= j
  BY <1>1, HasLeast
<1>3. QED BY <1>2 DEF Pair

LEMMA AnswersSay ==
  ASSUME NEW i, NEW times, NEW r \in Answers(i, times)
  PROVE  /\ r.green \in BOOLEAN /\ r.took \in times
         /\ r.ids = Ids(i) \/ (r.ids = {} /\ ~r.green)
<1>1. CASE \E g \in BOOLEAN, s \in times : r = [ids |-> Ids(i), green |-> g, took |-> s]
  BY <1>1
<1>2. CASE \E s \in times : r = [ids |-> {}, green |-> FALSE, took |-> s]
  BY <1>2
<1>3. QED BY <1>1, <1>2 DEF Answers

\* What the two runs tell of the filter.
LEMMA FilterIsSeen ==
  ASSUME suite \in Suites, Others # {},
         NEW r \in Answers(1, Seconds), NEW alone \in Answers(Pair, {0})
  PROVE  /\ FilterRow(r, alone) = "ignored" => Alike
         /\ FilterRow(r, alone) = "honoured" /\ r.green /\ alone.green
              => suite.script.reads # "nothing"
<1>1. Pair \in DOMAIN tests /\ tests[Pair].dir # tests[1].dir
  BY PairIsElsewhere DEF Others
<1>2. FilterRow(r, alone) = "ignored" => Ids(Pair) = Ids(1)
  BY AnswersSay DEF FilterRow
<1>3. suite.script.reads = "nothing" => Covered(Pair) = Covered(1)
  BY DEF Covered
<1>4. suite.script.reads = "nothing" => Ids(Pair) = Ids(1)
  BY <1>3 DEF Ids
<1>5. QED BY <1>1, <1>2, <1>4, AnswersSay DEF Alike, FilterRow

\* The runs are of the first file twice and of one elsewhere.
RunsKnown ==
  /\ ran \in Seq(Answers(1, Seconds) \union Answers(Pair, {0})) /\ Len(ran) <= 3
  /\ \A i \in DOMAIN ran : ran[i] \in IF i = 3 THEN Answers(Pair, {0}) ELSE Answers(1, Seconds)

\* The session lives while doctor probes, and what the runs say is written when the
\* runs are over.
Probing ==
  /\ at \notin {"probe", "close", "print", "exited"} => session = "none"
  /\ at = "probe" => session \in {"none", "open"}
  /\ at = "probe" \/ session = "none" => rows["filter"] = "" /\ rows["reruns"] = ""
  /\ session = "none" => ~laid /\ ran = <<>>
  /\ at = "close" => session = "open"
  /\ at \in {"print", "exited"} => session \in {"none", "closed"}
  /\ at = "exited" /\ code \notin {0, 4} => session = "none"

\* Doctor reads nothing before it has resolved its ref, and that commit from then on.
OneCommit ==
  command = "doctor" =>
    /\ at \in {"start", "resolve"} => \A f \in Facts : from[f] = 0
    /\ \A f \in Facts : from[f] \in {0, pinned}
    /\ at = "exited" => code \in {0, 2, 4}

\* The gap doctor reports, between the two runs of the same filter.
GapSeen ==
  ~suite.script.mentions /\ Floor <= ran[1].took /\ ran[2].took * Ratio < ran[1].took

Honest ==
  /\ rows["filter"] = "ignored" => Alike
  /\ rows["filter"] = "honoured" =>
       Len(ran) = 3 /\ (ran[1].green /\ ran[3].green => suite.script.reads # "nothing")
  /\ rows["reruns"] = "unexplained-gap" => GapSeen

DoctorInv ==
  suite \in Suites /\ DOMAIN rows = RowKeys /\ RunsKnown /\ Probing /\ OneCommit /\ Honest

LEMMA SuiteFrame ==
  ASSUME suite' = suite
  PROVE  /\ tests' = tests /\ Alike' = Alike /\ Others' = Others /\ Pair' = Pair
         /\ \A i : Ids(i)' = Ids(i)
         /\ \A i, times : Answers(i, times)' = Answers(i, times)
<1>1. tests' = tests /\ \A i : Ids(i)' = Ids(i)
  BY DEF tests, Ids, Covered
<1>2. QED BY <1>1 DEF Alike, Others, Pair, Answers

LEMMA DoctorInitially == Init => DoctorInv
<1> SUFFICES ASSUME Init PROVE DoctorInv
  OBVIOUS
<1>1. PICK i \in Invocations : RulesInit(i.command, i.flags) /\ DoctorInit(i.suite)
  BY DEF Init
<1>2. i.suite \in Suites
  BY CommandsAssumption
<1>3. suite \in Suites /\ DOMAIN rows = RowKeys /\ rows["filter"] = "" /\ rows["reruns"] = ""
  BY <1>1, <1>2 DEF DoctorInit, Unwritten, RowKeys
<1>4. RunsKnown
  BY <1>1 DEF DoctorInit, RunsKnown
<1>5. Probing /\ OneCommit /\ Honest
  BY <1>1, <1>3 DEF RulesInit, DoctorInit, Probing, OneCommit, Honest
<1>6. QED BY <1>3, <1>4, <1>5 DEF DoctorInv

\* The steps of the other commands leave the diagnosis alone, and of doctor's exits
\* only the codes it may have.
LEMMA OthersKeepDiagnosis ==
  ASSUME BaseInv, DoctorInv, UNCHANGED doctorVars,
         RulesStep \/ AdoptionStep \/ AuditStep \/ UNCHANGED vars \/ Prints
  PROVE  DoctorInv'
<1> USE DEF DoctorInv, BaseInv
<1>1. RunsKnown' /\ Honest' /\ suite' \in Suites /\ DOMAIN rows' = RowKeys
  BY SuiteFrame DEF doctorVars, RunsKnown, Honest, GapSeen
<1>2. CASE at' # "exited" /\ RulesStep
  <2>1. \/ at' \notin {"probe", "close"} /\ at \notin {"probe", "close", "print", "exited"}
        \/ at' = at
    BY <1>2 DEF RulesStep, BranchMoves, GitFails, OpenRepo, Resolve, LookUpConfig,
       ConfigUnreadable, ConfigRefused, ConfigLoads, ReadDiff, LookForHooks, NameBaseProbe,
       OpenSession, Explains, Verdict, Exit, AfterConfig
  <2>2. Probing'
    BY <1>2, <2>1 DEF doctorVars, Probing
  <2>3. OneCommit'
    <3> SUFFICES ASSUME command = "doctor"
                 PROVE  OneCommit'
      BY <1>2, RulesKeepCommand DEF OneCommit
    <3>1. CASE UNCHANGED <<at, pinned, from>>
      BY <1>2, <3>1 DEF OneCommit
    <3>2. CASE OpenRepo \/ Resolve
      BY <1>2, <3>2 DEF OpenRepo, Resolve, OneCommit
    <3>3. CASE LookUpConfig \/ ConfigRefused \/ ConfigLoads
      <4>1. pinned # 0 /\ pinned' = pinned /\ from' = [from EXCEPT !.config = pinned]
            /\ at' \notin {"start", "resolve"}
        BY <1>2, <3>3 DEF LookUpConfig, ConfigRefused, ConfigLoads, Exit, Base, Stations, AfterConfig
      <4>2. QED BY <1>2, <4>1 DEF OneCommit, RulesTypeOK, Facts
    <3>4. CASE ReadDiff \/ LookForHooks \/ NameBaseProbe \/ OpenSession
      BY <3>4 DEF ReadDiff, LookForHooks, NameBaseProbe, OpenSession, Stations
    <3>5. QED BY <1>2, <3>1, <3>2, <3>3, <3>4
          DEF RulesStep, BranchMoves, GitFails, ConfigUnreadable, Explains, Verdict, Exit
  <2>4. QED BY <1>1, <2>2, <2>3
<1>3. CASE at' = "exited" /\ at # "exited"
  <2>1. \E c \in 0..5 : Exit(c)
    <3>1. CASE RulesStep
      BY <1>3, <3>1 DEF RulesStep, BranchMoves, GitFails, OpenRepo, Resolve, LookUpConfig,
         ConfigUnreadable, ConfigRefused, ConfigLoads, ReadDiff, LookForHooks, NameBaseProbe,
         OpenSession, Explains, Verdict, AfterConfig
    <3>2. CASE AdoptionStep \/ AuditStep \/ Prints
      <4>1. Elsewhere
        BY <3>2, AdoptionIsElsewhere, AuditIsElsewhere, DoctorIsElsewhere DEF DoctorStep
      <4>2. PICK c \in {0, 4} : Exit(c)
        BY <1>3, <4>1 DEF Elsewhere, ruleVars
      <4>3. c \in 0..5
        OBVIOUS
      <4>4. QED BY <4>2, <4>3
    <3>3. QED BY <1>3, <3>1, <3>2 DEF vars, ruleVars
  <2>2. at \notin {"probe", "close"}
    BY <1>3 DEF RulesStep, BranchMoves, GitFails, OpenRepo, Resolve, LookUpConfig,
       ConfigUnreadable, ConfigRefused, ConfigLoads, ReadDiff, LookForHooks, NameBaseProbe,
       OpenSession, Explains, Verdict, AfterConfig, AdoptionStep, InitCI, InitConfig, InitHooks,
       WriteHook, InitEnds, Writes, Refuses, AuditStep, ResolveMode, Walk, JudgeUnit, Summarise,
       vars, ruleVars, Prints
  <2>3. at = "print" => code' \in {0, 4}
    BY <1>3 DEF RulesStep, BranchMoves, GitFails, OpenRepo, Resolve, LookUpConfig,
       ConfigUnreadable, ConfigRefused, ConfigLoads, ReadDiff, LookForHooks, NameBaseProbe,
       OpenSession, Explains, Verdict, AfterConfig, AdoptionStep, InitCI, InitConfig, InitHooks,
       WriteHook, InitEnds, Writes, Refuses, AuditStep, ResolveMode, Walk, JudgeUnit, Summarise,
       vars, ruleVars, Prints, Exit
  <2>4. command = "doctor" => code' \in {0, 2, 4}
    BY <1>3 DEF RulesStep, BranchMoves, GitFails, OpenRepo, Resolve, LookUpConfig,
       ConfigUnreadable, ConfigRefused, ConfigLoads, ReadDiff, LookForHooks, NameBaseProbe,
       OpenSession, Explains, Verdict, AfterConfig, AdoptionStep, InitCI, InitConfig, InitHooks,
       WriteHook, InitEnds, Writes, Refuses, AuditStep, ResolveMode, Walk, JudgeUnit, Summarise,
       vars, ruleVars, Prints, Exit, Stations
  <2>5. Probing'
    BY <1>3, <2>2, <2>3 DEF doctorVars, Probing
  <2>6. OneCommit'
    BY <2>1, <2>4 DEF OneCommit, Exit
  <2>7. QED BY <1>1, <2>5, <2>6
<1>4. CASE UNCHANGED <<at, code, pinned, from, command>>
  BY <1>1, <1>4 DEF doctorVars, Probing, OneCommit
<1>5. CASE at' # "exited" /\ (AdoptionStep \/ AuditStep)
  <2>1. \/ UNCHANGED <<at, code, pinned, from, command>>
        \/ /\ at \in {"mode", "walk"} /\ at' \in {"walk", "units"}
           /\ UNCHANGED <<command, from, pinned, code>>
    BY <1>5 DEF AdoptionStep, InitCI, InitConfig, InitHooks,
       WriteHook, InitEnds, Writes, Refuses, AuditStep, ResolveMode, Walk, JudgeUnit, Summarise,
       vars, ruleVars, Exit
  <2>2. QED BY <1>1, <1>4, <2>1 DEF doctorVars, Probing, OneCommit
<1>6. at = "exited" => UNCHANGED <<at, code, pinned, from, command>>
  BY DEF RulesStep, BranchMoves, GitFails, OpenRepo, Resolve, LookUpConfig,
       ConfigUnreadable, ConfigRefused, ConfigLoads, ReadDiff, LookForHooks, NameBaseProbe,
       OpenSession, Explains, Verdict, AdoptionStep, InitCI, InitConfig, InitHooks,
       WriteHook, InitEnds, Writes, Refuses, AuditStep, ResolveMode, Walk, JudgeUnit, Summarise,
       vars, ruleVars, Prints
<1>7. QED BY <1>2, <1>3, <1>4, <1>5, <1>6 DEF vars, ruleVars, Prints, Exit

LEMMA AppendTyped ==
  ASSUME NEW S, NEW s \in Seq(S), NEW r \in S
  PROVE  /\ Append(s, r) \in Seq(S) /\ Len(s) \in Nat /\ Len(Append(s, r)) = Len(s) + 1
         /\ DOMAIN s = 1..Len(s) /\ DOMAIN Append(s, r) = 1..(Len(s) + 1)
         /\ Append(s, r)[Len(s) + 1] = r
         /\ \A i \in 1..Len(s) : Append(s, r)[i] = s[i]
  OBVIOUS

\* One run more.
LEMMA AppendKnown ==
  ASSUME RunsKnown, Len(ran) < 3, suite' = suite, NEW r,
         r \in IF Len(ran) = 2 THEN Answers(Pair, {0}) ELSE Answers(1, Seconds),
         ran' = Append(ran, r)
  PROVE  /\ RunsKnown' /\ Len(ran') = Len(ran) + 1 /\ ran'[Len(ran) + 1] = r
         /\ Len(ran) = 2 => ran'[1] = ran[1] /\ ran'[2] = ran[2]
<1> DEFINE R == Answers(1, Seconds) \union Answers(Pair, {0})
<1>1. ran \in Seq(R) /\ r \in R
  BY DEF RunsKnown
<1> HIDE DEF R
<1>2. /\ ran' \in Seq(R) /\ Len(ran) \in Nat /\ Len(ran') = Len(ran) + 1
      /\ DOMAIN ran = 1..Len(ran) /\ DOMAIN ran' = 1..(Len(ran) + 1)
      /\ ran'[Len(ran) + 1] = r /\ \A i \in 1..Len(ran) : ran'[i] = ran[i]
  BY <1>1, AppendTyped
<1>3. \A i \in DOMAIN ran' : ran'[i] \in IF i = 3 THEN Answers(Pair, {0}) ELSE Answers(1, Seconds)
  BY <1>2 DEF RunsKnown
<1>4. Len(ran') <= 3
  BY <1>2
<1>5. RunsKnown'
  BY <1>2, <1>3, <1>4, SuiteFrame DEF RunsKnown, R
<1>6. QED BY <1>2, <1>5

LEMMA RowSays ==
  ASSUME DOMAIN rows = RowKeys, NEW key \in RowKeys, NEW says, Row(key, says)
  PROVE  /\ DOMAIN rows' = RowKeys /\ rows'[key] = says
         /\ \A k \in RowKeys \ {key} : rows'[k] = rows[k]
  BY DEF Row

\* A step that neither runs test.sh nor says what the runs said.
LEMMA QuietKeepsDiagnosis ==
  ASSUME DoctorInv, suite' = suite, ran' = ran, DOMAIN rows' = RowKeys,
         rows'["filter"] = rows["filter"], rows'["reruns"] = rows["reruns"]
  PROVE  RunsKnown' /\ Honest' /\ suite' \in Suites
  BY SuiteFrame DEF DoctorInv, RunsKnown, Honest, GapSeen

LEMMA ProbeStepsKeepDiagnosis ==
  ASSUME DoctorInv, Locates \/ OpenFails \/ Opens \/ LaysCopy \/ Closes
  PROVE  RunsKnown' /\ Honest' /\ suite' \in Suites /\ DOMAIN rows' = RowKeys /\ Probing'
<1> USE DEF DoctorInv
<1>0. {"filter", "reruns", "harness", "env-mode", "test-files", "working-copy", "env-down.sh"}
        \subseteq RowKeys
  BY DEF RowKeys
<1>1. CASE Locates
  <2>1. /\ DOMAIN rows' = RowKeys /\ rows'["filter"] = rows["filter"]
        /\ rows'["reruns"] = rows["reruns"]
    BY <1>1 DEF Locates, RowKeys
  <2>2. at = "report" /\ at' \in {"probe", "print"} /\ UNCHANGED <<suite, session, laid, ran>>
    BY <1>1, Zenon DEF Locates, GoesTo
  <2>3. Probing'
    BY <2>1, <2>2 DEF Probing
  <2>4. QED BY <2>1, <2>2, <2>3, QuietKeepsDiagnosis
<1>2. CASE OpenFails
  <2>1. /\ at = "probe" /\ session = "none" /\ at' = "print" /\ Row("harness", "failed")
        /\ UNCHANGED <<suite, session, laid, ran>>
    BY <1>2 DEF OpenFails, GoesTo
  <2>2. Probing'
    BY <1>0, <2>1, RowSays DEF Probing
  <2>3. QED BY <1>0, <2>1, <2>2, RowSays, QuietKeepsDiagnosis
<1>3. CASE Opens
  <2>1. /\ at = "probe" /\ session = "none" /\ at' = "probe" /\ session' = "open"
        /\ \E mode : Row("env-mode", mode)
        /\ UNCHANGED <<suite, laid, ran>>
    BY <1>3 DEF Opens, GoesTo
  <2>2. Probing'
    BY <1>0, <2>1, RowSays DEF Probing
  <2>3. QED BY <1>0, <2>1, <2>2, RowSays, QuietKeepsDiagnosis
<1>4. CASE LaysCopy
  <2>1. /\ at = "probe" /\ session = "open" /\ at' \in {"probe", "close"}
        /\ UNCHANGED <<suite, session, ran>>
        /\ rows' = rows \/ Row("test-files", "none") \/ Row("working-copy", "failed")
    BY <1>4 DEF LaysCopy, GoesTo
  <2>2. /\ DOMAIN rows' = RowKeys /\ rows'["filter"] = rows["filter"]
        /\ rows'["reruns"] = rows["reruns"]
    BY <1>0, <2>1, RowSays
  <2>3. Probing'
    BY <2>1, <2>2 DEF Probing
  <2>4. QED BY <2>1, <2>2, <2>3, QuietKeepsDiagnosis
<1>5. CASE Closes
  <2>1. /\ at = "close" /\ session' = "closed" /\ at' = "print"
        /\ UNCHANGED <<suite, laid, ran>>
        /\ rows' = rows \/ Row("env-down.sh", "failed")
    BY <1>5 DEF Closes, GoesTo
  <2>2. /\ DOMAIN rows' = RowKeys /\ rows'["filter"] = rows["filter"]
        /\ rows'["reruns"] = rows["reruns"]
    BY <1>0, <2>1, RowSays
  <2>3. Probing'
    BY <2>1, <2>2 DEF Probing
  <2>4. QED BY <2>1, <2>2, <2>3, QuietKeepsDiagnosis
<1>6. QED BY <1>1, <1>2, <1>3, <1>4, <1>5

LEMMA LenTyped ==
  ASSUME NEW S, NEW s \in Seq(S)
  PROVE  Len(s) \in Nat
  OBVIOUS

LEMMA RunsTwiceKeepsDiagnosis ==
  ASSUME DoctorInv, RunsTwice
  PROVE  RunsKnown' /\ Honest' /\ suite' \in Suites /\ DOMAIN rows' = RowKeys /\ Probing'
<1> USE DEF DoctorInv
<1>0. {"filter", "reruns", "test.sh"} \subseteq RowKeys
  BY DEF RowKeys
<1>1. /\ at = "probe" /\ laid /\ Len(ran) < 2 /\ session = "open"
      /\ UNCHANGED <<suite, session, laid>>
  BY DEF RunsTwice, Probing
<1>2. CASE \E r \in Answers(1, Seconds) : ran' = Append(ran, r) /\ UNCHANGED rows /\ GoesTo("probe")
  <2>1. RunsKnown'
    <3>1. Len(ran) # 2 /\ Len(ran) < 3
      BY <1>1, LenTyped DEF RunsKnown
    <3>2. QED BY <1>1, <1>2, <3>1, AppendKnown
  <2>2. rows["filter"] = "" /\ rows["reruns"] = ""
    BY <1>1 DEF Probing
  <2>3. Honest' /\ Probing'
    BY <1>1, <1>2, <2>2 DEF Honest, Probing, GoesTo
  <2>4. QED BY <1>1, <1>2, <2>1, <2>3
<1>3. CASE Row("test.sh", "failed") /\ GoesTo("close") /\ UNCHANGED ran
  <2>1. /\ DOMAIN rows' = RowKeys /\ rows'["filter"] = rows["filter"]
        /\ rows'["reruns"] = rows["reruns"]
    BY <1>0, <1>3, RowSays
  <2>2. Probing'
    BY <1>1, <1>3, <2>1 DEF Probing, GoesTo
  <2>3. QED BY <1>1, <1>3, <2>1, <2>2, QuietKeepsDiagnosis
<1>4. QED BY <1>2, <1>3 DEF RunsTwice

\* The verdict on the filter, and the one on the reruns.
LEMMA RunsTheOtherKeepsDiagnosis ==
  ASSUME DoctorInv, RunsTheOther
  PROVE  RunsKnown' /\ Honest' /\ suite' \in Suites /\ DOMAIN rows' = RowKeys /\ Probing'
<1> USE DEF DoctorInv
<1>0. {"filter", "reruns", "case-names", "reuse"} \subseteq RowKeys
  BY DEF RowKeys
<1>1. at = "probe" /\ Len(ran) = 2
  BY DEF RunsTheOther
<1>2. session = "open"
  <2>1. ran # <<>>
    BY <1>1
  <2>2. QED BY <1>1, <2>1 DEF Probing
<1>3. ASSUME NEW filter, Concludes(filter)
      PROVE  /\ UNCHANGED <<suite, session, laid>> /\ at' = "close"
             /\ DOMAIN rows' = RowKeys /\ rows'["filter"] = filter
             /\ rows'["reruns"] = "unexplained-gap" => GapSeen
  <2>1. PICK reruns \in {RerunRow(ran[1], ran[2]), "failed"} :
          rows' = [rows EXCEPT !["case-names"] = NamesRow(ran[1]), !["filter"] = filter,
                               !["reruns"] = reruns, !["reuse"] = ReuseRow]
    BY <1>3 DEF Concludes
  <2>2. DOMAIN rows' = RowKeys /\ rows'["filter"] = filter /\ rows'["reruns"] = reruns
    BY <1>0, <2>1
  <2>3. reruns = "unexplained-gap" => GapSeen
    <3>1. ran[1] \in Answers(1, Seconds)
      BY <1>1 DEF RunsKnown
    <3>2. ran[1].took \in Nat
      BY <3>1 DEF Answers, Seconds
    <3>3. QED BY <2>1, <3>2 DEF RerunRow, TestStages, GapSeen, Floor
  <2>4. UNCHANGED <<suite, session, laid>> /\ at' = "close"
    BY <1>3 DEF Concludes, GoesTo
  <2>5. QED BY <2>2, <2>3, <2>4
<1>4. CASE \E filter \in {"cannot-tell", "failed"} : Concludes(filter) /\ UNCHANGED ran
  <2>1. PICK filter \in {"cannot-tell", "failed"} : Concludes(filter) /\ UNCHANGED ran
    BY <1>4
  <2>2. RunsKnown'
    BY <1>3, <2>1, SuiteFrame DEF RunsKnown
  <2>3. Honest' /\ Probing'
    BY <1>1, <1>2, <1>3, <2>1 DEF Honest, GapSeen, Probing
  <2>4. QED BY <1>3, <2>1, <2>2, <2>3
<1>5. CASE /\ Others # {}
           /\ \E r \in Answers(Pair, {0}) : ran' = Append(ran, r) /\ Concludes(FilterRow(ran[1], r))
  <2>1. PICK r \in Answers(Pair, {0}) : ran' = Append(ran, r) /\ Concludes(FilterRow(ran[1], r))
    BY <1>5
  <2>2. /\ UNCHANGED <<suite, session, laid>> /\ at' = "close"
        /\ DOMAIN rows' = RowKeys /\ rows'["filter"] = FilterRow(ran[1], r)
        /\ rows'["reruns"] = "unexplained-gap" => GapSeen
    BY <1>3, <2>1
  <2>3. RunsKnown' /\ Len(ran') = 3 /\ ran'[3] = r /\ ran'[1] = ran[1] /\ ran'[2] = ran[2]
    BY <1>1, <2>1, <2>2, AppendKnown
  <2>4. ran[1] \in Answers(1, Seconds)
    <3>1. 1 \in DOMAIN ran
      BY <1>1 DEF RunsKnown
    <3>2. QED BY <3>1 DEF RunsKnown
  <2>5. /\ FilterRow(ran[1], r) = "ignored" => Alike
        /\ FilterRow(ran[1], r) = "honoured" /\ ran[1].green /\ r.green
             => suite.script.reads # "nothing"
    BY <1>5, <2>4, FilterIsSeen
  <2>6. Honest'
    BY <2>2, <2>3, <2>5, SuiteFrame DEF Honest, GapSeen
  <2>7. Probing'
    BY <1>1, <1>2, <2>2 DEF Probing
  <2>8. QED BY <2>2, <2>3, <2>6, <2>7
<1>6. QED BY <1>4, <1>5 DEF RunsTheOther

LEMMA DoctorKept ==
  ASSUME BaseInv, DoctorInv, [Next]_vars
  PROVE  DoctorInv'
<1>1. CASE DoctorStep /\ ~Prints
  <2>1. RunsKnown' /\ Honest' /\ suite' \in Suites /\ DOMAIN rows' = RowKeys /\ Probing'
    BY <1>1, ProbeStepsKeepDiagnosis, RunsTwiceKeepsDiagnosis, RunsTheOtherKeepsDiagnosis
    DEF DoctorStep
  <2>2. \/ /\ at \in {"report", "probe", "close"} /\ at' \in {"probe", "close", "print"}
           /\ UNCHANGED <<command, flags, tip, pinned, cfg, broken, hooks, from, code>>
        \/ at = "print" /\ command = "doctor" /\ (Exit(0) \/ Exit(4))
    BY <1>1, DoctorMoves
  <2>3. OneCommit'
    BY <2>2 DEF DoctorInv, OneCommit, Exit
  <2>4. QED BY <2>1, <2>3 DEF DoctorInv
<1>2. CASE (RulesStep \/ AdoptionStep \/ AuditStep \/ UNCHANGED vars \/ Prints) /\ UNCHANGED doctorVars
  BY <1>2, OthersKeepDiagnosis
<1>3. Prints => UNCHANGED doctorVars
  BY DEF Prints
<1>4. QED BY <1>1, <1>2, <1>3 DEF Next, vars

\* Whatever the suite and whatever fails, doctor names no cause it has not seen and
\* misses none that shows, answers for one commit, and closes before it speaks.
THEOREM DiagnosesAreHonest == Spec => []DiagnosisIsHonest
<1>1. BaseInv /\ DoctorInv => DiagnosisIsHonest
  <2> SUFFICES ASSUME BaseInv, DoctorInv, command = "doctor"
               PROVE  /\ rows["filter"] = "ignored" => suite.script.reads = "nothing" \/ Alike
                      /\ rows["filter"] = "honoured" /\ (\A i \in {1, 3} : ran[i].green)
                           => suite.script.reads # "nothing"
                      /\ rows["reruns"] = "unexplained-gap" => GapSeen
                      /\ \A f \in Facts : from[f] \in {0, pinned}
                      /\ at \in {"print", "exited"} => session # "open"
                      /\ at = "exited" => code \in {0, 2, 4} /\ (code = 2 => session = "none")
    BY DEF DiagnosisIsHonest, GapSeen
  <2>1. rows["filter"] = "ignored" => suite.script.reads = "nothing" \/ Alike
    BY DEF DoctorInv, Honest
  <2>2. rows["filter"] = "honoured" /\ (\A i \in {1, 3} : ran[i].green)
          => suite.script.reads # "nothing"
    BY DEF DoctorInv, Honest
  <2>3. rows["reruns"] = "unexplained-gap" => GapSeen
    BY DEF DoctorInv, Honest
  <2>4. \A f \in Facts : from[f] \in {0, pinned}
    BY DEF DoctorInv, OneCommit
  <2>5. at \in {"print", "exited"} => session # "open"
    BY DEF DoctorInv, Probing
  <2>6. at = "exited" => code \in {0, 2, 4}
    BY DEF DoctorInv, OneCommit
  <2>7. at = "exited" /\ code = 2 => session = "none"
    <3>1. 2 \notin {0, 4}
      OBVIOUS
    <3>2. at = "exited" /\ code \notin {0, 4} => session = "none"
      BY DEF DoctorInv, Probing
    <3>3. QED BY <3>1, <3>2, Zenon
  <2>8. QED BY <2>1, <2>2, <2>3, <2>4, <2>5, <2>6, <2>7
<1>2. BaseInv /\ DoctorInv /\ [Next]_vars => BaseInv' /\ DoctorInv'
  BY BaseKept, DoctorKept
<1>3. QED BY BaseInitially, DoctorInitially, <1>1, <1>2, PTL DEF Spec

-----------------------------------------------------------------------------
(* Counting from the top.                                                  *)

\* How far from the top a member of a set of numbers stands.
Rank(S, c) == Cardinality({d \in S : d >= c})

LEMMA Ranked ==
  ASSUME NEW S \in SUBSET Nat, IsFiniteSet(S)
  PROVE  /\ \A c \in S : Rank(S, c) \in 1..Cardinality(S)
         /\ \A c, d \in S : c < d => Rank(S, d) < Rank(S, c)
<1> DEFINE Up(c) == {d \in S : d >= c}
<1>1. Cardinality(S) \in Nat
  BY FS_CardinalityType
<1>2. ASSUME NEW c \in S
      PROVE  /\ IsFiniteSet(Up(c)) /\ Cardinality(Up(c)) \in Nat
             /\ Cardinality(Up(c)) <= Cardinality(S) /\ Up(c) # {} /\ Cardinality(Up(c)) # 0
  <2>1. Up(c) \in SUBSET S /\ c \in Up(c)
    OBVIOUS
  <2>2. IsFiniteSet(Up(c)) /\ Cardinality(Up(c)) <= Cardinality(S)
    BY <2>1, FS_Subset
  <2>3. Up(c) # {}
    BY <2>1
  <2>4. Cardinality(Up(c)) \in Nat /\ Cardinality(Up(c)) # 0
    BY <2>2, <2>3, FS_CardinalityType, FS_EmptySet
  <2>5. QED BY <2>2, <2>3, <2>4
<1>3. ASSUME NEW c \in S, NEW d \in S, c < d
      PROVE  Cardinality(Up(d)) < Cardinality(Up(c))
  <2>1. Up(d) \in SUBSET Up(c) /\ c \in Up(c) /\ c \notin Up(d)
    <3>1. c \in Nat /\ d \in Nat /\ S \subseteq Nat
      OBVIOUS
    <3>2. \A e \in S : e >= d => e >= c
      BY <1>3, <3>1
    <3>3. c >= c /\ ~(c >= d)
      BY <1>3, <3>1
    <3>4. QED BY <3>2, <3>3
  <2>2. IsFiniteSet(Up(c)) /\ Cardinality(Up(c)) \in Nat /\ Cardinality(Up(d)) \in Nat
    BY <1>2
  <2>3. Cardinality(Up(d)) <= Cardinality(Up(c)) /\ Cardinality(Up(d)) # Cardinality(Up(c))
    <3> HIDE DEF Up
    <3>1. QED BY <2>1, <2>2, FS_Subset
  <2>4. QED BY <2>2, <2>3
<1>4. \A c : Rank(S, c) = Cardinality(Up(c))
  BY DEF Rank
<1>5. \A c \in S : Rank(S, c) \in 1..Cardinality(S)
  <2> HIDE DEF Up
  <2>1. QED BY <1>1, <1>2, <1>4
<1>6. \A c, d \in S : c < d => Rank(S, d) < Rank(S, c)
  <2> HIDE DEF Up
  <2>1. QED BY <1>3, <1>4
<1>7. QED BY <1>5, <1>6

\* --max-count is exact: it keeps the newest as many, or all there are.
LEMMA CapIsExact ==
  ASSUME NEW S \in SUBSET Nat, IsFiniteSet(S), NEW k \in Nat \ {0}
  PROVE  Cardinality(Capped(S, k)) = IF Cardinality(S) < k THEN Cardinality(S) ELSE k
<1> DEFINE n == Cardinality(S)
           m == IF n < k THEN n ELSE k
           T == Capped(S, k)
           f == [c \in S |-> Rank(S, c)]
           g == [c \in T |-> Rank(S, c)]
<1>0. n \in Nat /\ m \in Nat /\ m <= n
  BY FS_CardinalityType
<1>1. T = {c \in S : Rank(S, c) <= k}
  BY DEF Capped, Rank
<1>2. /\ \A c \in S : Rank(S, c) \in 1..n
      /\ \A c, d \in S : Rank(S, c) = Rank(S, d) => c = d
  <2>1. /\ \A c \in S : Rank(S, c) \in 1..n
        /\ \A c, d \in S : c < d => Rank(S, d) < Rank(S, c)
    BY Ranked
  <2>2. ASSUME NEW c \in S, NEW d \in S, Rank(S, c) = Rank(S, d)
        PROVE  c = d
    <3>1. Rank(S, c) \in Nat
      BY <1>0, <2>1
    <3>2. ~(c < d) /\ ~(d < c)
      BY <2>1, <2>2, <3>1
    <3>3. QED BY <3>2
  <2>3. QED BY <2>1, <2>2
<1>3. IsFiniteSet(1..n) /\ Cardinality(1..n) = n /\ IsFiniteSet(1..m) /\ Cardinality(1..m) = m
  <2> HIDE DEF n, m
  <2>1. n > 0 \/ n = 0
    BY <1>0
  <2>2. m > 0 \/ m = 0
    BY <1>0
  <2>3. QED BY <1>0, <2>1, <2>2, FS_Interval
<1>4. f \in Injection(S, 1..n)
  BY <1>2 DEF Injection, IsInjective
<1>5. f \in Surjection(S, 1..n)
  <2> HIDE DEF f, n
  <2>1. QED BY <1>3, <1>4, FS_Injection DEF n
<1>6. \A r \in 1..n : \E c \in S : Rank(S, c) = r
  BY <1>5 DEF Surjection
<1>7. g \in Injection(T, 1..m)
  <2>1. \A c \in T : c \in S /\ Rank(S, c) \in 1..n /\ Rank(S, c) <= k
    BY <1>1, <1>2
  <2>2. \A c \in T : Rank(S, c) \in 1..m
    BY <1>0, <2>1
  <2> HIDE DEF T, m, n
  <2>3. g \in [T -> 1..m]
    BY <2>2
  <2>4. \A a, b \in T : g[a] = g[b] => a = b
    BY <1>2, <2>1
  <2>5. QED BY <2>3, <2>4 DEF Injection, IsInjective
<1>8. g \in Surjection(T, 1..m)
  <2>1. ASSUME NEW r \in 1..m PROVE \E c \in T : g[c] = r
    <3>1. r \in 1..n /\ r <= k
      BY <1>0
    <3>2. PICK c \in S : Rank(S, c) = r
      BY <1>6, <3>1
    <3>3. c \in T /\ g[c] = r
      BY <1>1, <3>1, <3>2
    <3>4. QED BY <3>3
  <2>2. QED BY <1>7, <2>1 DEF Surjection, Injection
<1>9. ExistsBijection(T, 1..m)
  BY <1>7, <1>8 DEF ExistsBijection, Bijection
<1>10. IsFiniteSet(T)
  BY <1>1, FS_Subset
<1>11. Cardinality(1..m) = Cardinality(T)
  BY <1>9, <1>10, FS_Bijection
<1>12. QED BY <1>3, <1>11

-----------------------------------------------------------------------------
(* The types of the commands.                                              *)

DoctorTyped == session \in {"none", "open", "closed"} /\ laid \in BOOLEAN

LEMMA DoctorTypedInitially == Init => DoctorTyped
  BY DEF Init, DoctorInit, DoctorTyped

LEMMA DoctorTypedKept ==
  ASSUME DoctorTyped, [Next]_vars
  PROVE  DoctorTyped'
<1>1. DoctorStep => /\ session' = session \/ session' \in {"open", "closed"}
                    /\ laid' = laid \/ laid' = TRUE
  BY Zenon DEF DoctorStep, Locates, OpenFails, Opens, LaysCopy, RunsTwice, RunsTheOther,
     Concludes, Closes, Prints, doctorVars
<1>2. QED BY <1>1 DEF Next, vars, doctorVars, DoctorTyped

LEMMA DoctorTypes == DoctorInv /\ DoctorTyped => DoctorTypeOK
<1> SUFFICES ASSUME DoctorInv, DoctorTyped PROVE DoctorTypeOK
  OBVIOUS
<1>1. suite \in Suites /\ DOMAIN rows = RowKeys /\ Len(ran) <= 3
  BY DEF DoctorInv, RunsKnown
<1>2. laid => session # "none"
  BY DEF DoctorInv, Probing
<1>3. ASSUME NEW i \in DOMAIN ran
      PROVE  ran[i].green \in BOOLEAN /\ ran[i].took \in Seconds
  <2>1. ran[i] \in Answers(Pair, {0}) \/ ran[i] \in Answers(1, Seconds)
    BY DEF DoctorInv, RunsKnown
  <2>2. QED BY <2>1, AnswersSay DEF Seconds
<1>4. QED BY <1>1, <1>2, <1>3 DEF DoctorTypeOK, DoctorTyped

-----------------------------------------------------------------------------
(* The units of an audit.                                                  *)

\* The commits the flags ask for, and those that are judged.
Window == WithoutRoot(FirstParent(head, IF flags.since > 0 THEN 0 ELSE flags.last,
                                  flags.since, unit = "merge"))
Judged == {units[i].commit : i \in DOMAIN units}

UnitRecord == [commit : Commits, side : {1, 2}, found : Seq(STRING)]

AuditTyped ==
  /\ unit \in {"auto", "merge", "squash", "commit"}
  /\ head \in Commits \union {0} /\ walked \subseteq Commits
  /\ units \in Seq(UnitRecord)
  /\ \A i \in DOMAIN units : IsInjective(units[i].found)
  /\ summary = <<>> \/ summary = Counts(units)

\* Nothing is judged before the walk, and nothing counted before the end.
Waiting ==
  /\ at \notin {"units", "exited"} => walked = {} /\ units = <<>>
  /\ at # "exited" => summary = <<>>
  /\ command = "audit" /\ code = 0 => walked = {}

\* What is judged and what is still to be judged are the window, in its order.
Walking ==
  at = "units" \/ (command = "audit" /\ code = 0) =>
    /\ head # 0 /\ Judged \union walked = Window
    /\ \A i \in DOMAIN units : \A c \in walked : c < units[i].commit
    /\ \A i, j \in DOMAIN units : i < j => units[i].commit > units[j].commit
    /\ \A i \in DOMAIN units : units[i].side = Side(unit, units[i].commit)

AuditInv == AuditTyped /\ Waiting /\ Walking

LEMMA AuditInitially == Init => AuditInv
<1> SUFFICES ASSUME Init PROVE AuditInv
  OBVIOUS
<1>1. PICK i \in Invocations : RulesInit(i.command, i.flags) /\ AuditInit
  BY DEF Init
<1>2. i.flags \in Flags
  BY CommandsAssumption
<1>3. flags.unit \in {"auto", "merge", "squash", "commit"} /\ at = "start" /\ code = -1
  BY <1>1, <1>2, RulesAssumption DEF RulesInit
<1>4. units = <<>> /\ units \in Seq(UnitRecord) /\ DOMAIN units = {}
  BY <1>1 DEF AuditInit
<1>5. AuditTyped
  BY <1>1, <1>3, <1>4 DEF AuditInit, AuditTyped
<1>6. -1 # 0
  OBVIOUS
<1>7. QED BY <1>1, <1>3, <1>4, <1>5, <1>6 DEF AuditInit, AuditInv, Waiting, Walking

\* The other commands stay away from the units.
LEMMA OthersStayAway ==
  ASSUME BaseInv, [Next]_vars, RulesStep \/ AdoptionStep \/ DoctorStep \/ UNCHANGED vars
  PROVE  /\ command' = command /\ flags' = flags
         /\ at' = "units" => at = "units"
         /\ at' = "exited" \/ at \notin {"units", "exited"} \/ at' = at
         /\ command = "audit" /\ code' = 0 => code = 0
<1> USE DEF BaseInv, Stations
<1>0. command' = command /\ flags' = flags
  BY StepKeepsCommand
<1>1. CASE UNCHANGED vars
  BY <1>0, <1>1 DEF vars, ruleVars
<1>2. CASE DoctorStep
  BY <1>0, <1>2, DoctorMoves DEF Exit
<1>3. CASE AdoptionStep
  BY <1>0, <1>3 DEF AdoptionStep, InitCI, InitConfig, InitHooks, WriteHook, InitEnds, Writes, Refuses,
     Exit, ruleVars
<1>4. CASE RulesStep
  <2>1. AfterConfig \in {"diff", "report", "print", "mode"}
    BY DEF AfterConfig
  <2>2. CASE BranchMoves \/ OpenRepo \/ Resolve \/ LookUpConfig
    BY <1>0, <2>1, <2>2 DEF BranchMoves, OpenRepo, Resolve, LookUpConfig
  <2>3. CASE GitFails \/ ConfigUnreadable \/ ConfigRefused \/ ConfigLoads
    BY <1>0, <2>1, <2>3 DEF GitFails, ConfigUnreadable, ConfigRefused, ConfigLoads, Exit
  <2>4. CASE ReadDiff \/ LookForHooks \/ NameBaseProbe \/ OpenSession
    BY <1>0, <2>4 DEF ReadDiff, LookForHooks, NameBaseProbe, OpenSession, Exit
  <2>5. CASE Explains \/ Verdict
    BY <1>0, <2>5 DEF Explains, Verdict, Exit
  <2>6. QED BY <1>4, <2>2, <2>3, <2>4, <2>5 DEF RulesStep
<1>5. QED BY <1>1, <1>2, <1>3, <1>4

LEMMA OthersLeaveUnits ==
  ASSUME BaseInv, AuditInv, [Next]_vars, RulesStep \/ AdoptionStep \/ DoctorStep \/ UNCHANGED vars,
         UNCHANGED auditVars
  PROVE  AuditInv'
<1>1. /\ command' = command /\ flags' = flags
      /\ at' = "units" => at = "units"
      /\ at' = "exited" \/ at \notin {"units", "exited"} \/ at' = at
      /\ command = "audit" /\ code' = 0 => code = 0
  BY OthersStayAway
<1>2. Window' = Window /\ Judged' = Judged
  BY <1>1 DEF auditVars, Window, Judged
<1>3. AuditTyped'
  BY DEF AuditInv, AuditTyped, auditVars, Counts, Entries
<1>4. Waiting'
  BY <1>1 DEF AuditInv, Waiting, auditVars
<1>5. Walking'
  <2> SUFFICES ASSUME at' = "units" \/ (command' = "audit" /\ code' = 0)
               PROVE  /\ head' # 0 /\ Judged' \union walked' = Window'
                      /\ \A i \in DOMAIN units' : \A c \in walked' : c < units'[i].commit
                      /\ \A i, j \in DOMAIN units' : i < j => units'[i].commit > units'[j].commit
                      /\ \A i \in DOMAIN units' : units'[i].side = Side(unit', units'[i].commit)
    BY DEF Walking, Side
  <2>1. at = "units" \/ (command = "audit" /\ code = 0)
    <3>1. CASE at' = "units"
      BY <1>1, <3>1
    <3>2. CASE command' = "audit" /\ code' = 0
      BY <1>1, <3>2
    <3>3. QED BY <3>1, <3>2
  <2>2. units' = units /\ walked' = walked /\ unit' = unit /\ head' = head
    BY DEF auditVars
  <2>3. QED BY <1>2, <2>1, <2>2 DEF AuditInv, Walking
<1>6. QED BY <1>3, <1>4, <1>5 DEF AuditInv

\* A set of commits has a newest, and walking downwards it comes first.
LEMMA NewestIsFirst ==
  ASSUME NEW S \in SUBSET Commits, S # {}
  PROVE  Newest(S) \in S /\ \A d \in S : d <= Newest(S)
<1> DEFINE n == Cardinality(Commits)
           T == {n - d : d \in S}
<1>1. Commits = 1..n
  BY RulesAssumption
<1> HIDE DEF n
<1>2. n \in Nat
  BY RulesAssumption, FS_CardinalityType DEF n
<1>3. T \in SUBSET Nat /\ T # {}
  <2>1. \A d \in S : d \in Nat /\ d <= n
    BY <1>1, <1>2
  <2>2. \A d \in S : n - d \in Nat
    BY <1>2, <2>1
  <2>3. QED BY <2>2
<1>4. PICK t \in T : \A m \in T : t <= m
  BY <1>3, HasLeast
<1>5. PICK c \in S : t = n - c
  BY <1>4
<1>6. ASSUME NEW d \in S
      PROVE  d <= c
  <2>1. n - c <= n - d
    BY <1>4, <1>5
  <2>2. c \in Nat /\ d \in Nat
    BY <1>1, <1>2
  <2>3. QED BY <1>2, <2>1, <2>2
<1>7. QED BY <1>5, <1>6 DEF Newest

LEMMA FunctionIsSeq ==
  ASSUME NEW S, NEW n \in Nat, NEW f \in [1..n -> S]
  PROVE  f \in Seq(S)
  OBVIOUS

\* What is raised for a unit is each category once.
LEMMA CategoriesOnce ==
  ASSUME NEW raised \in Trips
  PROVE  Categories(raised) \in Seq(STRING) /\ IsInjective(Categories(raised))
<1> DEFINE S == Range(raised) \ {"suppression"}
           Enum == {f \in [1..Cardinality(S) -> S] : IsInjective(f)}
<1>1. raised \in Seq(STRING)
  BY AuditAssumption
<1>2. Range(raised) \subseteq STRING /\ IsFiniteSet(Range(raised))
  <2>1. raised \in [1..Len(raised) -> STRING] /\ Len(raised) \in Nat
    BY <1>1
  <2>2. raised \in Surjection(1..Len(raised), Range(raised))
    BY <2>1 DEF Surjection, Range
  <2>3. IsFiniteSet(1..Len(raised))
    BY <2>1, FS_Interval
  <2>4. QED BY <2>1, <2>2, <2>3, FS_Surjection DEF Range
<1>3. IsFiniteSet(S)
  BY <1>2, FS_Subset
<1>4. Cardinality(S) \in Nat /\ Enum # {}
  <2> HIDE DEF S
  <2>1. Cardinality(S) \in Nat /\ ExistsBijection(1..Cardinality(S), S)
    BY <1>3, FS_CardinalityType
  <2>2. QED BY <2>1 DEF ExistsBijection, Bijection, Injection
<1>5. Categories(raised) \in Enum
  <2>1. Categories(raised) = CHOOSE f \in [1..Cardinality(S) -> S] : IsInjective(f)
    BY DEF Categories, SetToSeq
  <2> HIDE DEF S
  <2>2. QED BY <1>4, <2>1
<1>6. Categories(raised) \in [1..Cardinality(S) -> STRING]
  BY <1>2, <1>5
<1>7. QED BY <1>4, <1>5, <1>6, FunctionIsSeq

LEMMA JudgeUnitKeeps ==
  ASSUME BaseInv, AuditInv, JudgeUnit
  PROVE  AuditInv'
<1> DEFINE c == Newest(walked)
<1> USE DEF AuditInv
<1>1. at = "units" /\ walked # {} /\ walked' = walked \ {c} /\ UNCHANGED <<ruleVars, unit, head, summary>>
  BY DEF JudgeUnit
<1>2. PICK raised \in Trips :
        units' = Append(units, [commit |-> c, side |-> Side(unit, c), found |-> Categories(raised)])
  BY DEF JudgeUnit
<1> DEFINE u == [commit |-> c, side |-> Side(unit, c), found |-> Categories(raised)]
<1>3. c \in walked /\ c \in Commits /\ \A d \in walked : d <= c
  BY <1>1, NewestIsFirst DEF AuditTyped
<1>4. u \in UnitRecord /\ IsInjective(u.found) /\ u.side = Side(unit, u.commit) /\ u.commit = c
  BY <1>3, CategoriesOnce DEF UnitRecord, Side
<1> HIDE DEF c, u
<1>5. units \in Seq(UnitRecord) /\ units' = Append(units, u)
  BY <1>2 DEF AuditTyped, u, c
<1>6. /\ units' \in Seq(UnitRecord) /\ DOMAIN units' = DOMAIN units \union {Len(units) + 1}
      /\ units'[Len(units) + 1] = u /\ \A i \in DOMAIN units : units'[i] = units[i]
      /\ \A i \in DOMAIN units : i \in Nat /\ i < Len(units) + 1
      /\ Len(units) \in Nat
  BY <1>4, <1>5, AppendTyped
<1>7. AuditTyped'
  <2>1. \A i \in DOMAIN units' : IsInjective(units'[i].found)
    BY <1>4, <1>6 DEF AuditTyped
  <2>2. summary' = <<>>
    BY <1>1 DEF Waiting
  <2>3. walked' \subseteq Commits
    BY <1>1 DEF AuditTyped
  <2>4. QED BY <1>1, <1>6, <2>1, <2>2, <2>3 DEF AuditTyped, UnitRecord
<1>8. at' = "units" /\ command' = command /\ code' = code /\ flags' = flags
  BY <1>1 DEF ruleVars
<1>9. code' # 0
  <2>1. code = -1
    BY <1>1 DEF BaseInv, RulesInv, Spoken
  <2>2. -1 # 0
    OBVIOUS
  <2>3. QED BY <1>8, <2>1, <2>2
<1>10. Waiting'
  BY <1>1, <1>8, <1>9 DEF Waiting
<1>11. /\ head # 0 /\ Judged \union walked = Window
       /\ \A i \in DOMAIN units : \A d \in walked : d < units[i].commit
       /\ \A i, j \in DOMAIN units : i < j => units[i].commit > units[j].commit
       /\ \A i \in DOMAIN units : units[i].side = Side(unit, units[i].commit)
  <2>1. at = "units" /\ Walking
    BY <1>1
  <2>2. QED BY <2>1, Zenon DEF Walking
<1>12. Judged' \union walked' = Window'
  <2>1. Window' = Window
    BY <1>1, <1>8 DEF Window
  <2>2. Judged' = Judged \union {c}
    BY <1>4, <1>6 DEF Judged
  <2>3. QED BY <1>1, <1>3, <1>11, <2>1, <2>2
<1>13. \A i \in DOMAIN units' : \A d \in walked' : d < units'[i].commit
  <2>1. \A d \in walked' : d < c
    <3>1. Commits \subseteq Nat
      BY RulesAssumption, FS_CardinalityType
    <3>2. walked \subseteq Nat /\ c \in Nat
      BY <1>3, <3>1 DEF AuditTyped
    <3>3. QED BY <1>1, <1>3, <3>2
  <2>2. QED BY <1>1, <1>4, <1>6, <1>11, <2>1
<1>14. \A i, j \in DOMAIN units' : i < j => units'[i].commit > units'[j].commit
  <2>1. \A i \in DOMAIN units : units[i].commit > c
    BY <1>3, <1>11
  <2>2. QED BY <1>4, <1>6, <1>11, <2>1
<1>15. \A i \in DOMAIN units' : units'[i].side = Side(unit', units'[i].commit)
  BY <1>1, <1>4, <1>6, <1>11
<1>16. Walking'
  BY <1>1, <1>11, <1>12, <1>13, <1>14, <1>15 DEF Walking, Side
<1>17. QED BY <1>7, <1>10, <1>16

LEMMA WalkKeeps ==
  ASSUME BaseInv, AuditInv, Walk
  PROVE  AuditInv'
<1> USE DEF AuditInv
<1>1. /\ at = "walk" /\ head' = Base /\ at' = "units" /\ UNCHANGED <<flags, code, unit, units, summary>>
      /\ walked' = WithoutRoot(FirstParent(Base, IF flags.since > 0 THEN 0 ELSE flags.last,
                                           flags.since, unit = "merge"))
  BY DEF Walk
<1>2. Base \in Commits /\ Base # 0 /\ units = <<>> /\ DOMAIN units = {} /\ summary = <<>>
  BY <1>1, BaseIsCommit DEF BaseInv, RulesInv, Waiting
<1>3. walked' = Window'
  BY <1>1 DEF Window
<1>4. walked' \subseteq Commits
  <2>1. walked' \subseteq 1..Base
    BY <1>1 DEF WithoutRoot, FirstParent, Capped, Younger
  <2>2. Commits = 1..Cardinality(Commits) /\ Cardinality(Commits) \in Nat
    BY RulesAssumption, FS_CardinalityType
  <2>3. 1..Base \subseteq Commits
    BY <1>2, <2>2
  <2>4. QED BY <2>1, <2>3
<1>5. AuditTyped'
  BY <1>1, <1>2, <1>4 DEF AuditTyped
<1>6. code' # 0
  <2>1. code = -1
    BY <1>1 DEF BaseInv, RulesInv, Spoken
  <2>2. -1 # 0
    OBVIOUS
  <2>3. QED BY <1>1, <2>1, <2>2
<1>7. Waiting'
  BY <1>1, <1>2, <1>6 DEF Waiting
<1>8. Judged' = {} /\ DOMAIN units' = {}
  BY <1>1, <1>2 DEF Judged
<1>9. Walking'
  BY <1>1, <1>2, <1>3, <1>8 DEF Walking
<1>10. QED BY <1>5, <1>7, <1>9

\* A category is counted once for each unit it fired on.
LEMMA CountsAreUnits ==
  ASSUME NEW us \in Seq(UnitRecord), \A i \in DOMAIN us : IsInjective(us[i].found),
         NEW category \in DOMAIN Counts(us)
  PROVE  Counts(us)[category] \in 1..Len(us)
<1> DEFINE E == {e \in Entries(us) : us[e[1]].found[e[2]] = category}
           f == [e \in E |-> e[1]]
<1>1. Len(us) \in Nat /\ DOMAIN us = 1..Len(us)
  OBVIOUS
<1>2. category \in UNION {Range(us[i].found) : i \in DOMAIN us} /\ Counts(us)[category] = Cardinality(E)
  BY DEF Counts
<1>3. E # {}
  <2>1. PICK i \in DOMAIN us : category \in Range(us[i].found)
    BY <1>2
  <2>2. PICK j \in DOMAIN us[i].found : us[i].found[j] = category
    BY <2>1 DEF Range
  <2>3. <<i, j>> \in Entries(us)
    BY <2>2 DEF Entries
  <2>4. <<i, j>> \in E
    BY <2>2, <2>3
  <2>5. QED BY <2>4
<1>4. ASSUME NEW e \in E
      PROVE  \E i \in DOMAIN us : \E j \in DOMAIN us[i].found : e = <<i, j>>
  BY DEF Entries
<1>5. f \in [E -> 1..Len(us)]
  BY <1>1, <1>4
<1>6. ASSUME NEW d \in E, NEW e \in E, d[1] = e[1]
      PROVE  d = e
  <2>1. PICK i \in DOMAIN us : \E j \in DOMAIN us[i].found : d = <<i, j>>
    BY <1>4
  <2>2. PICK j \in DOMAIN us[i].found : d = <<i, j>>
    BY <2>1
  <2>3. PICK k \in DOMAIN us : \E l \in DOMAIN us[k].found : e = <<k, l>>
    BY <1>4
  <2>4. PICK l \in DOMAIN us[k].found : e = <<k, l>>
    BY <2>3
  <2>5. i = k
    BY <1>6, <2>2, <2>4
  <2>6. us[i].found[j] = category /\ us[k].found[l] = category
    BY <2>2, <2>4
  <2>7. j = l
    BY <2>5, <2>6 DEF IsInjective
  <2>8. QED BY <2>2, <2>4, <2>5, <2>7
<1>7. f \in Injection(E, 1..Len(us))
  BY <1>5, <1>6 DEF Injection, IsInjective
<1>8. IsFiniteSet(1..Len(us)) /\ Cardinality(1..Len(us)) = Len(us)
  <2>1. Len(us) > 0 \/ Len(us) = 0
    BY <1>1
  <2>2. QED BY <1>1, <2>1, FS_Interval
<1> HIDE DEF E, f
<1>9. IsFiniteSet(E) /\ Cardinality(E) <= Len(us)
  BY <1>7, <1>8, FS_Injection
<1>10. Cardinality(E) \in Nat /\ Cardinality(E) # 0
  BY <1>3, <1>9, FS_CardinalityType, FS_EmptySet
<1>11. QED BY <1>1, <1>2, <1>9, <1>10

LEMMA AuditKept ==
  ASSUME BaseInv, AuditInv, [Next]_vars
  PROVE  AuditInv'
<1> USE DEF AuditInv
<1>1. CASE (RulesStep \/ AdoptionStep \/ DoctorStep \/ UNCHANGED vars) /\ UNCHANGED auditVars
  BY <1>1, OthersLeaveUnits
<1>2. CASE ResolveMode
  <2>1. /\ at = "mode" /\ at' = "walk" /\ UNCHANGED <<command, flags, code, head, walked, units, summary>>
        /\ unit' \in {unit, Detected(FirstParent(Base, SampleSize, 0, FALSE))}
    BY <1>2 DEF ResolveMode
  <2>2. unit' \in {"auto", "merge", "squash", "commit"}
    BY <2>1 DEF AuditTyped, Detected
  <2>3. AuditTyped'
    BY <2>1, <2>2 DEF AuditTyped, Counts, Entries
  <2>4. code' # 0
    <3>1. code = -1
      BY <2>1 DEF BaseInv, RulesInv, Spoken
    <3>2. -1 # 0
      OBVIOUS
    <3>3. QED BY <2>1, <3>1, <3>2
  <2>5. QED BY <2>1, <2>3, <2>4 DEF Waiting, Walking
<1>3. CASE Walk
  BY <1>3, WalkKeeps
<1>4. CASE JudgeUnit
  BY <1>4, JudgeUnitKeeps
<1>5. CASE Summarise
  <2>1. /\ at = "units" /\ walked = {} /\ summary' = Counts(units)
        /\ UNCHANGED <<unit, head, walked, units, flags>> /\ at' = "exited"
    BY <1>5 DEF Summarise, Exit
  <2>2. AuditTyped'
    BY <2>1 DEF AuditTyped, Counts, Entries
  <2>3. Waiting'
    BY <2>1 DEF Waiting
  <2>4. Window' = Window /\ Judged' = Judged
    BY <2>1 DEF Window, Judged
  <2>5. /\ head # 0 /\ Judged \union walked = Window
        /\ \A i \in DOMAIN units : \A d \in walked : d < units[i].commit
        /\ \A i, j \in DOMAIN units : i < j => units[i].commit > units[j].commit
        /\ \A i \in DOMAIN units : units[i].side = Side(unit, units[i].commit)
    <3>1. at = "units" /\ Walking
      BY <2>1
    <3>2. QED BY <3>1, Zenon DEF Walking
  <2>6. Walking'
    BY <2>1, <2>4, <2>5 DEF Walking, Side
  <2>7. QED BY <2>2, <2>3, <2>6
<1>6. QED BY <1>1, <1>2, <1>3, <1>4, <1>5 DEF Next, AuditStep, vars

LEMMA AuditTypes == AuditInv => AuditTypeOK
<1> SUFFICES ASSUME AuditInv PROVE AuditTypeOK
  OBVIOUS
<1> USE DEF AuditInv
<1>1. ASSUME NEW i \in DOMAIN units
      PROVE  units[i].commit \in Commits /\ units[i].side \in {1, 2} /\ IsInjective(units[i].found)
  <2>1. units[i] \in UnitRecord
    BY DEF AuditTyped
  <2>2. units[i].commit \in Commits /\ units[i].side \in {1, 2}
    BY <2>1 DEF UnitRecord
  <2>3. QED BY <2>2 DEF AuditTyped
<1>2. ASSUME NEW category \in DOMAIN summary
      PROVE  summary[category] \in 1..Len(units)
  <2>1. summary = Counts(units)
    BY DEF AuditTyped
  <2>2. QED BY <2>1, CountsAreUnits DEF AuditTyped
<1>3. QED BY <1>1, <1>2 DEF AuditTypeOK, AuditTyped

\* Any command keeps to its types, over any branch, files, suites and histories.
THEOREM CommandsAreTyped == Spec => []TypeOK
<1> DEFINE Inv == BaseInv /\ DoctorInv /\ DoctorTyped /\ AuditInv /\ AdoptionTyped
<1>1. Init => Inv
  BY BaseInitially, DoctorInitially, DoctorTypedInitially, AuditInitially, AdoptionTypedInitially
<1>2. Inv /\ HookInv /\ [Next]_vars => Inv'
  BY BaseKept, DoctorKept, DoctorTypedKept, AuditKept, AdoptionTypedKept
<1>3. Inv /\ HookInv => TypeOK
  <2> SUFFICES ASSUME Inv, HookInv PROVE TypeOK
    OBVIOUS
  <2>1. RulesTypeOK /\ DoctorTypeOK /\ AuditTypeOK
    BY DoctorTypes, AuditTypes DEF BaseInv
  <2>2. Range(todo) \subseteq HookFiles
    <3>1. todo \in Seq(HookFiles)
      BY DEF HookInv
    <3>2. QED BY <3>1 DEF Range
  <2>3. AdoptionTypeOK
    BY <2>2 DEF AdoptionTyped, AdoptionTypeOK, HookInv
  <2>4. QED BY <2>1, <2>3 DEF TypeOK
<1> HIDE DEF Inv
<1>4. QED BY <1>1, <1>2, <1>3, HookInvHolds, PTL DEF Spec

-----------------------------------------------------------------------------
(* What an audit answers for.                                              *)

\* The commits that brought one change onto base, as far as the mode asks for them.
Asked == {c \in 1..head : Shape[c].parents > (IF unit = "merge" THEN 1 ELSE 0)}

LEMMA ShapeTyped ==
  ASSUME NEW c \in Commits
  PROVE  Shape[c].parents \in 0..3 /\ Shape[c].date \in Nat
<1>1. Shape[c] \in [parents : 0..3, numbered : BOOLEAN, date : Nat]
  BY AuditAssumption
<1>2. QED BY <1>1

\* Where nothing else ends the walk, the cap falls on what is asked for alone: the
\* root is the oldest commit, and nobody counts it before a newer one.
LEMMA WindowIsCapped ==
  ASSUME head \in Commits, flags.since = 0, flags.last \in Nat \ {0}
  PROVE  Window = Capped(Asked, flags.last)
<1> DEFINE A == {c \in 1..head : (unit = "merge") => Merged(c)}
           k == flags.last
<1>0. /\ Commits \subseteq Nat /\ head \in Nat
      /\ \A c \in 1..head : c \in Commits
  <2>1. Commits = 1..Cardinality(Commits) /\ Cardinality(Commits) \in Nat
    BY RulesAssumption, FS_CardinalityType
  <2> HIDE DEF A
  <2>2. QED BY <2>1
<1>1. Younger(head, 0) = 1..head
  <2>1. \A c \in 1..head : \A d \in c..head : Shape[d].date >= 0
    <3>1. \A c \in 1..head : \A d \in c..head : d \in 1..head
      BY <1>0
    <3>2. QED BY <1>0, <3>1, ShapeTyped
  <2>2. QED BY <2>1 DEF Younger
<1>2. FirstParent(head, k, 0, unit = "merge") = Capped(A, k)
  BY <1>1 DEF FirstParent
<1>3. Window = WithoutRoot(Capped(A, k))
  <2>1. ~(flags.since > 0)
    OBVIOUS
  <2>2. QED BY <1>2, <2>1 DEF Window
<1>4. \A c \in 1..head : c \in Asked <=> c \in A /\ Shape[c].parents # 0
  <2> SUFFICES ASSUME NEW c \in 1..head
               PROVE  c \in Asked <=> c \in A /\ Shape[c].parents # 0
    OBVIOUS
  <2>1. Shape[c].parents \in Nat
    BY <1>0, ShapeTyped
  <2>2. QED BY <2>1 DEF Asked, Merged
<1>5. Asked \subseteq A /\ A \subseteq 1..head
  BY <1>4 DEF Asked
<1>6. \A c \in A \ Asked : c = 1
  BY <1>0, <1>4, AuditAssumption
<1>7. ASSUME NEW c \in Asked
      PROVE  {d \in A : d >= c} = {d \in Asked : d >= c}
  <2>1. c \in 1..head /\ c \in Commits /\ Shape[c].parents # 0
    BY <1>0, <1>4, <1>5
  <2>2. \A d \in A : d >= c /\ d \notin Asked => FALSE
    <3> SUFFICES ASSUME NEW d \in A, d >= c, d \notin Asked
                 PROVE  FALSE
      OBVIOUS
    <3>1. d = 1 /\ c = 1
      BY <1>6, <2>1
    <3>2. QED BY <3>1
  <2>3. QED BY <1>5, <2>2
<1>8. \A c : c \in Window <=> /\ c \in Asked
                              /\ Cardinality({d \in Asked : d >= c}) <= k
  <2>1. \A c : c \in Window <=> /\ c \in A /\ Shape[c].parents # 0
                                /\ Cardinality({d \in A : d >= c}) <= k
    BY <1>3 DEF WithoutRoot, Capped
  <2> HIDE DEF A
  <2>2. QED BY <1>4, <1>5, <1>7, <2>1
<1>9. Capped(Asked, k) = {c \in Asked : Cardinality({d \in Asked : d >= c}) <= k}
  BY DEF Capped
<1>10. QED BY <1>8, <1>9

\* Where the date ends the walk, nothing else does.
LEMMA WindowIsYoung ==
  ASSUME head \in Commits, flags.since \in Nat, flags.since > 0
  PROVE  Window = Asked \intersect Younger(head, flags.since)
<1>0. \A c \in 1..head : c \in Commits
  <2>1. Commits = 1..Cardinality(Commits) /\ Cardinality(Commits) \in Nat
    BY RulesAssumption, FS_CardinalityType
  <2>2. QED BY <2>1
<1>1. Window = WithoutRoot({c \in Younger(head, flags.since) : (unit = "merge") => Merged(c)})
  BY DEF Window, FirstParent, Capped
<1>2. ASSUME NEW c \in 1..head
      PROVE  c \in Asked <=> ((unit = "merge") => Merged(c)) /\ Shape[c].parents # 0
  <2>1. Shape[c].parents \in Nat
    BY <1>0, ShapeTyped
  <2>2. QED BY <2>1 DEF Asked, Merged
<1>3. Younger(head, flags.since) \subseteq 1..head /\ Asked \subseteq 1..head
  BY DEF Younger, Asked
<1>4. QED BY <1>1, <1>2, <1>3 DEF WithoutRoot

LEMMA WalkedIsWhole == BaseInv /\ AuditInv => UnitsAreWhole
<1> SUFFICES ASSUME BaseInv, AuditInv, command = "audit", code = 0
             PROVE  UnitsAreWhole
  BY DEF UnitsAreWhole
<1>1. walked = {} /\ head # 0 /\ Judged \union walked = Window
  BY DEF AuditInv, Waiting, Walking
<1>2. /\ \A i, j \in DOMAIN units : i < j => units[i].commit > units[j].commit
      /\ \A i \in DOMAIN units : units[i].side = Side(unit, units[i].commit)
  BY DEF AuditInv, Walking
<1>3. Judged = Window /\ head \in Commits
  BY <1>1 DEF AuditInv, AuditTyped
<1>4. flags.last \in Nat \ {0} /\ flags.since \in Nat
  BY RulesAssumption DEF BaseInv, RulesInv, Kept
<1>5. /\ head \in Nat /\ \A c \in 1..head : c \in Commits
      /\ Asked \subseteq 1..head /\ Asked \in SUBSET Nat /\ IsFiniteSet(Asked)
  <2>1. Commits = 1..Cardinality(Commits) /\ Cardinality(Commits) \in Nat
    BY RulesAssumption, FS_CardinalityType
  <2>2. head \in Nat /\ \A c \in 1..head : c \in Commits
    BY <1>3, <2>1
  <2>3. IsFiniteSet(1..head) /\ 1..head \subseteq Nat
    BY <2>2, FS_Interval
  <2>4. Asked \in SUBSET (1..head)
    BY DEF Asked
  <2>5. QED BY <2>2, <2>3, <2>4, FS_Subset
<1>6. Cardinality(Asked) \in Nat /\ Asked \subseteq Nat
  BY <1>5, FS_CardinalityType
<1>7. Judged \subseteq Asked
  <2>1. CASE flags.since = 0
    BY <1>3, <1>4, <2>1, WindowIsCapped DEF Capped
  <2>2. CASE flags.since > 0
    BY <1>3, <1>4, <2>2, WindowIsYoung
  <2>3. QED BY <1>4, <2>1, <2>2
<1>8. \A i \in DOMAIN units : units[i].side <= Shape[units[i].commit].parents
  <2> SUFFICES ASSUME NEW i \in DOMAIN units
               PROVE  units[i].side <= Shape[units[i].commit].parents
    OBVIOUS
  <2>1. units[i].commit \in Asked
    BY <1>7 DEF Judged
  <2>2. Shape[units[i].commit].parents \in Nat
    <3>1. units[i].commit \in Commits
      BY <1>5, <2>1
    <3>2. QED BY <3>1, ShapeTyped
  <2>3. QED BY <1>2, <2>1, <2>2 DEF Asked, Side
<1>9. flags.since = 0 =>
        /\ Cardinality(Judged) =
             IF Cardinality(Asked) < flags.last THEN Cardinality(Asked) ELSE flags.last
        /\ \A c \in Asked \ Judged : \A d \in Judged : c < d
  <2> SUFFICES ASSUME flags.since = 0
               PROVE  /\ Cardinality(Judged) =
                           IF Cardinality(Asked) < flags.last THEN Cardinality(Asked) ELSE flags.last
                      /\ \A c \in Asked \ Judged : \A d \in Judged : c < d
    OBVIOUS
  <2>1. Judged = Capped(Asked, flags.last)
    BY <1>3, <1>4, WindowIsCapped
  <2>2. Cardinality(Judged) =
          IF Cardinality(Asked) < flags.last THEN Cardinality(Asked) ELSE flags.last
    BY <1>4, <1>5, <2>1, CapIsExact
  <2>3. ASSUME NEW c \in Asked \ Judged, NEW d \in Judged
        PROVE  c < d
    <3>1. /\ Judged = {e \in Asked : Rank(Asked, e) <= flags.last}
          /\ d \in Asked
      BY <1>4, <2>1 DEF Capped, Rank
    <3>2. /\ Rank(Asked, c) \in Nat /\ Rank(Asked, d) \in Nat
          /\ d < c => Rank(Asked, c) < Rank(Asked, d)
      BY <1>5, <1>6, <3>1, Ranked
    <3>3. ~(Rank(Asked, c) <= flags.last) /\ Rank(Asked, d) <= flags.last
      BY <2>3, <3>1
    <3>4. c # d /\ ~(d < c)
      BY <1>4, <3>2, <3>3
    <3>5. c \in Nat /\ d \in Nat
      BY <1>6, <3>1
    <3>6. QED BY <3>4, <3>5
  <2>4. QED BY <2>2, <2>3
<1>10. flags.since > 0 =>
         /\ \A c \in Asked \ Judged : \E d \in c..head : Shape[d].date < flags.since
         /\ \A c \in Asked \ Judged : \A d \in Judged : c < d
  <2> SUFFICES ASSUME flags.since > 0
               PROVE  /\ \A c \in Asked \ Judged : \E d \in c..head : Shape[d].date < flags.since
                      /\ \A c \in Asked \ Judged : \A d \in Judged : c < d
    OBVIOUS
  <2>1. Judged = Asked \intersect Younger(head, flags.since)
    BY <1>3, <1>4, WindowIsYoung
  <2>2. ASSUME NEW c \in Asked \ Judged
        PROVE  \E d \in c..head : Shape[d].date < flags.since
    <3>1. c \in 1..head /\ c \notin Younger(head, flags.since)
      BY <1>5, <2>1
    <3>2. PICK d \in c..head : ~(Shape[d].date >= flags.since)
      BY <3>1 DEF Younger
    <3>3. d \in 1..head
      BY <1>5, <3>1
    <3>4. Shape[d].date \in Nat
      BY <1>5, <3>3, ShapeTyped
    <3>5. QED BY <1>4, <3>2, <3>4
  <2>3. ASSUME NEW c \in Asked \ Judged, NEW e \in Judged
        PROVE  c < e
    <3>1. PICK d \in c..head : Shape[d].date < flags.since
      BY <2>2
    <3>2. e \in 1..head /\ \A g \in e..head : Shape[g].date >= flags.since
      BY <2>1 DEF Younger
    <3>3. c \in 1..head /\ d \in 1..head
      BY <1>5, <3>1
    <3>4. Shape[d].date \in Nat
      BY <1>5, <3>3, ShapeTyped
    <3>5. d \notin e..head
      BY <1>4, <3>1, <3>2, <3>4
    <3>6. QED BY <1>5, <3>1, <3>2, <3>3, <3>5
  <2>4. QED BY <2>2, <2>3
<1>11. \A d \in Judged : Shape[d].date >= flags.since
  <2>1. CASE flags.since = 0
    <3>1. \A d \in Judged : d \in Commits
      BY <1>5, <1>7
    <3>2. \A d \in Judged : Shape[d].date \in Nat
      BY <3>1, ShapeTyped
    <3>3. QED BY <2>1, <3>2
  <2>2. CASE flags.since > 0
    <3>1. Judged \subseteq Younger(head, flags.since)
      BY <1>3, <1>4, <2>2, WindowIsYoung
    <3>2. ASSUME NEW d \in Judged PROVE Shape[d].date >= flags.since
      <4>1. d \in 1..head /\ d \in d..head
        BY <1>5, <1>7
      <4>2. QED BY <3>1, <3>2, <4>1 DEF Younger
    <3>3. QED BY <3>2
  <2>3. QED BY <1>4, <2>1, <2>2
<1>12. \A c \in Asked \ Judged : \A d \in Judged : c < d
  BY <1>4, <1>9, <1>10
<1>13. QED BY <1>2, <1>7, <1>8, <1>9, <1>10, <1>11, <1>12 DEF UnitsAreWhole, Asked, Judged

\* What an audit answers for is whole, over any history, dates out of order included,
\* and whatever the flags ask for.
THEOREM UnitsStayWhole == Spec => []UnitsAreWhole
<1>1. BaseInv /\ AuditInv /\ [Next]_vars => BaseInv' /\ AuditInv'
  BY BaseKept, AuditKept
<1>2. QED BY BaseInitially, AuditInitially, WalkedIsWhole, <1>1, PTL DEF Spec

=============================================================================
