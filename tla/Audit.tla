------------------------------- MODULE Audit -------------------------------
(***************************************************************************)
(* redfirst audit (cmd/redfirst/audit.go, internal/audit): the history of  *)
(* the base branch, cut into units, each judged by the gates that need no  *)
(* environment. What a commit of the branch is to git log --first-parent   *)
(* comes from internal/gitx/history.go.                                    *)
(***************************************************************************)
EXTENDS Rules, SequencesExt

CONSTANTS
  Shape,       \* per commit: its parents, a number in its subject, its date
  SampleSize,  \* how many commits the detection looks at
  Trips        \* what the gates may raise for a unit: sequences of categories

\* A first-parent chain: only the first commit may be a root. Dates are ordinals,
\* and a rebase on another machine may have set one back.
ASSUME AuditAssumption ==
  /\ Shape \in [Commits -> [parents : 0..3, numbered : BOOLEAN, date : Nat]]
  /\ \A c \in Commits : Shape[c].parents = 0 => c = 1
  /\ SampleSize \in Nat \ {0} /\ Trips \subseteq Seq(STRING)

VARIABLES
  unit,       \* the mode, "auto" until it is resolved
  head,       \* the commit the walk started from, 0 before
  walked,     \* the commits of the walk that are not judged yet
  units,      \* the units judged so far
  summary     \* how many units each category fired on

auditVars == <<unit, head, walked, units, summary>>

AuditInit ==
  /\ unit = flags.unit /\ head = 0
  /\ walked = {} /\ units = <<>> /\ summary = <<>>

AuditTypeOK ==
  /\ unit \in {"auto", "merge", "squash", "commit"}
  /\ head \in Commits \union {0}
  /\ walked \subseteq Commits
  /\ \A i \in DOMAIN units :
       units[i].commit \in Commits /\ units[i].side \in {1, 2} /\ IsInjective(units[i].found)
  /\ \A category \in DOMAIN summary : summary[category] \in 1..Len(units)

-----------------------------------------------------------------------------
(* git log --first-parent, newest first: a set of commits of the chain,    *)
(* which is numbered from its root. --since ends the walk at the first     *)
(* commit that is older, --merges leaves out the others, and --max-count   *)
(* caps what is left.                                                      *)

Younger(ref, since) == {c \in 1..ref : \A d \in c..ref : Shape[d].date >= since}

Capped(commits, limit) ==
  IF limit = 0 THEN commits
  ELSE {c \in commits : Cardinality({d \in commits : d >= c}) <= limit}

Merged(c) == Shape[c].parents > 1
Numbered(c) == Shape[c].numbered

FirstParent(ref, limit, since, merges) ==
  Capped({c \in Younger(ref, since) : merges => Merged(c)}, limit)

Newest(commits) == CHOOSE c \in commits : \A d \in commits : d <= c

\* Takes the last commit of a walk for the root.
WithoutRoot_bug(commits) == {c \in commits : \E d \in commits : d < c}

\* The commit that started the repository is no unit.
WithoutRoot(commits) == {c \in commits : Shape[c].parents # 0}

\* detect: more than half of the sample decides.
Detected(sample) ==
  LET Most(Is(_)) == 2 * Cardinality({c \in sample : Is(c)}) > Cardinality(sample)
  IN IF Most(Merged) THEN "merge" ELSE IF Most(Numbered) THEN "squash" ELSE "commit"

\* unitDiff: a merge is what its second parent brought since the fork, the others
\* are measured against their first parent.
Side(mode, c) == IF mode = "merge" THEN 2 ELSE 1

\* Counts a gate that refuses and warns twice.
Categories_bug(raised) == SelectSeq(raised, LAMBDA category : category # "suppression")

\* categories: once each, without the lines that restate suppression-scan.
Categories(raised) == SetToSeq(Range(raised) \ {"suppression"})

\* summarise, in whatever order it prints: the entries of all units, by category.
Entries(us) == UNION {{<<i, j>> : j \in DOMAIN us[i].found} : i \in DOMAIN us}

Counts(us) ==
  [category \in UNION {Range(us[i].found) : i \in DOMAIN us} |->
     Cardinality({e \in Entries(us) : us[e[1]].found[e[2]] = category})]

-----------------------------------------------------------------------------
ResolveMode ==
  /\ command = "audit" /\ at = "mode"
  /\ unit' = IF unit # "auto" THEN unit ELSE Detected(FirstParent(Base, SampleSize, 0, FALSE))
  /\ at' = "walk"
  /\ UNCHANGED <<command, flags, tip, pinned, cfg, broken, hooks, from, code>>
  /\ UNCHANGED <<head, walked, units, summary>>

\* walk, and the downgrade of mode cases: --since replaces --last.
Walk ==
  /\ at = "walk"
  /\ head' = Base
  /\ walked' = WithoutRoot(FirstParent(Base, IF flags.since > 0 THEN 0 ELSE flags.last,
                                       flags.since, unit = "merge"))
  /\ cfg' = Downgraded(cfg) /\ at' = "units"
  /\ UNCHANGED <<command, flags, tip, pinned, broken, hooks, from, code, unit, units, summary>>

\* The gates hold a unit's diff against the config, as Verify does without hooks.
JudgeUnit ==
  /\ at = "units" /\ walked # {}
  /\ LET c == Newest(walked)
     IN /\ \E raised \in Trips :
             units' = Append(units, [commit |-> c, side |-> Side(unit, c),
                                     found |-> Categories(raised)])
        /\ walked' = walked \ {c}
  /\ UNCHANGED <<ruleVars, unit, head, summary>>

\* Whatever the gates found, the command judges nobody.
Summarise ==
  /\ at = "units" /\ walked = {}
  /\ summary' = Counts(units)
  /\ \E c \in {0, 4} : Exit(c)
  /\ UNCHANGED <<unit, head, walked, units>>

AuditStep == ResolveMode \/ Walk \/ JudgeUnit \/ Summarise

-----------------------------------------------------------------------------
(* Properties.                                                             *)

\* What one audit answers for: of the branch it read, newest first, every commit
\* that brought one change onto base and that the flags ask for, once each and
\* whole. --last counts such commits where the root is not among them, an exact
\* window either way; a unit is never the commit that started the repository,
\* and the two sides of its diff exist.
UnitsAreWhole ==
  command = "audit" /\ code = 0 =>
    LET asked == {c \in 1..head : Shape[c].parents > (IF unit = "merge" THEN 1 ELSE 0)}
        judged == {units[i].commit : i \in DOMAIN units}
    IN /\ \A i, j \in DOMAIN units : i < j => units[i].commit > units[j].commit
       /\ \A i \in DOMAIN units : units[i].side <= Shape[units[i].commit].parents
       /\ judged \subseteq asked
       /\ flags.since = 0 => Cardinality(judged) =
            LET all == Cardinality(asked) IN IF all < flags.last THEN all ELSE flags.last
       /\ \A c \in asked \ judged : \A d \in judged : c < d
       /\ flags.since > 0 =>
            \A c \in asked \ judged : \E d \in c..head : Shape[d].date < flags.since
       /\ \A d \in judged : Shape[d].date >= flags.since

=============================================================================
