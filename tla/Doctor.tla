------------------------------- MODULE Doctor -------------------------------
(***************************************************************************)
(* redfirst doctor (cmd/redfirst/doctor.go, internal/cliux): it resolves   *)
(* its ref, says what of the adoption is in place, and where the hooks are *)
(* on base runs test.sh there, to tell a script that keeps the contract    *)
(* from one that does not. What goes wrong on the way is a line of the     *)
(* diagnosis and no exit code. The session's own steps are Harness.        *)
(***************************************************************************)
EXTENDS Adoption

CONSTANTS
  Suites       \* what there is to run: [script, resets, loose, tests]

\* What test.sh is in truth: what it reads the filter as, whether its results carry
\* names and files, whether a line of it names REDFIRST_PROBE_INDEX outside a
\* comment. The files of base that match the patterns are a sequence, sorted by
\* name, each with its directory and its cases.
Scripts == [reads : {"file", "dir", "nothing"}, named : BOOLEAN, placed : BOOLEAN,
            mentions : BOOLEAN]

ASSUME DoctorAssumption ==
  \A s \in Suites :
    /\ s.script \in Scripts /\ {s.resets, s.loose} \subseteq BOOLEAN
    /\ s.tests \in Seq([dir : STRING, cases : SUBSET STRING])

VARIABLES
  suite,     \* the truth doctor is after
  session,   \* "none", "open" or "closed"
  laid,      \* the working copy of base lies there
  ran,       \* the reports of the runs so far
  rows       \* the lines of the diagnosis

doctorVars == <<suite, session, laid, ran, rows>>

RowKeys == {"config", "hooks", "workflow", "tier", "harness", "env-mode", "working-copy",
          "test-files", "test.sh", "case-names", "filter", "reruns", "reuse", "env-down.sh"}
Unwritten == [k \in RowKeys |-> ""]

\* Seconds: under the floor, warm, cold. rerunRatio and rerunFloor.
Seconds == {0, 2, 30}
Ratio == 10
Floor == 1

DoctorInit(truth) ==
  /\ suite = truth
  /\ session = "none" /\ laid = FALSE /\ ran = <<>> /\ rows = Unwritten

DoctorTypeOK ==
  /\ suite \in Suites /\ session \in {"none", "open", "closed"}
  /\ laid \in BOOLEAN /\ (laid => session # "none")
  /\ Len(ran) <= 3 /\ DOMAIN rows = RowKeys
  /\ \A i \in DOMAIN ran : ran[i].green \in BOOLEAN /\ ran[i].took \in Seconds

-----------------------------------------------------------------------------
(* A run.                                                                  *)

tests == suite.tests

\* The files a filter of one file makes the script run.
Covered(i) ==
  IF suite.script.reads = "file" THEN {i}
  ELSE IF suite.script.reads = "dir" THEN {j \in DOMAIN tests : tests[j].dir = tests[i].dir}
  ELSE DOMAIN tests

\* caseIDs: what of it the results say, file and name where they carry them.
Ids(i) ==
  UNION {{<<IF suite.script.placed THEN j ELSE 0, IF suite.script.named THEN c ELSE "">> :
            c \in tests[j].cases} : j \in Covered(i)}

\* A run answers for its filter, or did not build and reports nothing, red. How long
\* it took counts for the first two only.
Answers(i, times) ==
  {[ids |-> Ids(i), green |-> g, took |-> s] : g \in BOOLEAN, s \in times}
  \union {[ids |-> {}, green |-> FALSE, took |-> s] : s \in times}

-----------------------------------------------------------------------------
(* What the runs say.                                                      *)

NamesRow(run) ==
  IF run.ids = {} THEN "none"
  ELSE IF \A id \in run.ids : id[2] = "" THEN "unnamed" ELSE "named"

Others_bug == DOMAIN tests \ {1}

\* pair: a second file in another directory, the first there is.
Others == {i \in DOMAIN tests : tests[i].dir # tests[1].dir}
Pair == CHOOSE i \in Others : \A j \in Others : i <= j

FilterRow(run, alone) ==
  IF run.ids = {} /\ alone.ids = {} THEN "cannot-tell"
  ELSE IF run.ids = alone.ids THEN "ignored" ELSE "honoured"

\* testStages: whether base's test.sh names the variable, and not what a first run
\* does: a script may stage without naming it, and name it without staging.
TestStages == suite.script.mentions

RerunRow(one, two) ==
  IF TestStages \/ one.took < Floor THEN "cannot-tell"
  ELSE IF two.took * Ratio < one.took THEN "unexplained-gap" ELSE "fresh"

\* In reused mode, migrations outside the protected paths.
ReuseRow == IF suite.resets /\ suite.loose THEN "outside-protected" ELSE ""

-----------------------------------------------------------------------------
Row(key, says) == rows' = [rows EXCEPT ![key] = says]
GoesTo(next) ==
  /\ at' = next
  /\ UNCHANGED <<command, flags, tip, pinned, cfg, broken, hooks, from, code, adoptionVars>>

\* Report's own rows, and whether there is a harness to probe.
Locates ==
  /\ at = "report"
  /\ rows' = [rows EXCEPT
       !["config"] = IF broken THEN "invalid" ELSE Located("config"),
       !["hooks"] = Located(Hooks), !["workflow"] = Located("workflow"), !["tier"] = NextTier,
       !["harness"] = IF Located(Hooks) = "base" /\ flags.noHooks THEN "not-probed" ELSE ""]
  /\ GoesTo(IF Located(Hooks) = "base" /\ ~flags.noHooks THEN "probe" ELSE "print")
  /\ UNCHANGED <<suite, session, laid, ran>>

OpenFails ==
  /\ at = "probe" /\ session = "none"
  /\ Row("harness", "failed") /\ GoesTo("print")
  /\ UNCHANGED <<suite, session, laid, ran>>

Opens ==
  /\ at = "probe" /\ session = "none"
  /\ session' = "open"
  /\ Row("env-mode", IF suite.resets THEN "reused" ELSE "fresh") /\ GoesTo("probe")
  /\ UNCHANGED <<suite, laid, ran>>

\* The copy, or the walk over it, may fail.
LaysCopy ==
  /\ at = "probe" /\ session = "open" /\ ~laid
  /\ \/ /\ laid' = TRUE
        /\ IF tests = <<>> THEN Row("test-files", "none") /\ GoesTo("close")
           ELSE UNCHANGED rows /\ GoesTo("probe")
     \/ /\ Row("working-copy", "failed") /\ GoesTo("close") /\ UNCHANGED laid
  /\ UNCHANGED <<suite, session, ran>>

\* The same filter twice.
RunsTwice ==
  /\ at = "probe" /\ laid /\ Len(ran) < 2
  /\ \/ /\ \E r \in Answers(1, Seconds) : ran' = Append(ran, r)
        /\ UNCHANGED rows
        /\ GoesTo("probe")
     \/ /\ Row("test.sh", "failed") /\ GoesTo("close") /\ UNCHANGED ran
  /\ UNCHANGED <<suite, session, laid>>

\* checks: the rows, with one run more where two files can be told apart, and a look
\* at the script that may fail.
Concludes(filter) ==
  /\ \E reruns \in {RerunRow(ran[1], ran[2]), "failed"} :
       rows' = [rows EXCEPT !["case-names"] = NamesRow(ran[1]), !["filter"] = filter,
                            !["reruns"] = reruns, !["reuse"] = ReuseRow]
  /\ GoesTo("close")
  /\ UNCHANGED <<suite, session, laid>>

RunsTheOther ==
  /\ at = "probe" /\ Len(ran) = 2
  /\ IF Others = {} THEN Concludes("cannot-tell") /\ UNCHANGED ran
     ELSE \/ \E r \in Answers(Pair, {0}) :
               ran' = Append(ran, r) /\ Concludes(FilterRow(ran[1], r))
          \/ Concludes("failed") /\ UNCHANGED ran

\* The deferred close, on a context of its own: a failure is one more line.
Closes ==
  /\ at = "close"
  /\ session' = "closed"
  /\ \/ UNCHANGED rows
     \/ Row("env-down.sh", "failed")
  /\ GoesTo("print")
  /\ UNCHANGED <<suite, laid, ran>>

\* A finding never changes the exit code; a diagnosis nobody could write does.
Prints ==
  /\ command = "doctor" /\ at = "print"
  /\ \E c \in {0, 4} : Exit(c)
  /\ UNCHANGED <<doctorVars, adoptionVars>>

DoctorStep ==
  Locates \/ OpenFails \/ Opens \/ LaysCopy \/ RunsTwice \/ RunsTheOther \/ Closes \/ Prints

-----------------------------------------------------------------------------
(* Properties.                                                             *)

\* The results carry nothing that tells the first file from some file elsewhere.
Alike == \E i \in DOMAIN tests : tests[i].dir # tests[1].dir /\ Ids(i) = Ids(1)

\* doctor names no cause it has not seen, and misses none that shows. A filter is
\* called ignored only where the script does ignore it, or its results carry nothing
\* that tells files of two directories apart; a script that ignores it is never called honest by
\* two runs that both came through; a gap between reruns is one of the two runs that
\* stand there, and none is called unexplained of a script that names the variable
\* that would explain it. The diagnosis answers for one commit, by a session that
\* is closed before a line is printed, and nothing it finds moves the exit code.
DiagnosisIsHonest ==
  command = "doctor" =>
    /\ rows["filter"] = "ignored" => suite.script.reads = "nothing" \/ Alike
    /\ rows["filter"] = "honoured" /\ (\A i \in {1, 3} : ran[i].green)
         => suite.script.reads # "nothing"
    /\ rows["reruns"] = "unexplained-gap" =>
         ~suite.script.mentions /\ Floor <= ran[1].took /\ ran[2].took * Ratio < ran[1].took
    /\ \A f \in Facts : from[f] \in {0, pinned}
    /\ at \in {"print", "exited"} => session # "open"
    /\ at = "exited" => code \in {0, 2, 4} /\ (code = 2 => session = "none")

=============================================================================
