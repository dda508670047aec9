----------------------------- MODULE MCCommands ----------------------------
(***************************************************************************)
(* Every command over a branch of six commits: a root, a merge with a      *)
(* config that is sound, a squashed commit with one that clashes with the  *)
(* defaults, an octopus that drops both config and hooks, a commit whose   *)
(* config weakens a gate, and one whose config cannot be fetched.          *)
(***************************************************************************)
EXTENDS Commands

MCCommits == 1..6

Config(sets) == [sets |-> sets, unknown |-> FALSE, malformed |-> FALSE]

Off == Config([red_green |-> FALSE, protected |-> {"ci"}, guarded |-> {},
               fixtures_immutability |-> "cases"])
Sound == Config([immutability |-> "cases", severity |-> [g \in {"test-immutability"} |-> "warn"]])
Clash == Config([guarded |-> {"rules"}])
Lowers == Config([severity |-> [g \in {"red-green"} |-> "warn"]])

MCConfigAt == <<Off, Sound, Clash, Missing, Lowers, Unreadable>>
MCHooksAt == <<"h1", "h2", "h2", Missing, "h1", "h1">>
MCWorkflowAt == <<FALSE, TRUE, TRUE, TRUE, FALSE, TRUE>>

Commit(parents, numbered, date) == [parents |-> parents, numbered |-> numbered, date |-> date]
MCShape ==
  <<Commit(0, FALSE, 1), Commit(2, FALSE, 3), Commit(1, TRUE, 2), Commit(3, TRUE, 4),
    Commit(1, FALSE, 5), Commit(2, FALSE, 6)>>
MCTrips == {<<>>, <<"diff-budget", "guarded-path", "suppression", "guarded-path">>}

Flag(probeRuns, noHooks, testFiles, unit_, last, since) ==
  [probeRuns |-> probeRuns, noHooks |-> noHooks, testFiles |-> testFiles,
   unit |-> unit_, last |-> last, since |-> since]
Plain == Flag(0, FALSE, TRUE, "auto", 2, 0)
VerifyFlags == {Flag(p, n, t, "auto", 2, 0) : p \in {0, 2}, n \in BOOLEAN, t \in BOOLEAN}
AuditFlags == {Flag(0, FALSE, TRUE, u, l, s) : u \in {"auto", "merge", "squash", "commit"},
                                               l \in {1, 3}, s \in {0, 2}}
DoctorFlags == {Plain, [Plain EXCEPT !.noHooks = TRUE]}
MCFlags == VerifyFlags \union AuditFlags \union DoctorFlags

NoTree == {}
MCWorkTrees == {NoTree, {"workflow"}, {Hooks}, {"config", Hooks, "test.sh"},
                {Hooks, "compose.yaml"}}
MCMarkers == {[stacks |-> s, compose |-> c] :
                s \in {{}, {"node"}, {"go"}, {"node", "python"}}, c \in BOOLEAN}
NoMarkers == [stacks |-> {}, compose |-> FALSE]
Order(ci, config, hooksFlag) == [ci |-> ci, config |-> config, hooks |-> hooksFlag]
NoOrder == Order(TRUE, FALSE, "")
MCOrders == {NoOrder, Order(FALSE, TRUE, ""), Order(TRUE, TRUE, "auto"), Order(FALSE, FALSE, "auto"),
             Order(FALSE, FALSE, "node-postgres-docker")}

Test(dir, cases) == [dir |-> dir, cases |-> cases]
Suite(reads, named, placed, mentions, files) ==
  [script |-> [reads |-> reads, named |-> named, placed |-> placed, mentions |-> mentions],
   resets |-> mentions, loose |-> named, tests |-> files]
OneDir == <<Test("a", {"x"}), Test("a", {"y"})>>
TwoDirs == <<Test("a", {"x"}), Test("a", {"y"}), Test("b", {"x"})>>
Silent == <<Test("a", {"x"}), Test("b", {}), Test("c", {"x", "z"})>>
NoSuite == Suite("file", TRUE, TRUE, FALSE, <<>>)

Reads == {"file", "dir", "nothing"}
MCSuites ==
  {NoSuite} \union {Suite(r, TRUE, TRUE, FALSE, OneDir) : r \in Reads}
  \union {Suite(r, n, p, n, Silent) : r \in Reads, n \in BOOLEAN, p \in BOOLEAN}
  \union {Suite(r, n, p, FALSE, TwoDirs) : r \in Reads, n \in BOOLEAN, p \in BOOLEAN}

Call(name, with, files, says, wants, truth) ==
  [command |-> name, flags |-> with, tree |-> files, markers |-> says, order |-> wants,
   suite |-> truth]

MCInvocations ==
  {Call("verify", f, NoTree, NoMarkers, NoOrder, NoSuite) : f \in VerifyFlags}
  \union {Call("explain", Plain, NoTree, NoMarkers, NoOrder, NoSuite)}
  \union {Call("audit", f, NoTree, NoMarkers, NoOrder, NoSuite) : f \in AuditFlags}
  \union {Call("init", Plain, t, m, o, NoSuite) : t \in MCWorkTrees, m \in MCMarkers, o \in MCOrders}
  \union {Call("doctor", f, t, m, NoOrder, NoSuite) :
            f \in DoctorFlags, t \in MCWorkTrees, m \in MCMarkers}
  \union {Call("doctor", Plain, NoTree, NoMarkers, NoOrder, s) : s \in MCSuites}

=============================================================================
