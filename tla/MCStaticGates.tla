--------------------------- MODULE MCStaticGates ---------------------------
EXTENDS StaticGates

\* Two files of the surface, one of them in both lists, and a source file.
MCPathOrder == <<"snap", "src", "test">>
MCLines == {"code", "skip"}

File(lines) == [kind |-> "file", lines |-> lines]
MCEntries == {Absent, File({"code"}), File({"code", "skip"}),
              [kind |-> "link", lines |-> {"code"}], [kind |-> "binary", lines |-> {}]}

Only(tree, S) == \A p \in Paths \ S : tree[p] = Absent
MCTrees == [{"snap", "src", "test"} -> MCEntries]

\* The test and one path more with anything before and after, and one file that
\* becomes several.
MCTreePairs ==
  {t \in [base : MCTrees, head : MCTrees] :
     t.base # t.head /\
     \/ \E p \in Paths : Only(t.base, {p, "test"}) /\ Only(t.head, {p, "test"})
     \/ \E p \in Paths : Only(t.base, {p}) /\ \A q \in Paths : t.head[q] \in {Absent, t.base[p]}}

Plain == [generated |-> {}, opaque |-> {}]
MCAttributes == {Plain, [generated |-> {"src"}, opaque |-> {"test"}]}

Default ==
  [protected |-> {"src"}, guarded |-> {"test"}, allowed |-> {}, restricted |-> FALSE,
   patterns |-> {"snap", "test"}, fixtures |-> {"snap"},
   immutability |-> "append-only", fixturesImmutability |-> "warn",
   requireNew |-> TRUE, suppression |-> TRUE,
   forbidDisabled |-> {"skip"}, suppressed |-> {"skip"},
   budget |-> [files |-> 0, added |-> 1, deleted |-> 1]]

\* Each mode of either list beside an equal, a softer and a harder one.
Modes == {<<"strict", "warn">>, <<"append-only", "append-only">>, <<"append-only", "cases">>,
          <<"strict", "cases">>, <<"cases", "warn">>, <<"cases", "strict">>}

MCConfigs ==
  {[Default EXCEPT !.immutability = m[1], !.fixturesImmutability = m[2]] : m \in Modes}
  \union {[Default EXCEPT !.protected = {}, !.allowed = {"src"}, !.restricted = TRUE,
                          !.requireNew = FALSE, !.suppression = FALSE,
                          !.budget = [files |-> 1, added |-> 1, deleted |-> 0]]}

Case(file, outcome) == [file |-> file, name |-> "case", outcome |-> outcome]
Report(cases) == [green |-> \A i \in DOMAIN cases : cases[i].outcome = "pass", cases |-> cases]
MCRunSets ==
  {<<>>, <<Report(<<>>)>>, <<Report(<<Case("test", "pass")>>)>>,
   <<Report(<<Case("test", "pass"), Case("snap", "fail")>>)>>,
   <<Report(<<Case("test", "pass")>>), Report(<<>>)>>}

=============================================================================
