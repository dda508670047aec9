------------------------------ MODULE MCProbe ------------------------------
(***************************************************************************)
(* The probe over two test files and a source file, with a diff of each    *)
(* shape that leads the probe down another path: tests added, modified,    *)
(* deleted, renamed and copied inside the surface, with and without a fix, *)
(* and tests that are, become or stop being links: to a source file the    *)
(* diff fixes, or to another test.                                         *)
(***************************************************************************)
EXTENDS Probe

MCPaths == {"a_test", "b_test", "src"}
MCSurface == {"a_test", "b_test"}
MCLinkTo == [p \in MCPaths |-> CASE p = "a_test" -> "src"
                                 [] p = "b_test" -> "a_test"
                                 [] OTHER -> "nowhere"]

Moved(status, old, path) ==
  [status |-> status, path |-> path, old |-> old, from |-> "file", to |-> "file"]
Change(status, path) == Moved(status, path, path)
Link(f) == [f EXCEPT !.from = "link", !.to = "link"]
Turned(path, to) ==
  [Change("T", path) EXCEPT !.from = IF to = "link" THEN "file" ELSE "link", !.to = to]
Fix == Change("M", "src")

MCDiffs == {
  {Fix},
  {Fix, Change("A", "a_test")},
  {Fix, Change("M", "a_test")},
  {Fix, Change("M", "a_test"), Change("A", "b_test")},
  {Fix, Change("D", "a_test")},
  {Fix, Change("D", "a_test"), Change("M", "b_test")},
  {Fix, Moved("R", "a_test", "b_test")},
  {Fix, Moved("C", "a_test", "b_test")},
  {Change("A", "src"), Change("M", "a_test")},
  {Fix, Turned("a_test", "file")},
  {Fix, Turned("a_test", "link"), Change("M", "b_test")},
  {Fix, Change("M", "a_test"), Turned("b_test", "file")},
  {Fix, Change("M", "a_test"), Link(Change("M", "b_test"))},
  {Fix, Link(Moved("R", "a_test", "b_test"))},
  {Fix, Change("M", "a_test"), Link(Change("A", "b_test"))},
  {Fix, Link(Change("D", "a_test")), Change("M", "b_test")}}

ASSUME NothingCrosses == \A d \in MCDiffs : StaysInSurface(d)

\* A test that becomes a source file, with a fix in it.
MCMovedDiffs == {{Moved("R", "a_test", "src"), Change("A", "b_test")}}
=============================================================================
