---------------------------- MODULE MCSuiteGreen ----------------------------
(***************************************************************************)
(* suite-green over runs that list up to two of four cases: one name in    *)
(* two files, a case without a name and a case without a file. A rerun is  *)
(* of at most one of them, or of both files' case.                         *)
(***************************************************************************)
EXTENDS SuiteGreen

MCFiles == {"f", "g"}
MCCaseNames == {"a"}

Known == <<[file |-> "f", name |-> "a"], [file |-> "g", name |-> "a"],
           [file |-> "g", name |-> ""], [file |-> "", name |-> "a"]>>

Listing(j, outcome) ==
  [file |-> Known[j].file, name |-> Known[j].name, outcome |-> outcome]

Single == {<<Listing(j, o)>> : j \in 1..4, o \in {"pass", "fail"}}
Double(j, k) == {<<Listing(j, o), Listing(k, p)>> : o \in {"pass", "fail"}, p \in {"pass", "fail"}}

\* A hook that names its cases exits by them, or it fails outside of them.
Exits(lists) ==
  {[green |-> \A j \in DOMAIN l : l[j].outcome # "fail", cases |-> l] : l \in lists}
    \union {[green |-> FALSE, cases |-> l] :
              l \in {<<>>, <<Listing(1, "pass")>>} \intersect lists}

\* Each file and name once.
MCRuns ==
  Exits({<<>>} \union Single
          \union UNION {Double(jk[1], jk[2]) : jk \in {i \in (1..4) \X (1..4) : i[1] < i[2]}})
MCReruns == Exits({<<>>} \union Single \union Double(1, 2))

MCKnownFlaky == {{}, {"a"}, {"g"}}
=============================================================================
