----------------------------- MODULE MCRedGreen -----------------------------
(***************************************************************************)
(* red-green over runs that list up to two cases: one that base had and    *)
(* one the diff adds, under one file or two, passing, failing or skipped.  *)
(***************************************************************************)
EXTENDS RedGreen

MCFiles == {"f", "g"}
MCCaseNames == {"old", "new"}

Case(file, name, outcome) == [file |-> file, name |-> name, outcome |-> outcome]

MCCases == {Case("f", "old", "pass"), Case("f", "new", "skip")} \union
             {Case(file, "new", outcome) : file \in MCFiles, outcome \in {"pass", "fail"}}

\* A run lists a pair of file and name once.
Lists == {<<>>} \union {<<c>> : c \in MCCases}
           \union {<<p[1], p[2]>> : p \in {q \in MCCases \X MCCases :
                <<q[1].file, q[1].name>> # <<q[2].file, q[2].name>>}}

\* A hook that names its cases exits by them; one that names none exits freely.
MCRuns ==
  {[green |-> \A j \in DOMAIN l : l[j].outcome # "fail", cases |-> l] : l \in Lists}
    \union {[green |-> FALSE, cases |-> <<>>]}

MCInventories ==
  {[green |-> TRUE, cases |-> l] :
     l \in {<<>>, <<Case("f", "old", "pass")>>, <<Case("f", "", "pass")>>}}
=============================================================================
