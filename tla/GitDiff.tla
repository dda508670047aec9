------------------------------ MODULE GitDiff ------------------------------
(***************************************************************************)
(* The change under judgement, as internal/gitx reads it. Four git         *)
(* commands look at the same two trees, the merge base and head: the raw   *)
(* diff names the files, numstat counts lines, check-attr tells generated  *)
(* files, and the patch carries the added lines. The reader pairs the      *)
(* second and the third with the first by head path, and the patch by      *)
(* position.                                                               *)
(*                                                                         *)
(* A file is a kind and a set of lines. How a line ends is part of it, as  *)
(* it is to git: a link is its target, one line without a newline, and     *)
(* shares that line with a file that ends in it without a newline only.    *)
(* What git pairs as a rename or a copy is open, as long as the two ends   *)
(* have something in common.                                               *)
(***************************************************************************)
EXTENDS Integers, FiniteSets, Sequences

CONSTANTS
  PathOrder,    \* the paths of either tree, in the order git lists them
  Lines,        \* the lines files are made of, each with its newline or without
  TreePairs,    \* the trees of interest: [base, head]
  Attributes    \* .gitattributes of interest: [generated, opaque]

Paths == {PathOrder[i] : i \in DOMAIN PathOrder}
NoPath == "none"
Entries == [kind : {"file", "link", "binary", "absent"}, lines : SUBSET Lines]
Absent == [kind |-> "absent", lines |-> {}]
Trees == [Paths -> Entries]

Distinct(s) == \A i, j \in DOMAIN s : s[i] = s[j] => i = j

ASSUME GitDiffAssumption ==
  /\ PathOrder \in Seq(STRING) /\ Distinct(PathOrder) /\ NoPath \notin Paths
  /\ IsFiniteSet(Lines)
  /\ TreePairs \subseteq [base : Trees, head : Trees]
  /\ Attributes \subseteq [generated : SUBSET Paths, opaque : SUBSET Paths]

VARIABLES
  trees,      \* the two trees
  attrs,      \* their .gitattributes: [base, head]
  origin,     \* what git takes each added file for: a source path, or NoPath
  at,         \* the command that runs next, "read" after the last one,
              \* "broken" where git failed, "internal" where the reader did
  files,      \* Diff.Files
  reader      \* the patch as far as git has printed it and the reader has read it

diffVars == <<trees, attrs, origin, at, files, reader>>

BaseTree == trees.base
HeadTree == trees.head

\* A change as the reader holds it. Object ids and line numbers are left out.
FileChange == [status : {"A", "C", "D", "M", "R", "T"}, path : Paths,
               old : Paths \union {NoPath}, added : Nat, deleted : Nat,
               binary : BOOLEAN, generated : BOOLEAN, lines : SUBSET Lines]

\* printed counts the files git is done with; current, header and the added lines of
\* each file are the reader's own, and lost is a patch that does not fit.
Readings == [printed : Nat, current : Nat, header : (Paths \X Paths) \union {<<>>},
             lines : [DOMAIN PathOrder -> SUBSET Lines], lost : BOOLEAN]

PatchStart == [printed |-> 0, current |-> 0, header |-> <<>>,
               lines |-> [i \in DOMAIN PathOrder |-> {}], lost |-> FALSE]

DiffTypeOK ==
  /\ trees \in [base : Trees, head : Trees]
  /\ attrs \in [base : Attributes, head : Attributes]
  /\ origin \in [Paths -> Paths \union {NoPath}]
  /\ at \in {"raw", "numstat", "check-attr", "patch", "read", "broken", "internal"}
  /\ files \in Seq(FileChange)
  /\ reader \in Readings

DiffInit ==
  /\ trees \in TreePairs
  /\ attrs \in [base : Attributes, head : Attributes]
  /\ origin = [p \in Paths |-> NoPath]
  /\ at = "raw" /\ files = <<>> /\ reader = PatchStart

-----------------------------------------------------------------------------
(* What git prints.                                                        *)

Present(tree) == {p \in Paths : tree[p] # Absent}
Added   == Present(HeadTree) \ Present(BaseTree)
Deleted == Present(BaseTree) \ Present(HeadTree)
Changed == {p \in Present(BaseTree) \intersect Present(HeadTree) : BaseTree[p] # HeadTree[p]}

\* Only files of the diff are sources (--find-copies, never harder). A link is
\* paired with the same link, a file with one it shares something with.
Alike(a, b) ==
  /\ a.kind = b.kind
  /\ \/ a = b \/ a.kind = "binary"
     \/ a.kind = "file" /\ a.lines \intersect b.lines # {}

Pairings ==
  {o \in [Paths -> Deleted \union Changed \union {NoPath}] :
     \A p \in Paths : o[p] # NoPath => p \in Added /\ Alike(BaseTree[o[p]], HeadTree[p])}

Takers(p) == {q \in Added : origin[q] = p}
Place(p) == CHOOSE i \in DOMAIN PathOrder : PathOrder[i] = p

\* Of the files that take a deleted one for their source the last is the rename.
Renamed(p) ==
  origin[p] \in Deleted /\ \A q \in Takers(origin[p]) : Place(q) <= Place(p)

StatusOf(p) ==
  IF p \in Deleted THEN "D"
  ELSE IF p \in Changed
    THEN IF (BaseTree[p].kind = "link") = (HeadTree[p].kind = "link") THEN "M" ELSE "T"
  ELSE IF origin[p] = NoPath THEN "A"
  ELSE IF Renamed(p) THEN "R" ELSE "C"

InOrder(S) ==
  [i \in 1..Cardinality(S) |->
     CHOOSE p \in S : Cardinality({q \in S : Place(q) <= Place(p)}) = i]

\* The head paths of the diff. A source that was renamed has no line of its own.
Shown == Added \union Changed \union {d \in Deleted : Takers(d) = {}}
Listed == InOrder(Shown)

\* The two sides git compares for a listed path.
Source(p) == IF origin[p] = NoPath THEN p ELSE origin[p]
Before(p) == BaseTree[Source(p)]

\* Git prints no line of a binary file, nor of one the attributes call so. It
\* reads them at the tree --attr-source names, and for files only.
Dark(p, entry, attributes) ==
  entry.kind = "binary" \/ (entry.kind = "file" /\ p \in attributes.opaque)

Opaque(p, attributes) ==
  Dark(Source(p), Before(p), attributes) \/ Dark(p, HeadTree[p], attributes)

\* The raw diff, one record per file.
RawDiff ==
  [i \in DOMAIN Listed |-> [status |-> StatusOf(Listed[i]), path |-> Listed[i],
                            old |-> origin[Listed[i]]]]

\* The counts of a file, which go by content alone: to numstat a type change is
\* a change of lines like any other.
Counts(p) ==
  IF Opaque(p, attrs.base) THEN [path |-> p, binary |-> TRUE, added |-> 0, deleted |-> 0]
  ELSE [path |-> p, binary |-> FALSE,
        added |-> Cardinality(HeadTree[p].lines \ Before(p).lines),
        deleted |-> Cardinality(Before(p).lines \ HeadTree[p].lines)]

Numstat == {Counts(Listed[i]) : i \in DOMAIN Listed}

-----------------------------------------------------------------------------
(* How the reader pairs it.                                                *)

\* parseRaw: the counters, the mark and the lines come with the later commands.
Unread(record) ==
  [status |-> record.status, path |-> record.path, old |-> record.old,
   added |-> 0, deleted |-> 0, binary |-> FALSE, generated |-> FALSE, lines |-> {}]

\* indexByPath: a record for a path the raw diff did not name is our own bug.
Addressed(records) ==
  \A r \in records : \E i \in DOMAIN files : files[i].path = r.path

\* applyCounts, for the record of each file that has one.
Counted(records) ==
  [i \in DOMAIN files |->
     IF \E r \in records : r.path = files[i].path
       THEN LET r == CHOOSE s \in records : s.path = files[i].path
            IN [files[i] EXCEPT !.added = r.added, !.deleted = r.deleted, !.binary = r.binary]
       ELSE files[i]]

\* markGenerated asks at the merge base, about the head paths.
Marked(generated) ==
  [i \in DOMAIN files |-> [files[i] EXCEPT !.generated = files[i].path \in generated]]

\* Starts the next file at every header.
ReadRecord_bug(state, record) ==
  IF state.lost THEN state
  ELSE IF record.kind = "header"
    THEN [state EXCEPT !.header = record.name, !.current = @ + 1,
                       !.lost = state.current = Len(files)]
  ELSE IF state.current = 0 THEN [state EXCEPT !.lost = TRUE]
  ELSE [state EXCEPT !.lines[state.current] = @ \union record.lines]

\* patch.parse and readHunk: a header that repeats the last one continues its
\* file, any other starts the next, and a hunk belongs to the current file.
ReadRecord(state, record) ==
  IF state.lost \/ (record.kind = "header" /\ record.name = state.header) THEN state
  ELSE IF record.kind = "header"
    THEN [state EXCEPT !.header = record.name, !.current = @ + 1,
                       !.lost = state.current = Len(files)]
  ELSE IF state.current = 0 THEN [state EXCEPT !.lost = TRUE]
  ELSE [state EXCEPT !.lines[state.current] = @ \union record.lines]

\* The patch of a file: a header, and a hunk where lines changed. A type change prints
\* twice, the old file deleted and the new one added.
Header(p) == [kind |-> "header", name |-> <<Source(p), p>>, lines |-> {}]

ReadHunk(state, dark, from, to) ==
  IF dark \/ from = to THEN state
  ELSE ReadRecord(state, [kind |-> "hunk", name |-> <<>>, lines |-> to \ from])

ReadFile(state, p) ==
  LET opened == ReadRecord(state, Header(p))
      gone == ReadHunk(opened, Dark(p, BaseTree[p], attrs.base), BaseTree[p].lines, {})
  IN IF StatusOf(p) = "T"
       THEN ReadHunk(ReadRecord(gone, Header(p)),
                     Dark(p, HeadTree[p], attrs.base), {}, HeadTree[p].lines)
       ELSE ReadHunk(opened, Opaque(p, attrs.base), Before(p).lines, HeadTree[p].lines)

\* patch.check: as many files as the raw diff, as many lines as numstat.
PairsUp ==
  /\ ~reader.lost /\ reader.current = Len(files)
  /\ \A i \in DOMAIN files : Cardinality(reader.lines[i]) = files[i].added

-----------------------------------------------------------------------------
\* Any of the commands can fail, or be killed with the context.
GitFails ==
  /\ at \in {"raw", "numstat", "check-attr", "patch"}
  /\ at' = "broken"
  /\ UNCHANGED <<trees, attrs, origin, files, reader>>

RawDiffRuns ==
  /\ at = "raw"
  /\ UNCHANGED <<trees, attrs, reader>>
  /\ origin' \in Pairings
  /\ files' = [i \in DOMAIN RawDiff' |-> Unread(RawDiff'[i])]
  /\ at' = "numstat"

NumstatRuns ==
  /\ at = "numstat"
  /\ IF Addressed(Numstat) THEN at' = "check-attr" /\ files' = Counted(Numstat)
     ELSE at' = "internal" /\ UNCHANGED files
  /\ UNCHANGED <<trees, attrs, origin, reader>>

\* Asks at head, where the diff has a say.
CheckAttrRuns_bug ==
  /\ at = "check-attr"
  /\ files' = Marked(attrs.head.generated)
  /\ at' = "patch"
  /\ UNCHANGED <<trees, attrs, origin, reader>>

CheckAttrRuns ==
  /\ at = "check-attr"
  /\ files' = Marked(attrs.base.generated)
  /\ at' = "patch"
  /\ UNCHANGED <<trees, attrs, origin, reader>>

\* Git prints the files in the order of the raw diff.
PatchPrints ==
  /\ at = "patch" /\ ~reader.lost /\ reader.printed < Len(Listed)
  /\ reader' = [ReadFile(reader, Listed[reader.printed + 1]) EXCEPT !.printed = @ + 1]
  /\ UNCHANGED <<trees, attrs, origin, at, files>>

PatchEnds ==
  /\ at = "patch" /\ (reader.lost \/ reader.printed = Len(Listed))
  /\ IF PairsUp
       THEN /\ at' = "read"
            /\ files' = [i \in DOMAIN files |-> [files[i] EXCEPT !.lines = reader.lines[i]]]
       ELSE at' = "internal" /\ UNCHANGED files
  /\ UNCHANGED <<trees, attrs, origin, reader>>

Read ==
  GitFails \/ RawDiffRuns \/ NumstatRuns \/ CheckAttrRuns \/ PatchPrints \/ PatchEnds

-----------------------------------------------------------------------------
(* Properties of the reader.                                               *)

\* What a file of the diff adds, as the two trees have it.
OwnLines(f) ==
  IF f.status = "T"
    THEN IF Dark(f.path, HeadTree[f.path], attrs.base) THEN {} ELSE HeadTree[f.path].lines
  ELSE IF Opaque(f.path, attrs.base) THEN {}
  ELSE HeadTree[f.path].lines \ Before(f.path).lines

\* A type change whose counts and patch disagree: numstat is silent on a file it
\* cannot read and on a line both sides hold (the target of a link, where the file
\* ends in it without a newline), and the patch prints either.
Unpaired(p) ==
  /\ p \in Changed /\ StatusOf(p) = "T" /\ OwnLines([status |-> "T", path |-> p]) # {}
  /\ \/ Dark(p, BaseTree[p], attrs.base)
     \/ BaseTree[p].lines \intersect HeadTree[p].lines # {}

\* The four outputs line up: every file of a diff that was read carries its own
\* added lines and no other file's, whatever precedes it, and but for those type
\* changes there is no pair of trees the reader gives up on.
LinesAreOwn ==
  /\ at = "internal" => \E p \in Paths : Unpaired(p)
  /\ at = "read" => \A i \in DOMAIN files : files[i].lines = OwnLines(files[i])

\* "A type change prints twice under a single raw diff record" and pairs with it
\* (patch.go, and the regression test of that name): what git prints of two trees
\* never looks like a bug of redfirst.
EveryDiffIsRead == at # "internal"

=============================================================================
