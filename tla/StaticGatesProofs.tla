------------------------- MODULE StaticGatesProofs -------------------------
(***************************************************************************)
(* Proofs about StaticGates, for any two trees over any paths, whatever    *)
(* git pairs in them, and any config: each file of a diff that was read    *)
(* carries its own lines, and what a gate clears is true of the trees.     *)
(***************************************************************************)
EXTENDS StaticGates, OutcomesProofs, FiniteSetTheorems

-----------------------------------------------------------------------------
(* Paths in order.                                                         *)

LEMMA PlacesTyped ==
  /\ Len(PathOrder) \in Nat /\ DOMAIN PathOrder = 1..Len(PathOrder)
  /\ \A p \in Paths : Place(p) \in 1..Len(PathOrder) /\ PathOrder[Place(p)] = p
  /\ IsFiniteSet(Paths) /\ Cardinality(Paths) <= Len(PathOrder)
<1>1. Len(PathOrder) \in Nat /\ DOMAIN PathOrder = 1..Len(PathOrder)
  BY GitDiffAssumption
<1>2. ASSUME NEW p \in Paths
      PROVE  Place(p) \in 1..Len(PathOrder) /\ PathOrder[Place(p)] = p
  <2>1. \E i \in DOMAIN PathOrder : PathOrder[i] = p
    BY DEF Paths
  <2>2. QED BY <1>1, <2>1 DEF Place
<1>3. IsFiniteSet(Paths) /\ Cardinality(Paths) <= Len(PathOrder)
  <2>1. IsFiniteSet(1..Len(PathOrder)) /\ Cardinality(1..Len(PathOrder)) = Len(PathOrder)
    <3>1. Len(PathOrder) > 0 \/ Len(PathOrder) = 0
      BY <1>1
    <3>2. QED BY <1>1, <3>1, FS_Interval
  <2> DEFINE f == [i \in 1..Len(PathOrder) |-> PathOrder[i]]
  <2>2. f \in Surjection(1..Len(PathOrder), Paths)
    BY <1>1 DEF Paths, Surjection
  <2> HIDE DEF f
  <2>3. QED BY <2>1, <2>2, FS_Surjection
<1>4. QED BY <1>1, <1>2, <1>3

\* A set of paths in order lists each of them once.
LEMMA InOrderListsAll ==
  ASSUME NEW S \in SUBSET Paths
  PROVE  /\ Cardinality(S) \in Nat /\ Cardinality(S) <= Len(PathOrder)
         /\ DOMAIN InOrder(S) = 1..Cardinality(S)
         /\ \A i \in 1..Cardinality(S) : InOrder(S)[i] \in S
         /\ \A i, j \in 1..Cardinality(S) : InOrder(S)[i] = InOrder(S)[j] => i = j
         /\ \A p \in S : \E i \in 1..Cardinality(S) : InOrder(S)[i] = p
<1> DEFINE Upto(p) == {q \in S : Place(q) <= Place(p)}
           Nth(p) == Cardinality(Upto(p))
           n == Cardinality(S)
           f == [p \in S |-> Nth(p)]
<1>1. IsFiniteSet(S) /\ n \in Nat /\ n <= Len(PathOrder)
  <2>1. IsFiniteSet(S) /\ n <= Cardinality(Paths)
    BY PlacesTyped, FS_Subset
  <2>2. n \in Nat /\ Cardinality(Paths) \in Nat
    BY <2>1, PlacesTyped, FS_CardinalityType
  <2>3. QED BY <2>1, <2>2, PlacesTyped
<1>2. \A p \in S : Place(p) \in Nat /\ p \in Paths
  BY PlacesTyped
<1>3. ASSUME NEW p \in S
      PROVE  Nth(p) \in 1..n
  <2>1. Upto(p) \in SUBSET S /\ p \in Upto(p)
    BY <1>2
  <2> HIDE DEF Upto, n
  <2>2. IsFiniteSet(Upto(p)) /\ Nth(p) <= n
    BY <1>1, <2>1, FS_Subset DEF n
  <2>3. Nth(p) \in Nat /\ Nth(p) # 0
    BY <2>1, <2>2, FS_CardinalityType, FS_EmptySet
  <2>4. QED BY <1>1, <2>2, <2>3
<1>4. ASSUME NEW p \in S, NEW q \in S, Place(p) < Place(q)
      PROVE  Nth(p) # Nth(q)
  <2>1. Upto(p) \subseteq Upto(q) /\ q \in Upto(q) /\ q \notin Upto(p)
    <3>1. \A r \in S : Place(r) <= Place(p) => Place(r) <= Place(q)
      BY <1>2, <1>4
    <3>2. ~(Place(q) <= Place(p)) /\ Place(q) <= Place(q)
      BY <1>2, <1>4
    <3>3. QED BY <3>1, <3>2
  <2>2. Upto(p) \in SUBSET Upto(q) /\ IsFiniteSet(Upto(q))
    BY <1>1, <2>1, FS_Subset
  <2> HIDE DEF Upto
  <2>3. QED BY <2>1, <2>2, FS_Subset
<1>5. ASSUME NEW p \in S, NEW q \in S, Nth(p) = Nth(q)
      PROVE  p = q
  <2>1. ~(Place(p) < Place(q)) /\ ~(Place(q) < Place(p))
    BY <1>4, <1>5
  <2>2. Place(p) = Place(q)
    BY <1>2, <2>1
  <2>3. QED BY <1>2, <2>2, PlacesTyped
<1> HIDE DEF Nth
<1>6. f \in Injection(S, 1..n)
  BY <1>3, <1>5 DEF Injection, IsInjective
<1>7. IsFiniteSet(1..n) /\ Cardinality(1..n) = n
  <2>1. n > 0 \/ n = 0
    BY <1>1
  <2>2. QED BY <1>1, <2>1, FS_Interval
<1>8. f \in Surjection(S, 1..n)
  <2> HIDE DEF f, n
  <2>1. QED BY <1>6, <1>7, FS_Injection DEF n
<1>9. \A i \in 1..n : \E p \in S : Nth(p) = i
  BY <1>8 DEF Surjection
<1>10. DOMAIN InOrder(S) = 1..n /\ \A i \in 1..n : InOrder(S)[i] = CHOOSE p \in S : Nth(p) = i
  BY DEF InOrder, Nth
<1>11. \A i \in 1..n : InOrder(S)[i] \in S /\ Nth(InOrder(S)[i]) = i
  BY <1>9, <1>10
<1>12. \A p \in S : InOrder(S)[Nth(p)] = p
  BY <1>3, <1>5, <1>11
<1>13. QED BY <1>1, <1>3, <1>10, <1>11, <1>12

-----------------------------------------------------------------------------
(* The two trees and what git pairs in them.                               *)

Sided ==
  /\ trees \in [base : Trees, head : Trees] /\ attrs \in [base : Attributes, head : Attributes]
  /\ origin \in Pairings

\* What the trees say of every path.
StatusMap == [p \in Paths |-> StatusOf(p)]
HeaderMap == [p \in Paths |-> <<Source(p), p>>]
CountMap  == [p \in Paths |-> Counts(p)]
OwnMap    == [p \in Paths |-> OwnLines([status |-> StatusOf(p), path |-> p])]
Misfits   == {p \in Paths : Unpaired(p)}

Statuses == {"A", "C", "D", "M", "R", "T"}

SidesTyped ==
  /\ \A p \in Paths : BaseTree[p] \in Entries /\ HeadTree[p] \in Entries
  /\ Added \subseteq Paths /\ Deleted \subseteq Paths /\ Changed \subseteq Paths /\ Shown \subseteq Paths
  /\ \A p \in Paths : origin[p] # NoPath =>
       p \in Added /\ origin[p] \in Deleted \union Changed /\ Alike(BaseTree[origin[p]], HeadTree[p])

LEMMA SidesAreTyped == Sided => SidesTyped
<1> SUFFICES ASSUME Sided PROVE SidesTyped
  OBVIOUS
<1>1. \A p \in Paths : BaseTree[p] \in Entries /\ HeadTree[p] \in Entries
  BY DEF Sided, BaseTree, HeadTree, Trees
<1>2. Added \subseteq Paths /\ Deleted \subseteq Paths /\ Changed \subseteq Paths /\ Shown \subseteq Paths
  BY DEF Added, Deleted, Changed, Shown, Present
<1>3. \A p \in Paths : origin[p] # NoPath =>
        p \in Added /\ origin[p] \in Deleted \union Changed /\ Alike(BaseTree[origin[p]], HeadTree[p])
  BY DEF Sided, Pairings
<1>4. QED BY <1>1, <1>2, <1>3 DEF SidesTyped

\* What becomes of a path is one thing alone.
LEMMA PathsDivide ==
  ASSUME Sided, NEW p \in Paths
  PROVE  /\ p \in Added => p \notin Deleted \union Changed
         /\ p \in Deleted => p \notin Changed /\ HeadTree[p] = Absent /\ BaseTree[p] # Absent
         /\ p \in Changed => BaseTree[p] # HeadTree[p] /\ BaseTree[p] # Absent /\ HeadTree[p] # Absent
         /\ BaseTree[p] # HeadTree[p] => p \in Added \union Deleted \union Changed
         /\ p \in Added => BaseTree[p] = Absent
         /\ origin[p] # NoPath => p \in Added
         /\ Source(p) \in Paths /\ Before(p) \in Entries
  BY SidesAreTyped DEF SidesTyped, Added, Deleted, Changed, Present, Source, Before

LEMMA StatusesTyped ==
  ASSUME Sided, NEW p \in Paths
  PROVE  /\ StatusMap[p] = StatusOf(p) /\ StatusOf(p) \in Statuses
         /\ StatusOf(p) = "D" <=> p \in Deleted
         /\ StatusOf(p) \in {"M", "T"} <=> p \in Changed
         /\ StatusOf(p) \in {"C", "R"} => origin[p] # NoPath
         /\ StatusOf(p) = "R" => Renamed(p)
         /\ p \in Added => (StatusOf(p) = "R" <=> origin[p] # NoPath /\ Renamed(p))
         /\ StatusOf(p) = "T" => Source(p) = p
         /\ p \in Changed => (StatusOf(p) = "M" <=>
              ((BaseTree[p].kind = "link") = (HeadTree[p].kind = "link")))
<1>1. StatusMap[p] = StatusOf(p)
  BY DEF StatusMap
<1>2. p \in Changed => p \notin Deleted /\ origin[p] = NoPath
  BY PathsDivide
<1>3. p \in Added => p \notin Deleted /\ p \notin Changed
  BY PathsDivide
<1>4. QED BY <1>1, <1>2, <1>3 DEF StatusOf, Statuses, Source

LEMMA FunctionIsSeq ==
  ASSUME NEW S, NEW n \in Nat, NEW f \in [1..n -> S]
  PROVE  f \in Seq(S) /\ Len(f) = n
  OBVIOUS

RawRecords == [status : Statuses, path : Paths, old : Paths \union {NoPath}]

RawMatches ==
  /\ Cardinality(Shown) \in Nat /\ Cardinality(Shown) <= Len(PathOrder)
  /\ DOMAIN RawDiff = 1..Cardinality(Shown) /\ Len(Listed) = Cardinality(Shown)
  /\ DOMAIN Listed = 1..Cardinality(Shown)
  /\ \A i \in DOMAIN RawDiff :
       /\ RawDiff[i] \in RawRecords /\ RawDiff[i].path \in Shown /\ RawDiff[i].path = Listed[i]
       /\ RawDiff[i].status = StatusMap[RawDiff[i].path]
       /\ RawDiff[i].old = origin[RawDiff[i].path]
  /\ \A i, j \in DOMAIN RawDiff : RawDiff[i].path = RawDiff[j].path => i = j
  /\ \A p \in Shown : \E i \in DOMAIN RawDiff : RawDiff[i].path = p

LEMMA RawDiffMatches == Sided => RawMatches
<1> SUFFICES ASSUME Sided PROVE RawMatches
  OBVIOUS
<1> DEFINE n == Cardinality(Shown)
<1>1. /\ n \in Nat /\ n <= Len(PathOrder) /\ DOMAIN Listed = 1..n
      /\ \A i \in 1..n : Listed[i] \in Shown
      /\ \A i, j \in 1..n : Listed[i] = Listed[j] => i = j
      /\ \A p \in Shown : \E i \in 1..n : Listed[i] = p
  BY SidesAreTyped, InOrderListsAll DEF SidesTyped, Listed
<1>2. Shown \subseteq Paths
  BY SidesAreTyped DEF SidesTyped
<1> HIDE DEF n
<1>3. DOMAIN RawDiff = 1..n
  BY <1>1 DEF RawDiff
<1>4. ASSUME NEW i \in 1..n
      PROVE  /\ RawDiff[i].path = Listed[i]
             /\ RawDiff[i].status = StatusMap[RawDiff[i].path]
             /\ RawDiff[i].old = origin[RawDiff[i].path]
             /\ RawDiff[i] \in RawRecords
  <2>1. RawDiff[i] = [status |-> StatusOf(Listed[i]), path |-> Listed[i], old |-> origin[Listed[i]]]
    BY <1>1 DEF RawDiff
  <2>2. Listed[i] \in Paths
    BY <1>1, <1>2
  <2>3. StatusOf(Listed[i]) \in Statuses /\ StatusMap[Listed[i]] = StatusOf(Listed[i])
    BY <2>2, StatusesTyped
  <2>4. origin[Listed[i]] \in Paths \union {NoPath}
    BY <2>2, SidesAreTyped DEF SidesTyped
  <2>5. QED BY <2>1, <2>2, <2>3, <2>4 DEF RawRecords
<1>5. Len(Listed) = n
  <2>1. Listed = [i \in 1..n |-> Listed[i]]
    <3>1. Listed = [i \in 1..Cardinality(Shown) |-> Listed[i]]
      BY DEF Listed, InOrder
    <3>2. QED BY <3>1 DEF n
  <2>2. Listed \in [1..n -> Shown]
    BY <1>1, <2>1
  <2>3. QED BY <1>1, <2>2, FunctionIsSeq
<1>6. QED BY <1>1, <1>3, <1>4, <1>5 DEF RawMatches, n

-----------------------------------------------------------------------------
(* What the reader holds, command by command.                              *)

\* From the raw diff on, one record per listed path, with its status and its source.
FilesMatch ==
  at \notin {"raw", "broken"} =>
    /\ Len(files) = Len(Listed) /\ Len(files) <= Len(PathOrder)
    /\ \A i \in DOMAIN files :
         /\ files[i].path \in Shown /\ files[i].path = Listed[i]
         /\ files[i].status = StatusMap[files[i].path] /\ files[i].old = origin[files[i].path]
    /\ \A i, j \in DOMAIN files : files[i].path = files[j].path => i = j
    /\ \A p \in Shown : \E i \in DOMAIN files : files[i].path = p

\* From numstat on, the counts of that path.
CountsMatch ==
  at \in {"check-attr", "patch", "read"} =>
    \A i \in DOMAIN files :
      /\ files[i].added = CountMap[files[i].path].added
      /\ files[i].deleted = CountMap[files[i].path].deleted
      /\ files[i].binary = CountMap[files[i].path].binary

\* From check-attr on, the mark the merge base puts on that path.
MarksMatch ==
  at \in {"patch", "read"} =>
    \A i \in DOMAIN files : files[i].generated = (files[i].path \in attrs.base.generated)

\* While the patch is read, the lines of the files git is done with, each its own.
PatchMatches ==
  /\ at \in {"raw", "numstat", "check-attr"} => reader = PatchStart
  /\ at = "patch" =>
       /\ ~reader.lost /\ reader.current = reader.printed /\ reader.printed <= Len(files)
       /\ reader.header = IF reader.printed = 0 THEN <<>>
                          ELSE HeaderMap[files[reader.printed].path]
       /\ \A i \in DOMAIN files :
            reader.lines[i] = IF i <= reader.printed THEN OwnMap[files[i].path] ELSE {}

LinesMatch == at = "read" => \A i \in DOMAIN files : files[i].lines = OwnMap[files[i].path]

GivenUp == at = "internal" => Misfits # {}

DiffInv ==
  /\ DiffTypeOK /\ origin \in Pairings
  /\ FilesMatch /\ CountsMatch /\ MarksMatch /\ PatchMatches /\ LinesMatch /\ GivenUp

\* The maps are of the trees and the pairing alone.
LEMMA MapsFrame ==
  ASSUME UNCHANGED <<trees, attrs, origin>>
  PROVE  /\ StatusMap' = StatusMap /\ HeaderMap' = HeaderMap /\ CountMap' = CountMap
         /\ OwnMap' = OwnMap /\ Misfits' = Misfits
         /\ Shown' = Shown /\ Listed' = Listed /\ Pairings' = Pairings
<1>1. /\ BaseTree' = BaseTree /\ HeadTree' = HeadTree
      /\ Added' = Added /\ Deleted' = Deleted /\ Changed' = Changed
  BY DEF BaseTree, HeadTree, Added, Deleted, Changed, Present
<1>2. \A p : Takers(p)' = Takers(p) /\ Source(p)' = Source(p) /\ Before(p)' = Before(p)
  BY <1>1 DEF Takers, Source, Before
<1>3. \A p : Renamed(p)' = Renamed(p)
  BY <1>1, <1>2 DEF Renamed
<1>4. \A p : StatusOf(p)' = StatusOf(p)
  BY <1>1, <1>3 DEF StatusOf
<1>5. \A p : Opaque(p, attrs.base)' = Opaque(p, attrs.base)
  BY <1>1, <1>2 DEF Opaque, Dark
<1>6. Shown' = Shown /\ Pairings' = Pairings
  BY <1>1, <1>2 DEF Shown, Pairings
<1>7. StatusMap' = StatusMap /\ HeaderMap' = HeaderMap
  BY <1>2, <1>4 DEF StatusMap, HeaderMap
<1>8. CountMap' = CountMap
  BY <1>1, <1>2, <1>5 DEF CountMap, Counts
<1>9. \A f : OwnLines(f)' = OwnLines(f)
  BY <1>1, <1>2, <1>5 DEF OwnLines, Dark
<1>10. OwnMap' = OwnMap
  BY <1>4, <1>9 DEF OwnMap
<1>11. Misfits' = Misfits
  BY <1>1, <1>4, <1>9 DEF Misfits, Unpaired, Dark
<1>12. QED BY <1>6, <1>7, <1>8, <1>10, <1>11 DEF Listed

LEMMA InvSides == DiffInv => Sided
  BY DEF DiffInv, DiffTypeOK, Sided

LEMMA DiffInitially == DiffInit => DiffInv
<1> SUFFICES ASSUME DiffInit PROVE DiffInv
  OBVIOUS
<1>1. trees \in [base : Trees, head : Trees]
  BY GitDiffAssumption DEF DiffInit
<1>2. origin \in Pairings
  BY DEF DiffInit, Pairings
<1>3. files \in Seq(FileChange)
  BY DEF DiffInit
<1>4. reader \in Readings
  BY DEF DiffInit, PatchStart, Readings
<1>5. DiffTypeOK
  BY <1>1, <1>3, <1>4 DEF DiffInit, DiffTypeOK
<1>6. QED BY <1>2, <1>5
      DEF DiffInit, DiffInv, FilesMatch, CountsMatch, MarksMatch, PatchMatches, LinesMatch, GivenUp

LEMMA GitFailsKeeps ==
  ASSUME DiffInv, GitFails
  PROVE  DiffInv'
<1>1. at' = "broken" /\ UNCHANGED <<trees, attrs, origin, files, reader>>
  BY DEF GitFails
<1>2. QED BY <1>1, MapsFrame DEF DiffInv, DiffTypeOK, FilesMatch, CountsMatch, MarksMatch,
      PatchMatches, LinesMatch, GivenUp

LEMMA RawDiffRunsKeeps ==
  ASSUME DiffInv, RawDiffRuns
  PROVE  DiffInv'
<1>1. /\ at = "raw" /\ at' = "numstat" /\ UNCHANGED <<trees, attrs, reader>> /\ origin' \in Pairings
      /\ files' = [i \in DOMAIN RawDiff' |-> Unread(RawDiff'[i])]
  BY DEF RawDiffRuns
<1>2. Pairings' = Pairings
  BY <1>1 DEF Pairings, Added, Deleted, Changed, Present, BaseTree, HeadTree
<1>3. Sided'
  BY <1>1, <1>2 DEF DiffInv, DiffTypeOK, Sided
<1>4. RawMatches'
  <2>1. (Sided => RawMatches)'
    BY RawDiffMatches, PTL
  <2>2. QED BY <1>3, <2>1
<1> DEFINE n == Cardinality(Shown)'
<1>5. /\ n \in Nat /\ n <= Len(PathOrder) /\ DOMAIN RawDiff' = 1..n /\ Len(Listed)' = n
      /\ \A i \in 1..n : /\ RawDiff'[i] \in RawRecords /\ RawDiff'[i].path \in Shown'
                         /\ RawDiff'[i].path = Listed'[i]
                         /\ RawDiff'[i].status = StatusMap'[RawDiff'[i].path]
                         /\ RawDiff'[i].old = origin'[RawDiff'[i].path]
      /\ \A i, j \in 1..n : RawDiff'[i].path = RawDiff'[j].path => i = j
      /\ \A p \in Shown' : \E i \in 1..n : RawDiff'[i].path = p
  BY <1>4 DEF RawMatches
<1> HIDE DEF n
<1>6. \A i \in 1..n : /\ files'[i] \in FileChange
                      /\ files'[i].path = RawDiff'[i].path /\ files'[i].status = RawDiff'[i].status
                      /\ files'[i].old = RawDiff'[i].old
  <2> SUFFICES ASSUME NEW i \in 1..n
               PROVE  /\ files'[i] \in FileChange
                      /\ files'[i].path = RawDiff'[i].path /\ files'[i].status = RawDiff'[i].status
                      /\ files'[i].old = RawDiff'[i].old
    OBVIOUS
  <2>1. files'[i] = Unread(RawDiff'[i]) /\ RawDiff'[i] \in RawRecords
    BY <1>1, <1>5
  <2>2. \A r \in RawRecords : Unread(r) \in FileChange
    BY DEF RawRecords, Unread, FileChange, Statuses
  <2>3. \A r : Unread(r).path = r.path /\ Unread(r).status = r.status /\ Unread(r).old = r.old
    BY DEF Unread
  <2>4. QED BY <2>1, <2>2, <2>3
<1>7. files' \in Seq(FileChange) /\ Len(files') = n
  <2>1. files' \in [1..n -> FileChange]
    BY <1>1, <1>5, <1>6
  <2>2. QED BY <1>5, <2>1, FunctionIsSeq
<1>8. DOMAIN files' = 1..n
  BY <1>1, <1>5
<1>9. DiffTypeOK'
  <2>1. origin' \in [Paths -> Paths \union {NoPath}]
    <3>1. Deleted \subseteq Paths /\ Changed \subseteq Paths
      BY DEF Deleted, Changed, Present
    <3>2. QED BY <1>1, <3>1 DEF Pairings
  <2>2. QED BY <1>1, <1>7, <2>1 DEF DiffInv, DiffTypeOK
<1>10. FilesMatch'
  BY <1>5, <1>6, <1>7, <1>8 DEF FilesMatch
<1>11. PatchMatches'
  BY <1>1 DEF DiffInv, PatchMatches
<1>12. QED BY <1>1, <1>2, <1>9, <1>10, <1>11 DEF DiffInv, CountsMatch, MarksMatch, LinesMatch, GivenUp

LEMMA CountsTyped ==
  ASSUME Sided, NEW p \in Paths
  PROVE  /\ CountMap[p] = Counts(p) /\ Counts(p).path = p
         /\ Counts(p).added \in Nat /\ Counts(p).deleted \in Nat /\ Counts(p).binary \in BOOLEAN
<1>1. HeadTree[p].lines \subseteq Lines /\ Before(p).lines \subseteq Lines
  BY SidesAreTyped, PathsDivide DEF SidesTyped, Entries
<1>2. \A S \in SUBSET Lines : IsFiniteSet(S) /\ Cardinality(S) \in Nat
  BY GitDiffAssumption, FS_Subset, FS_CardinalityType
<1>3. /\ Cardinality(HeadTree[p].lines \ Before(p).lines) \in Nat
      /\ Cardinality(Before(p).lines \ HeadTree[p].lines) \in Nat
  BY <1>1, <1>2
<1>4. CountMap[p] = Counts(p)
  BY DEF CountMap
<1>5. CASE Opaque(p, attrs.base)
  BY <1>4, <1>5 DEF Counts
<1>6. CASE ~Opaque(p, attrs.base)
  BY <1>3, <1>4, <1>6 DEF Counts
<1>7. QED BY <1>5, <1>6

\* The files of a diff, by number and by path.
LEMMA FilesTyped ==
  ASSUME DiffInv
  PROVE  /\ DOMAIN files = 1..Len(files) /\ Len(files) \in Nat
         /\ \A i \in DOMAIN files : files[i] \in FileChange /\ files[i].path \in Paths
         /\ DOMAIN Listed = 1..Len(Listed) /\ Len(Listed) \in Nat
         /\ at \notin {"raw", "broken"} => Len(Listed) = Len(files) /\ DOMAIN Listed = DOMAIN files
<1>1. DOMAIN files = 1..Len(files) /\ Len(files) \in Nat /\ \A i \in DOMAIN files : files[i] \in FileChange
  BY DEF DiffInv, DiffTypeOK
<1>2. \A f \in FileChange : f.path \in Paths
  BY DEF FileChange
<1>3. DOMAIN Listed = 1..Len(Listed) /\ Len(Listed) \in Nat
  BY InvSides, RawDiffMatches DEF RawMatches
<1>4. at \notin {"raw", "broken"} => Len(Listed) = Len(files)
  BY DEF DiffInv, FilesMatch
<1>5. QED BY <1>1, <1>2, <1>3, <1>4

WithCounts(f, a, d, b) == [f EXCEPT !.added = a, !.deleted = d, !.binary = b]

LEMMA CountingTyped ==
  ASSUME NEW f \in FileChange, NEW a \in Nat, NEW d \in Nat, NEW b \in BOOLEAN
  PROVE  LET g == WithCounts(f, a, d, b)
         IN /\ g \in FileChange /\ g.path = f.path /\ g.status = f.status /\ g.old = f.old
            /\ g.added = a /\ g.deleted = d /\ g.binary = b
<1> DEFINE g == WithCounts(f, a, d, b)
<1>1. g = [f EXCEPT !.added = a, !.deleted = d, !.binary = b]
  BY DEF WithCounts
<1> HIDE DEF g
<1>2. g.path = f.path /\ g.status = f.status /\ g.old = f.old /\ g.generated = f.generated
      /\ g.lines = f.lines
  BY <1>1 DEF FileChange
<1>3. g.added = a /\ g.deleted = d /\ g.binary = b
  BY <1>1 DEF FileChange
<1>4. g = [status |-> g.status, path |-> g.path, old |-> g.old, added |-> g.added,
           deleted |-> g.deleted, binary |-> g.binary, generated |-> g.generated, lines |-> g.lines]
  BY <1>1 DEF FileChange
<1>5. g \in FileChange
  BY <1>2, <1>3, <1>4 DEF FileChange
<1>6. QED BY <1>2, <1>3, <1>5 DEF g

LEMMA NumstatRunsKeeps ==
  ASSUME DiffInv, NumstatRuns
  PROVE  DiffInv'
<1>1. at = "numstat" /\ UNCHANGED <<trees, attrs, origin, reader>>
  BY DEF NumstatRuns
<1>2. /\ Len(files) = Len(Listed) /\ DOMAIN Listed = DOMAIN files
      /\ \A i \in DOMAIN files :
           /\ files[i].path \in Shown /\ files[i].path = Listed[i] /\ files[i].path \in Paths
           /\ files[i].status = StatusMap[files[i].path] /\ files[i].old = origin[files[i].path]
           /\ files[i] \in FileChange
      /\ \A i, j \in DOMAIN files : files[i].path = files[j].path => i = j
      /\ \A p \in Shown : \E i \in DOMAIN files : files[i].path = p
  BY <1>1, FilesTyped DEF DiffInv, FilesMatch
<1>3. \A r \in Numstat : \E i \in DOMAIN files : r = Counts(files[i].path) /\ r.path = files[i].path
  BY <1>2, InvSides, CountsTyped DEF Numstat
<1>4. Addressed(Numstat)
  BY <1>3 DEF Addressed
<1>5. at' = "check-attr" /\ files' = Counted(Numstat)
  BY <1>4 DEF NumstatRuns
<1>6. ASSUME NEW i \in DOMAIN files
      PROVE  files'[i] = [files[i] EXCEPT !.added = CountMap[files[i].path].added,
                                          !.deleted = CountMap[files[i].path].deleted,
                                          !.binary = CountMap[files[i].path].binary]
  <2> DEFINE p == files[i].path
             c == CountMap[p]
  <2>1. c = Counts(p) /\ c.path = p /\ c \in Numstat
    BY <1>2, InvSides, CountsTyped DEF Numstat
  <2>2. \A s \in Numstat : s.path = p => s = c
    BY <1>3, <2>1
  <2>3. (CHOOSE s \in Numstat : s.path = p) = c
    BY <2>1, <2>2
  <2>4. files'[i] = LET r == CHOOSE s \in Numstat : s.path = p
                    IN [files[i] EXCEPT !.added = r.added, !.deleted = r.deleted, !.binary = r.binary]
    BY <1>5, <2>1 DEF Counted
  <2>5. QED BY <2>3, <2>4
<1>7. ASSUME NEW i \in DOMAIN files
      PROVE  /\ files'[i] \in FileChange /\ files'[i].path = files[i].path
             /\ files'[i].status = files[i].status /\ files'[i].old = files[i].old
             /\ files'[i].added = CountMap[files[i].path].added
             /\ files'[i].deleted = CountMap[files[i].path].deleted
             /\ files'[i].binary = CountMap[files[i].path].binary
  <2>1. files[i] \in FileChange /\ files[i].path \in Paths
    BY <1>2
  <2>2. /\ CountMap[files[i].path].added \in Nat /\ CountMap[files[i].path].deleted \in Nat
        /\ CountMap[files[i].path].binary \in BOOLEAN
    BY <2>1, InvSides, CountsTyped
  <2> DEFINE c == CountMap[files[i].path]
  <2>3. files'[i] = WithCounts(files[i], c.added, c.deleted, c.binary)
    BY <1>6 DEF WithCounts
  <2>4. c.added \in Nat /\ c.deleted \in Nat /\ c.binary \in BOOLEAN
    BY <2>2
  <2> HIDE DEF c
  <2>5. /\ files'[i] \in FileChange /\ files'[i].path = files[i].path
        /\ files'[i].status = files[i].status /\ files'[i].old = files[i].old
        /\ files'[i].added = c.added /\ files'[i].deleted = c.deleted /\ files'[i].binary = c.binary
    BY <2>1, <2>3, <2>4, CountingTyped
  <2>6. QED BY <2>5 DEF c
<1>8. DOMAIN files' = DOMAIN files /\ files' \in Seq(FileChange) /\ Len(files') = Len(files)
  <2>1. files' = [i \in DOMAIN files |-> files'[i]]
    BY <1>5 DEF Counted
  <2>2. files' \in [1..Len(files) -> FileChange]
    BY <1>7, <2>1, FilesTyped
  <2>3. QED BY <2>1, <2>2, FilesTyped, FunctionIsSeq
<1>9. DiffTypeOK' /\ origin' \in Pairings'
  BY <1>1, <1>5, <1>8, MapsFrame DEF DiffInv, DiffTypeOK
<1>10. FilesMatch'
  BY <1>1, <1>2, <1>7, <1>8, MapsFrame DEF DiffInv, FilesMatch
<1>11. CountsMatch'
  BY <1>1, <1>7, <1>8, MapsFrame DEF CountsMatch
<1>12. PatchMatches'
  BY <1>1, <1>5 DEF DiffInv, PatchMatches
<1>13. QED BY <1>5, <1>9, <1>10, <1>11, <1>12
      DEF DiffInv, MarksMatch, LinesMatch, GivenUp

WithMark(f, b) == [f EXCEPT !.generated = b]

LEMMA MarkingTyped ==
  ASSUME NEW f \in FileChange, NEW b \in BOOLEAN
  PROVE  LET g == WithMark(f, b)
         IN /\ g \in FileChange /\ g.path = f.path /\ g.status = f.status /\ g.old = f.old
            /\ g.added = f.added /\ g.deleted = f.deleted /\ g.binary = f.binary
            /\ g.generated = b
<1> DEFINE g == WithMark(f, b)
<1>1. g = [f EXCEPT !.generated = b]
  BY DEF WithMark
<1> HIDE DEF g
<1>2. g.path = f.path /\ g.status = f.status /\ g.old = f.old /\ g.lines = f.lines
      /\ g.added = f.added /\ g.deleted = f.deleted /\ g.binary = f.binary /\ g.generated = b
  BY <1>1 DEF FileChange
<1>3. g = [status |-> g.status, path |-> g.path, old |-> g.old, added |-> g.added,
           deleted |-> g.deleted, binary |-> g.binary, generated |-> g.generated, lines |-> g.lines]
  BY <1>1 DEF FileChange
<1>4. g \in FileChange
  BY <1>2, <1>3 DEF FileChange
<1>5. QED BY <1>2, <1>4 DEF g

LEMMA CheckAttrRunsKeeps ==
  ASSUME DiffInv, CheckAttrRuns
  PROVE  DiffInv'
<1>1. /\ at = "check-attr" /\ at' = "patch" /\ UNCHANGED <<trees, attrs, origin, reader>>
      /\ files' = Marked(attrs.base.generated)
  BY DEF CheckAttrRuns
<1>2. ASSUME NEW i \in DOMAIN files
      PROVE  /\ files'[i] \in FileChange /\ files'[i].path = files[i].path
             /\ files'[i].status = files[i].status /\ files'[i].old = files[i].old
             /\ files'[i].added = files[i].added /\ files'[i].deleted = files[i].deleted
             /\ files'[i].binary = files[i].binary
             /\ files'[i].generated = (files[i].path \in attrs.base.generated)
  <2> DEFINE b == files[i].path \in attrs.base.generated
  <2>1. files'[i] = WithMark(files[i], b) /\ b \in BOOLEAN
    BY <1>1 DEF Marked, WithMark
  <2> HIDE DEF b
  <2>2. files[i] \in FileChange
    BY FilesTyped
  <2>3. /\ files'[i] \in FileChange /\ files'[i].path = files[i].path
        /\ files'[i].status = files[i].status /\ files'[i].old = files[i].old
        /\ files'[i].added = files[i].added /\ files'[i].deleted = files[i].deleted
        /\ files'[i].binary = files[i].binary /\ files'[i].generated = b
    BY <2>1, <2>2, MarkingTyped
  <2>4. QED BY <2>3 DEF b
<1>3. DOMAIN files' = DOMAIN files /\ files' \in Seq(FileChange) /\ Len(files') = Len(files)
  <2>1. files' = [i \in DOMAIN files |-> files'[i]]
    BY <1>1 DEF Marked
  <2>2. files' \in [1..Len(files) -> FileChange]
    BY <1>2, <2>1, FilesTyped
  <2>3. QED BY <2>1, <2>2, FilesTyped, FunctionIsSeq
<1>4. DiffTypeOK' /\ origin' \in Pairings'
  BY <1>1, <1>3, MapsFrame DEF DiffInv, DiffTypeOK
<1>5. FilesMatch'
  BY <1>1, <1>2, <1>3, MapsFrame DEF DiffInv, FilesMatch
<1>6. CountsMatch'
  BY <1>1, <1>2, <1>3, MapsFrame DEF DiffInv, CountsMatch
<1>7. PatchMatches'
  <2>1. reader' = PatchStart /\ ~PatchStart.lost /\ PatchStart.current = 0 /\ PatchStart.printed = 0
        /\ PatchStart.header = <<>> /\ \A i \in DOMAIN PathOrder : PatchStart.lines[i] = {}
    BY <1>1 DEF DiffInv, PatchMatches, PatchStart
  <2>2. DOMAIN files' \subseteq DOMAIN PathOrder /\ Len(files') \in Nat
    BY <1>1, <1>3, FilesTyped, PlacesTyped DEF DiffInv, FilesMatch
  <2>3. DOMAIN files' = 1..Len(files') /\ Len(files') \in Nat
    BY <1>3, FilesTyped
  <2>4. \A i \in DOMAIN files' : i \in Nat /\ ~(i <= 0)
    BY <2>3
  <2>5. ~reader'.lost /\ reader'.current = reader'.printed /\ reader'.printed <= Len(files')
    BY <2>1, <2>3
  <2>6. reader'.printed = 0 /\ reader'.header = <<>>
    BY <2>1
  <2>7. \A i \in DOMAIN files' : reader'.lines[i] = {}
    BY <2>1, <2>2
  <2>8. QED BY <1>1, <2>4, <2>5, <2>6, <2>7 DEF PatchMatches
<1>8. MarksMatch'
  BY <1>1, <1>2, <1>3 DEF MarksMatch
<1>9. QED BY <1>1, <1>4, <1>5, <1>6, <1>7, <1>8 DEF DiffInv, LinesMatch, GivenUp

-----------------------------------------------------------------------------
(* The patch of one file.                                                  *)

\* What a state of the reader becomes when the current file gets lines.
Gets(s, t, lines) ==
  /\ t \in Readings /\ t.printed = s.printed /\ t.current = s.current
  /\ t.header = s.header /\ t.lost = s.lost
  /\ \A i \in DOMAIN PathOrder :
       t.lines[i] = IF i = s.current THEN s.lines[i] \union lines ELSE s.lines[i]

LEMMA HunkIsRead ==
  ASSUME NEW s \in Readings, ~s.lost, s.current \in DOMAIN PathOrder,
         NEW dark \in BOOLEAN, NEW from \in SUBSET Lines, NEW to \in SUBSET Lines
  PROVE  Gets(s, ReadHunk(s, dark, from, to), IF dark THEN {} ELSE to \ from)
<1> DEFINE t == ReadHunk(s, dark, from, to)
           record == [kind |-> "hunk", name |-> <<>>, lines |-> to \ from]
<1>1. CASE dark \/ from = to
  <2>1. t = s
    BY <1>1 DEF ReadHunk
  <2>2. QED BY <1>1, <2>1 DEF Gets, Readings
<1>2. CASE ~(dark \/ from = to)
  <2>1. s.current # 0
    BY PlacesTyped
  <2>2. t = [s EXCEPT !.lines[s.current] = @ \union (to \ from)]
    BY <1>2, <2>1 DEF ReadHunk, ReadRecord
  <2> HIDE DEF t
  <2>3. t.printed = s.printed /\ t.current = s.current /\ t.header = s.header /\ t.lost = s.lost
        /\ t.lines = [s.lines EXCEPT ![s.current] = @ \union (to \ from)]
    BY <2>2 DEF Readings
  <2>4. s.lines \in [DOMAIN PathOrder -> SUBSET Lines] /\ t.lines \in [DOMAIN PathOrder -> SUBSET Lines]
    BY <2>3 DEF Readings
  <2>5. t = [printed |-> t.printed, current |-> t.current, header |-> t.header,
             lines |-> t.lines, lost |-> t.lost]
    BY <2>2 DEF Readings
  <2>6. t \in Readings
    BY <2>3, <2>4, <2>5 DEF Readings
  <2>7. QED BY <1>2, <2>3, <2>4, <2>6 DEF Gets, t
<1>3. QED BY <1>1, <1>2

LEMMA HeaderIsRead ==
  ASSUME NEW s \in Readings, ~s.lost, NEW p \in Paths, Sided
  PROVE  LET t == ReadRecord(s, Header(p))
         IN /\ s.header = <<Source(p), p>> => t = s
            /\ s.header # <<Source(p), p>> /\ s.current # Len(files) =>
                 /\ t \in Readings /\ t.printed = s.printed /\ t.current = s.current + 1
                 /\ t.header = <<Source(p), p>> /\ ~t.lost /\ t.lines = s.lines
<1> DEFINE t == ReadRecord(s, Header(p))
<1>1. s.header = <<Source(p), p>> => t = s
  BY DEF ReadRecord, Header
<1>2. ASSUME s.header # <<Source(p), p>>, s.current # Len(files)
      PROVE  /\ t \in Readings /\ t.printed = s.printed /\ t.current = s.current + 1
             /\ t.header = <<Source(p), p>> /\ ~t.lost /\ t.lines = s.lines
  <2>1. t = [s EXCEPT !.header = <<Source(p), p>>, !.current = @ + 1, !.lost = FALSE]
    BY <1>2 DEF ReadRecord, Header
  <2>2. <<Source(p), p>> \in Paths \X Paths
    BY PathsDivide
  <2> HIDE DEF t
  <2>3. t.printed = s.printed /\ t.current = s.current + 1 /\ t.header = <<Source(p), p>>
        /\ ~t.lost /\ t.lines = s.lines
    BY <2>1 DEF Readings
  <2>4. t = [printed |-> t.printed, current |-> t.current, header |-> t.header,
             lines |-> t.lines, lost |-> t.lost]
    BY <2>1 DEF Readings
  <2>5. t.lost \in BOOLEAN
    BY <2>1 DEF Readings
  <2>6. QED BY <2>2, <2>3, <2>4, <2>5 DEF Readings
<1>3. QED BY <1>1, <1>2

\* What a file adds, and when numstat counts as much.
LEMMA OwnTyped ==
  ASSUME Sided, NEW p \in Paths
  PROVE  /\ OwnMap[p] \in SUBSET Lines
         /\ StatusOf(p) # "T" => OwnMap[p] = IF Opaque(p, attrs.base) THEN {}
                                             ELSE HeadTree[p].lines \ Before(p).lines
         /\ StatusOf(p) = "T" => OwnMap[p] = IF Dark(p, HeadTree[p], attrs.base) THEN {}
                                             ELSE HeadTree[p].lines
         /\ p \notin Misfits => Cardinality(OwnMap[p]) = CountMap[p].added
<1>1. HeadTree[p].lines \in SUBSET Lines
  BY SidesAreTyped DEF SidesTyped, Entries
<1>2. StatusOf(p) # "T" => OwnMap[p] = IF Opaque(p, attrs.base) THEN {}
                                       ELSE HeadTree[p].lines \ Before(p).lines
  BY DEF OwnMap, OwnLines
<1>3. StatusOf(p) = "T" => OwnMap[p] = IF Dark(p, HeadTree[p], attrs.base) THEN {}
                                       ELSE HeadTree[p].lines
  BY DEF OwnMap, OwnLines
<1>4. OwnMap[p] \in SUBSET Lines
  BY <1>1, <1>2, <1>3
<1>5. CountMap[p].added = IF Opaque(p, attrs.base) THEN 0
                          ELSE Cardinality(HeadTree[p].lines \ Before(p).lines)
  BY DEF CountMap, Counts
<1>6. Cardinality({}) = 0
  BY FS_EmptySet
<1>7. ASSUME StatusOf(p) = "T", p \notin Misfits
      PROVE  Cardinality(OwnMap[p]) = CountMap[p].added
  <2>1. p \in Changed /\ Source(p) = p /\ Before(p) = BaseTree[p]
    BY <1>7, StatusesTyped DEF Before
  <2>2. OwnMap[p] = OwnLines([status |-> "T", path |-> p])
    BY <1>7 DEF OwnMap
  <2>3. \/ OwnMap[p] = {}
        \/ ~Dark(p, BaseTree[p], attrs.base) /\ BaseTree[p].lines \intersect HeadTree[p].lines = {}
    BY <1>7, <2>1, <2>2 DEF Misfits, Unpaired
  <2>4. Opaque(p, attrs.base) <=> Dark(p, BaseTree[p], attrs.base) \/ Dark(p, HeadTree[p], attrs.base)
    BY <2>1 DEF Opaque
  <2>5. CASE Dark(p, HeadTree[p], attrs.base)
    BY <1>3, <1>5, <1>6, <1>7, <2>4, <2>5
  <2>6. CASE ~Dark(p, HeadTree[p], attrs.base) /\ OwnMap[p] = {}
    <3>1. HeadTree[p].lines = {}
      BY <1>3, <1>7, <2>6
    <3>2. HeadTree[p].lines \ Before(p).lines = {}
      BY <3>1
    <3>3. QED BY <1>5, <1>6, <2>6, <3>2
  <2>7. CASE ~Dark(p, HeadTree[p], attrs.base) /\ OwnMap[p] # {}
    <3>1. HeadTree[p].lines \ Before(p).lines = HeadTree[p].lines
      BY <2>1, <2>3, <2>7
    <3>2. QED BY <1>3, <1>5, <1>7, <2>3, <2>4, <2>7, <3>1
  <2>8. QED BY <2>5, <2>6, <2>7
<1>8. StatusOf(p) # "T" => Cardinality(OwnMap[p]) = CountMap[p].added
  BY <1>2, <1>5, <1>6
<1>9. QED BY <1>2, <1>3, <1>4, <1>7, <1>8

LEMMA FileIsRead ==
  ASSUME Sided, NEW s \in Readings, ~s.lost, NEW p \in Shown, s.current # Len(files),
         s.current + 1 \in DOMAIN PathOrder, s.header # <<Source(p), p>>,
         s.lines[s.current + 1] = {}
  PROVE  LET t == ReadFile(s, p)
         IN /\ t \in Readings /\ t.printed = s.printed /\ t.current = s.current + 1
            /\ t.header = <<Source(p), p>> /\ ~t.lost
            /\ \A i \in DOMAIN PathOrder :
                 t.lines[i] = IF i = s.current + 1 THEN OwnMap[p] ELSE s.lines[i]
<1> DEFINE n == s.current + 1
           opened == ReadRecord(s, Header(p))
           gone == ReadHunk(opened, Dark(p, BaseTree[p], attrs.base), BaseTree[p].lines, {})
           back == ReadRecord(gone, Header(p))
           t == ReadFile(s, p)
<1>1. p \in Paths
  BY SidesAreTyped DEF SidesTyped
<1>2. /\ opened \in Readings /\ opened.printed = s.printed /\ opened.current = n
      /\ opened.header = <<Source(p), p>> /\ ~opened.lost /\ opened.lines = s.lines
  BY <1>1, HeaderIsRead
<1>3. /\ BaseTree[p].lines \in SUBSET Lines /\ HeadTree[p].lines \in SUBSET Lines
      /\ Before(p).lines \in SUBSET Lines /\ {} \in SUBSET Lines
  BY <1>1, SidesAreTyped, PathsDivide DEF SidesTyped, Entries
<1>4. /\ Dark(p, BaseTree[p], attrs.base) \in BOOLEAN /\ Dark(p, HeadTree[p], attrs.base) \in BOOLEAN
      /\ Opaque(p, attrs.base) \in BOOLEAN
  BY DEF Opaque, Dark
<1>5. n \in DOMAIN PathOrder
  OBVIOUS
<1> HIDE DEF opened, n
<1>6. CASE StatusOf(p) # "T"
  <2>1. t = ReadHunk(opened, Opaque(p, attrs.base), Before(p).lines, HeadTree[p].lines)
    BY <1>6 DEF ReadFile, opened
  <2> HIDE DEF t
  <2>2. Gets(opened, t, IF Opaque(p, attrs.base) THEN {} ELSE HeadTree[p].lines \ Before(p).lines)
    BY <1>2, <1>3, <1>4, <1>5, <2>1, HunkIsRead
  <2>3. Gets(opened, t, OwnMap[p])
    BY <1>1, <1>6, <2>2, OwnTyped
  <2>4. s.lines[n] = {}
    BY DEF n
  <2>5. QED BY <1>2, <2>3, <2>4 DEF Gets, t, n
<1>7. CASE StatusOf(p) = "T"
  <2>1. t = ReadHunk(back, Dark(p, HeadTree[p], attrs.base), {}, HeadTree[p].lines)
    BY <1>7 DEF ReadFile, opened
  <2>2. Gets(opened, gone, IF Dark(p, BaseTree[p], attrs.base) THEN {} ELSE {} \ BaseTree[p].lines)
    BY <1>2, <1>3, <1>4, <1>5, HunkIsRead
  <2> HIDE DEF t, gone, back
  <2>3. /\ gone \in Readings /\ gone.printed = s.printed /\ gone.current = n
        /\ gone.header = <<Source(p), p>> /\ ~gone.lost
        /\ \A i \in DOMAIN PathOrder : gone.lines[i] = s.lines[i]
    BY <1>2, <2>2 DEF Gets
  <2>4. back = gone
    BY <1>1, <2>3, HeaderIsRead DEF back
  <2>5. Gets(gone, t, IF Dark(p, HeadTree[p], attrs.base) THEN {} ELSE HeadTree[p].lines \ {})
    BY <1>3, <1>4, <1>5, <2>1, <2>3, <2>4, HunkIsRead
  <2>6. OwnMap[p] = IF Dark(p, HeadTree[p], attrs.base) THEN {} ELSE HeadTree[p].lines \ {}
    BY <1>1, <1>7, OwnTyped
  <2>7. Gets(gone, t, OwnMap[p])
    BY <2>5, <2>6
  <2>8. s.lines[n] = {}
    BY DEF n
  <2>9. QED BY <2>3, <2>7, <2>8 DEF Gets, t, n
<1>8. QED BY <1>6, <1>7

LEMMA PatchPrintsKeeps ==
  ASSUME DiffInv, PatchPrints
  PROVE  DiffInv'
<1> DEFINE n == reader.printed + 1
           p == Listed[n]
           t == ReadFile(reader, p)
<1>1. /\ at = "patch" /\ at' = "patch" /\ UNCHANGED <<trees, attrs, origin, files>>
      /\ reader.printed < Len(Listed) /\ reader' = [t EXCEPT !.printed = @ + 1]
  BY DEF PatchPrints
<1>2. Sided /\ reader \in Readings
  BY InvSides DEF DiffInv, DiffTypeOK
<1>3. /\ ~reader.lost /\ reader.current = reader.printed /\ reader.printed \in Nat
      /\ reader.header = IF reader.printed = 0 THEN <<>> ELSE HeaderMap[files[reader.printed].path]
      /\ \A i \in DOMAIN files :
           reader.lines[i] = IF i <= reader.printed THEN OwnMap[files[i].path] ELSE {}
  BY <1>1, <1>2 DEF DiffInv, PatchMatches, Readings
<1>4. /\ Len(files) = Len(Listed) /\ Len(files) \in Nat /\ DOMAIN files = 1..Len(files)
      /\ \A i \in DOMAIN files : i \in DOMAIN PathOrder
  BY <1>1, FilesTyped, PlacesTyped DEF DiffInv, FilesMatch
<1>5. /\ n \in DOMAIN files /\ n \in Nat /\ ~(n <= reader.printed) /\ reader.current # Len(files)
      /\ reader.current + 1 = n
  BY <1>1, <1>3, <1>4
<1>6. \A i \in DOMAIN files : files[i].path \in Shown /\ files[i].path = Listed[i]
                              /\ files[i].path \in Paths
  BY <1>1, FilesTyped DEF DiffInv, FilesMatch
<1>7. p = files[n].path /\ p \in Shown /\ p \in Paths
  BY <1>5, <1>6
<1>8. reader.lines[n] = {}
  BY <1>3, <1>5
<1>9. reader.header # <<Source(p), p>>
  <2>1. CASE reader.printed = 0
    BY <1>3, <2>1
  <2>2. CASE reader.printed # 0
    <3> DEFINE q == files[reader.printed].path
    <3>1. reader.printed \in DOMAIN files /\ reader.printed # n
      BY <1>1, <1>3, <1>4, <2>2
    <3>2. q \in Paths /\ q # p
      BY <1>1, <1>5, <1>6, <1>7, <3>1 DEF DiffInv, FilesMatch
    <3>3. HeaderMap[q] = <<Source(q), q>>
      BY <3>2 DEF HeaderMap
    <3>4. QED BY <1>3, <2>2, <3>2, <3>3
  <2>3. QED BY <2>1, <2>2
<1> HIDE DEF n, p
<1>10. /\ t \in Readings /\ t.printed = reader.printed /\ t.current = n
       /\ t.header = <<Source(p), p>> /\ ~t.lost
       /\ \A i \in DOMAIN PathOrder :
            t.lines[i] = IF i = n THEN OwnMap[p] ELSE reader.lines[i]
  <2>1. n \in DOMAIN PathOrder
    BY <1>4, <1>5
  <2>2. reader.current + 1 \in DOMAIN PathOrder /\ reader.lines[reader.current + 1] = {}
    BY <1>5, <1>8, <2>1
  <2>3. /\ t \in Readings /\ t.printed = reader.printed /\ t.current = reader.current + 1
        /\ t.header = <<Source(p), p>> /\ ~t.lost
        /\ \A i \in DOMAIN PathOrder :
             t.lines[i] = IF i = reader.current + 1 THEN OwnMap[p] ELSE reader.lines[i]
    BY <1>2, <1>3, <1>5, <1>7, <1>9, <2>2, FileIsRead
  <2> HIDE DEF t
  <2>4. QED BY <1>5, <2>3
<1> HIDE DEF t
<1>11. /\ reader'.printed = n /\ reader'.current = n /\ reader'.header = HeaderMap[p]
       /\ ~reader'.lost /\ reader'.lines = t.lines /\ reader' \in Readings
  <2>1. /\ reader'.printed = t.printed + 1 /\ reader'.current = t.current /\ reader'.header = t.header
        /\ reader'.lost = t.lost /\ reader'.lines = t.lines
    BY <1>1, <1>10 DEF Readings
  <2>2. reader' = [printed |-> reader'.printed, current |-> reader'.current, header |-> reader'.header,
                   lines |-> reader'.lines, lost |-> reader'.lost]
    BY <1>1, <1>10 DEF Readings
  <2>3. t.printed + 1 = n /\ n \in Nat
    BY <1>5, <1>10 DEF n
  <2>4. reader' \in Readings
    BY <1>10, <2>1, <2>2, <2>3 DEF Readings
  <2>5. HeaderMap[p] = <<Source(p), p>>
    BY <1>7 DEF HeaderMap
  <2>6. QED BY <1>10, <2>1, <2>3, <2>4, <2>5
<1>12. \A i \in DOMAIN files :
         reader'.lines[i] = IF i <= n THEN OwnMap[files[i].path] ELSE {}
  <2> SUFFICES ASSUME NEW i \in DOMAIN files
               PROVE  reader'.lines[i] = IF i <= n THEN OwnMap[files[i].path] ELSE {}
    OBVIOUS
  <2>1. reader'.lines[i] = IF i = n THEN OwnMap[p] ELSE reader.lines[i]
    BY <1>4, <1>10, <1>11
  <2>2. reader.lines[i] = IF i <= reader.printed THEN OwnMap[files[i].path] ELSE {}
    BY <1>3
  <2>3. i \in Nat /\ n = reader.printed + 1 /\ reader.printed \in Nat
    BY <1>3, <1>4 DEF n
  <2>4. CASE i = n
    BY <1>7, <2>1, <2>3, <2>4
  <2>5. CASE i # n
    <3>1. i <= n <=> i <= reader.printed
      BY <2>3, <2>5
    <3>2. QED BY <2>1, <2>2, <2>5, <3>1
  <2>6. QED BY <2>4, <2>5
<1>13. DiffTypeOK' /\ origin' \in Pairings'
  BY <1>1, <1>11, MapsFrame DEF DiffInv, DiffTypeOK
<1>14. FilesMatch' /\ CountsMatch'
  BY <1>1, MapsFrame DEF DiffInv, FilesMatch, CountsMatch
<1>15. PatchMatches'
  <2>1. n # 0 /\ n <= Len(files)
    BY <1>4, <1>5
  <2>2. /\ UNCHANGED files /\ HeaderMap' = HeaderMap /\ OwnMap' = OwnMap
    BY <1>1, MapsFrame
  <2>3. /\ reader'.current = reader'.printed /\ reader'.printed <= Len(files')
        /\ reader'.header = IF reader'.printed = 0 THEN <<>>
                            ELSE HeaderMap'[files'[reader'.printed].path]
    BY <1>7, <1>11, <2>1, <2>2
  <2>4. \A i \in DOMAIN files' :
          reader'.lines[i] = IF i <= reader'.printed THEN OwnMap'[files'[i].path] ELSE {}
    BY <1>11, <1>12, <2>2
  <2>5. QED BY <1>1, <1>11, <2>3, <2>4 DEF PatchMatches
<1>16. MarksMatch'
  BY <1>1, MapsFrame DEF DiffInv, MarksMatch
<1>17. QED BY <1>1, <1>13, <1>14, <1>15, <1>16 DEF DiffInv, LinesMatch, GivenUp

WithLines(f, lines) == [f EXCEPT !.lines = lines]

LEMMA LiningTyped ==
  ASSUME NEW f \in FileChange, NEW lines \in SUBSET Lines
  PROVE  LET g == WithLines(f, lines)
         IN /\ g \in FileChange /\ g.path = f.path /\ g.status = f.status /\ g.old = f.old
            /\ g.added = f.added /\ g.deleted = f.deleted /\ g.binary = f.binary
            /\ g.generated = f.generated /\ g.lines = lines
<1> DEFINE g == WithLines(f, lines)
<1>1. g = [f EXCEPT !.lines = lines]
  BY DEF WithLines
<1> HIDE DEF g
<1>2. g.path = f.path /\ g.status = f.status /\ g.old = f.old /\ g.lines = lines
      /\ g.added = f.added /\ g.deleted = f.deleted /\ g.binary = f.binary
      /\ g.generated = f.generated
  BY <1>1 DEF FileChange
<1>3. g = [status |-> g.status, path |-> g.path, old |-> g.old, added |-> g.added,
           deleted |-> g.deleted, binary |-> g.binary, generated |-> g.generated, lines |-> g.lines]
  BY <1>1 DEF FileChange
<1>4. g \in FileChange
  BY <1>2, <1>3 DEF FileChange
<1>5. QED BY <1>2, <1>4 DEF g

LEMMA PatchEndsKeeps ==
  ASSUME DiffInv, PatchEnds
  PROVE  DiffInv'
<1>1. /\ at = "patch" /\ UNCHANGED <<trees, attrs, origin, reader>>
      /\ reader.lost \/ reader.printed = Len(Listed)
  BY DEF PatchEnds
<1>2. Sided /\ reader \in Readings
  BY InvSides DEF DiffInv, DiffTypeOK
<1>3. /\ Len(files) = Len(Listed) /\ Len(files) \in Nat /\ DOMAIN files = 1..Len(files)
      /\ \A i \in DOMAIN files : files[i] \in FileChange /\ files[i].path \in Paths
  BY <1>1, FilesTyped
<1>4. /\ ~reader.lost /\ reader.current = reader.printed /\ reader.printed = Len(files)
      /\ \A i \in DOMAIN files :
           reader.lines[i] = IF i <= reader.printed THEN OwnMap[files[i].path] ELSE {}
  BY <1>1, <1>3 DEF DiffInv, PatchMatches
<1>5. \A i \in DOMAIN files : reader.lines[i] = OwnMap[files[i].path]
  BY <1>3, <1>4
<1>6. CASE PairsUp
  <2>1. at' = "read" /\ files' = [i \in DOMAIN files |-> [files[i] EXCEPT !.lines = reader.lines[i]]]
    BY <1>6 DEF PatchEnds
  <2>2. ASSUME NEW i \in DOMAIN files
        PROVE  /\ files'[i] \in FileChange /\ files'[i].path = files[i].path
               /\ files'[i].status = files[i].status /\ files'[i].old = files[i].old
               /\ files'[i].added = files[i].added /\ files'[i].deleted = files[i].deleted
               /\ files'[i].binary = files[i].binary
               /\ files'[i].generated = files[i].generated
               /\ files'[i].lines = OwnMap[files[i].path]
    <3> DEFINE ls == reader.lines[i]
    <3>1. files'[i] = WithLines(files[i], ls)
      BY <2>1 DEF WithLines
    <3>2. ls = OwnMap[files[i].path] /\ ls \in SUBSET Lines
      BY <1>2, <1>3, <1>5, OwnTyped
    <3> HIDE DEF ls
    <3>3. QED BY <1>3, <3>1, <3>2, LiningTyped
  <2>3. DOMAIN files' = DOMAIN files /\ files' \in Seq(FileChange) /\ Len(files') = Len(files)
    <3>1. files' = [i \in DOMAIN files |-> files'[i]]
      BY <2>1
    <3>2. files' \in [1..Len(files) -> FileChange]
      BY <1>3, <2>2, <3>1
    <3>3. QED BY <1>3, <3>1, <3>2, FunctionIsSeq
  <2>4. DiffTypeOK' /\ origin' \in Pairings'
    BY <1>1, <2>1, <2>3, MapsFrame DEF DiffInv, DiffTypeOK
  <2>5. FilesMatch'
    BY <1>1, <2>1, <2>2, <2>3, MapsFrame DEF DiffInv, FilesMatch
  <2>6. CountsMatch'
    BY <1>1, <2>2, <2>3, MapsFrame DEF DiffInv, CountsMatch
  <2>7. LinesMatch'
    BY <1>1, <2>2, <2>3, MapsFrame DEF LinesMatch
  <2>8. MarksMatch'
    BY <1>1, <2>2, <2>3 DEF DiffInv, MarksMatch
  <2>9. QED BY <2>1, <2>4, <2>5, <2>6, <2>7, <2>8 DEF DiffInv, PatchMatches, GivenUp
<1>7. CASE ~PairsUp
  <2>1. at' = "internal" /\ UNCHANGED files
    BY <1>7 DEF PatchEnds
  <2>2. PICK i \in DOMAIN files : Cardinality(reader.lines[i]) # files[i].added
    BY <1>4, <1>7 DEF PairsUp
  <2>3. Cardinality(OwnMap[files[i].path]) # CountMap[files[i].path].added
    BY <1>1, <1>5, <2>2 DEF DiffInv, CountsMatch
  <2>4. files[i].path \in Misfits
    BY <1>2, <1>3, <2>3, OwnTyped
  <2>5. GivenUp'
    BY <1>1, <2>4, MapsFrame DEF GivenUp
  <2>6. DiffTypeOK' /\ origin' \in Pairings'
    BY <1>1, <2>1, MapsFrame DEF DiffInv, DiffTypeOK
  <2>7. FilesMatch'
    BY <1>1, <2>1, MapsFrame DEF DiffInv, FilesMatch
  <2>8. QED BY <2>1, <2>5, <2>6, <2>7 DEF DiffInv, CountsMatch, MarksMatch, PatchMatches, LinesMatch
<1>8. QED BY <1>6, <1>7

LEMMA ReadKeeps ==
  ASSUME DiffInv, Read
  PROVE  DiffInv'
BY GitFailsKeeps, RawDiffRunsKeeps, NumstatRunsKeeps, CheckAttrRunsKeeps, PatchPrintsKeeps,
   PatchEndsKeeps DEF Read

LEMMA StandStillKeeps ==
  ASSUME DiffInv, UNCHANGED diffVars
  PROVE  DiffInv'
BY MapsFrame DEF diffVars, DiffInv, DiffTypeOK, FilesMatch, CountsMatch, MarksMatch, PatchMatches,
   LinesMatch, GivenUp

\* The state of a gate that may fail once it is asked.
LEMMA ProbeFailsKeeps ==
  ASSUME DiffInv, at' = "broken", UNCHANGED <<trees, attrs, origin, files, reader>>
  PROVE  DiffInv'
BY MapsFrame DEF DiffInv, DiffTypeOK, FilesMatch, CountsMatch, MarksMatch, PatchMatches,
   LinesMatch, GivenUp

LEMMA NextKeeps ==
  ASSUME DiffInv, [Next]_gateVars
  PROVE  DiffInv'
<1>1. CASE Reads
  BY <1>1, ReadKeeps DEF Reads
<1>2. CASE Scans \/ ImmutabilityByLine \/ ImmutabilityByOutcome
  <2>1. UNCHANGED diffVars
    BY <1>2 DEF Scans, ImmutabilityByLine, ImmutabilityByOutcome, Answers
  <2>2. QED BY <2>1, StandStillKeeps
<1>3. CASE ImmutabilityFails
  BY <1>3, ProbeFailsKeeps DEF ImmutabilityFails
<1>4. CASE Over \/ UNCHANGED gateVars
  <2>1. UNCHANGED diffVars
    BY <1>4 DEF Over, gateVars
  <2>2. QED BY <2>1, StandStillKeeps
<1>5. QED BY <1>1, <1>2, <1>3, <1>4 DEF Next

LEMMA DiffAlways == Spec => []DiffInv
<1>1. Init => DiffInv
  BY DiffInitially DEF Init
<1>2. DiffInv /\ [Next]_gateVars => DiffInv'
  BY NextKeeps
<1>3. QED BY <1>1, <1>2, PTL DEF Spec

\* The four outputs of git line up (gitx.ReadDiff): a file of a diff that was read
\* carries its own added lines, whatever git pairs and prints before it, and the
\* reader gives up on no pair of trees but over a type change whose counts and patch
\* disagree.
THEOREM ReadLinesAreOwn == Spec => []LinesAreOwn
<1>1. DiffInv => LinesAreOwn
  <2> SUFFICES ASSUME DiffInv PROVE LinesAreOwn
    OBVIOUS
  <2>1. at = "internal" => \E p \in Paths : Unpaired(p)
    BY DEF DiffInv, GivenUp, Misfits
  <2>2. ASSUME at = "read", NEW i \in DOMAIN files
        PROVE  files[i].lines = OwnLines(files[i])
    <3> DEFINE p == files[i].path
    <3>1. files[i].lines = OwnMap[p] /\ files[i].status = StatusMap[p] /\ p \in Paths
      BY <2>2, FilesTyped DEF DiffInv, LinesMatch, FilesMatch
    <3>2. files[i].status = StatusOf(p)
      BY <3>1, InvSides, StatusesTyped
    <3>3. OwnMap[p] = OwnLines([status |-> StatusOf(p), path |-> p])
      BY <3>1 DEF OwnMap
    <3>4. OwnLines([status |-> StatusOf(p), path |-> p]) = OwnLines(files[i])
      BY <3>2 DEF OwnLines
    <3>5. QED BY <3>1, <3>3, <3>4
  <2>3. QED BY <2>1, <2>2 DEF LinesAreOwn
<1>2. QED BY <1>1, DiffAlways, PTL

-----------------------------------------------------------------------------
(* Answers.                                                                *)

Remediations == {"revert-paths", "reduce-scope", "add-test", "fix-code"}

\* An answer as the gates give it, before it is signed.
Shaped(r) ==
  /\ r = [gate |-> r.gate, status |-> r.status, remediation |-> r.remediation,
          evidence |-> r.evidence, warnings |-> r.warnings]
  /\ r.status \in {"pass", "warn", "fail", "skip"}
  /\ r.remediation \in Remediations \union {"none"}
  /\ r.status = "fail" <=> r.remediation # "none"

LEMMA AnswersShaped ==
  /\ Shaped(Pass) /\ Pass.status = "pass"
  /\ Shaped(Skip) /\ Skip.status = "skip"
  /\ \A remediation \in Remediations : \A evidence :
       Shaped(Fail(remediation, evidence)) /\ Fail(remediation, evidence).status = "fail"
<1>1. Pass = [gate |-> "none", status |-> "pass", remediation |-> "none", evidence |-> {}, warnings |-> {}]
  BY DEF Pass, NoAnswer
<1>2. Skip = [gate |-> "none", status |-> "skip", remediation |-> "none", evidence |-> {}, warnings |-> {}]
  BY DEF Skip, NoAnswer
<1>3. ASSUME NEW remediation, NEW evidence
      PROVE  Fail(remediation, evidence) =
               [gate |-> "none", status |-> "fail", remediation |-> remediation,
                evidence |-> evidence, warnings |-> {}]
  <2> DEFINE r == Fail(remediation, evidence)
  <2>1. r = [NoAnswer EXCEPT !.status = "fail", !.remediation = remediation, !.evidence = evidence]
    BY DEF Fail
  <2>2. NoAnswer \in [gate : {"none"}, status : {"none"}, remediation : {"none"},
                      evidence : {{}}, warnings : {{}}]
    BY DEF NoAnswer
  <2> HIDE DEF r
  <2>3. r.gate = "none" /\ r.status = "fail" /\ r.remediation = remediation
        /\ r.evidence = evidence /\ r.warnings = {}
    BY <2>1, <2>2
  <2>4. r = [gate |-> r.gate, status |-> r.status, remediation |-> r.remediation,
             evidence |-> r.evidence, warnings |-> r.warnings]
    BY <2>1, <2>2
  <2>5. QED BY <2>3, <2>4 DEF r
<1>4. QED BY <1>1, <1>2, <1>3 DEF Shaped, Remediations

LEMMA WarningsShaped ==
  ASSUME NEW r, Shaped(r), NEW w, NEW e
  PROVE  /\ Shaped([r EXCEPT !.warnings = w]) /\ [r EXCEPT !.warnings = w].status = r.status
         /\ r.status = "pass" =>
              /\ Shaped([r EXCEPT !.status = "warn", !.warnings = w])
              /\ Shaped([r EXCEPT !.status = "warn", !.evidence = e])
         /\ [r EXCEPT !.status = "warn", !.warnings = w].status = "warn"
         /\ [r EXCEPT !.status = "warn", !.evidence = e].status = "warn"
<1>1. [r EXCEPT !.warnings = w] =
        [gate |-> r.gate, status |-> r.status, remediation |-> r.remediation,
         evidence |-> r.evidence, warnings |-> w]
  BY DEF Shaped
<1>2. [r EXCEPT !.status = "warn", !.warnings = w] =
        [gate |-> r.gate, status |-> "warn", remediation |-> r.remediation,
         evidence |-> r.evidence, warnings |-> w]
  <2> DEFINE t == [r EXCEPT !.status = "warn", !.warnings = w]
  <2>1. t = [r EXCEPT !.status = "warn", !.warnings = w]
    OBVIOUS
  <2>2. r \in [gate : {r.gate}, status : {r.status}, remediation : {r.remediation},
               evidence : {r.evidence}, warnings : {r.warnings}]
    BY DEF Shaped
  <2> HIDE DEF t
  <2>3. t.gate = r.gate /\ t.status = "warn" /\ t.remediation = r.remediation
        /\ t.evidence = r.evidence /\ t.warnings = w
    BY <2>1, <2>2
  <2>4. t = [gate |-> t.gate, status |-> t.status, remediation |-> t.remediation,
             evidence |-> t.evidence, warnings |-> t.warnings]
    BY <2>1, <2>2
  <2>5. QED BY <2>3, <2>4 DEF t
<1>3. [r EXCEPT !.status = "warn", !.evidence = e] =
        [gate |-> r.gate, status |-> "warn", remediation |-> r.remediation,
         evidence |-> e, warnings |-> r.warnings]
  <2> DEFINE t == [r EXCEPT !.status = "warn", !.evidence = e]
  <2>1. t = [r EXCEPT !.status = "warn", !.evidence = e]
    OBVIOUS
  <2>2. r \in [gate : {r.gate}, status : {r.status}, remediation : {r.remediation},
               evidence : {r.evidence}, warnings : {r.warnings}]
    BY DEF Shaped
  <2> HIDE DEF t
  <2>3. t.gate = r.gate /\ t.status = "warn" /\ t.remediation = r.remediation
        /\ t.evidence = e /\ t.warnings = r.warnings
    BY <2>1, <2>2
  <2>4. t = [gate |-> t.gate, status |-> t.status, remediation |-> t.remediation,
             evidence |-> t.evidence, warnings |-> t.warnings]
    BY <2>1, <2>2
  <2>5. QED BY <2>3, <2>4 DEF t
<1>4. r.status = "pass" => r.remediation = "none"
  BY DEF Shaped
<1>5. Shaped([r EXCEPT !.warnings = w]) /\ [r EXCEPT !.warnings = w].status = r.status
  BY <1>1 DEF Shaped
<1>6. r.status = "pass" => Shaped([r EXCEPT !.status = "warn", !.warnings = w])
  BY <1>2, <1>4 DEF Shaped
<1>7. r.status = "pass" => Shaped([r EXCEPT !.status = "warn", !.evidence = e])
  BY <1>3, <1>4 DEF Shaped
<1>8. /\ [r EXCEPT !.status = "warn", !.warnings = w].status = "warn"
      /\ [r EXCEPT !.status = "warn", !.evidence = e].status = "warn"
  BY <1>2, <1>3
<1>9. QED BY <1>5, <1>6, <1>7, <1>8

LEMMA SignedStays ==
  ASSUME NEW r, Shaped(r), NEW gate
  PROVE  LET s == [r EXCEPT !.gate = gate]
         IN Shaped(s) /\ s.gate = gate /\ s.status = r.status /\ s.remediation = r.remediation
BY DEF Shaped, Remediations

LEMMA VerdictShaped ==
  ASSUME NEW byLine, NEW byCase
  PROVE  Shaped(Verdict(byLine, byCase)) /\ Verdict(byLine, byCase).status \in {"pass", "warn", "fail"}
<1> DEFINE hard == {i \in DOMAIN byLine : \E o \in byLine[i] : o.mode # "warn"}
           evidence == UNION {byLine[i] : i \in DOMAIN byLine} \union byCase
           how == IF hard # {} /\ \A o \in byLine[First(hard)] : o.mode # "cases"
                  THEN "revert-paths" ELSE "fix-code"
<1>1. how \in Remediations
  BY DEF Remediations
<1>2. Verdict(byLine, byCase) =
        IF hard # {} \/ byCase # {} THEN Fail(how, evidence)
        ELSE IF evidence # {} THEN [Pass EXCEPT !.status = "warn", !.evidence = evidence]
        ELSE Pass
  BY DEF Verdict
<1> HIDE DEF hard, evidence, how
<1>3. /\ Shaped(Fail(how, evidence)) /\ Fail(how, evidence).status = "fail"
      /\ Shaped(Pass) /\ Pass.status = "pass"
  BY <1>1, AnswersShaped
<1>4. /\ Shaped([Pass EXCEPT !.status = "warn", !.evidence = evidence])
      /\ [Pass EXCEPT !.status = "warn", !.evidence = evidence].status = "warn"
  BY <1>3, WarningsShaped
<1>5. QED BY <1>2, <1>3, <1>4

\* An answer a gate may give.
Allowed(gate, r) == Shaped(r) /\ r.status \in StatusesOf(gate)

LEMMA ScansAllowed ==
  /\ Allowed("protected-paths", ProtectedPaths) /\ Allowed("diff-budget", DiffBudget)
  /\ Allowed("new-test-present", NewTestPresent) /\ Allowed("no-disabled-tests", NoDisabledTests)
  /\ Allowed("suppression-scan", SuppressionScan)
<1>1. {"revert-paths", "reduce-scope", "add-test"} \subseteq Remediations
  BY DEF Remediations
<1>2. Allowed("protected-paths", ProtectedPaths)
  <2> DEFINE broken == {f \in DiffFiles : Offence(f) # <<>>}
             guarded == {Matched(config.guarded, f) : f \in DiffFiles \ broken} \ {NoPath}
             no == Fail("revert-paths", {Offence(f) : f \in broken})
  <2>1. ProtectedPaths = IF broken = {} THEN [Pass EXCEPT !.warnings = guarded]
                         ELSE [no EXCEPT !.warnings = guarded]
    BY DEF ProtectedPaths
  <2>2. Shaped(no) /\ no.status = "fail" /\ Shaped(Pass) /\ Pass.status = "pass"
    BY <1>1, AnswersShaped
  <2> HIDE DEF broken, guarded, no
  <2>3. /\ Shaped([Pass EXCEPT !.warnings = guarded]) /\ Shaped([no EXCEPT !.warnings = guarded])
        /\ [Pass EXCEPT !.warnings = guarded].status = "pass"
        /\ [no EXCEPT !.warnings = guarded].status = "fail"
    BY <2>2, WarningsShaped
  <2>4. QED BY <2>1, <2>3 DEF Allowed, StatusesOf
<1>3. Allowed("diff-budget", DiffBudget)
  BY <1>1, AnswersShaped DEF DiffBudget, Allowed, StatusesOf
<1>4. Allowed("new-test-present", NewTestPresent)
  BY <1>1, AnswersShaped DEF NewTestPresent, Allowed, StatusesOf
<1>5. Allowed("no-disabled-tests", NoDisabledTests)
  BY <1>1, AnswersShaped DEF NoDisabledTests, Allowed, StatusesOf
<1>6. Allowed("suppression-scan", SuppressionScan)
  <2> DEFINE hits == ScanAdded(Paths, config.suppressed)
             warned == [Pass EXCEPT !.status = "warn", !.warnings = hits]
  <2>1. SuppressionScan \in {Skip, Pass, warned}
    BY DEF SuppressionScan
  <2> HIDE DEF hits
  <2>2. Shaped(warned) /\ warned.status = "warn"
    BY AnswersShaped, WarningsShaped
  <2> HIDE DEF warned
  <2>3. QED BY <2>1, <2>2, AnswersShaped DEF Allowed, StatusesOf
<1>7. QED BY <1>2, <1>3, <1>4, <1>5, <1>6

\* The invariant: the reader's, and one answer of one gate, given of a diff that was read.
GateInv ==
  /\ DiffInv
  /\ config \in Configs /\ inventory \in RunSets \union {<<>>} /\ head \in RunSets \union {<<>>}
  /\ answer = NoAnswer \/ (at = "read" /\ answer.gate \in Gates /\ Allowed(answer.gate, answer))

\* What a scan says, gate by gate.
Scanned ==
  \/ answer' = [ProtectedPaths EXCEPT !.gate = "protected-paths"]
  \/ answer' = [DiffBudget EXCEPT !.gate = "diff-budget"]
  \/ answer' = [NewTestPresent EXCEPT !.gate = "new-test-present"]
  \/ answer' = [NoDisabledTests EXCEPT !.gate = "no-disabled-tests"]
  \/ answer' = [SuppressionScan EXCEPT !.gate = "suppression-scan"]

\* A step has no answer to show, or shows the last one of the same diff, or gives one.
LEMMA StepsAnswer ==
  ASSUME GateInv, [Next]_gateVars
  PROVE  \/ answer' = NoAnswer /\ UNCHANGED <<config, inventory, head>>
         \/ answer' = answer /\ UNCHANGED gateVars
         \/ /\ at = "read" /\ answer = NoAnswer /\ UNCHANGED <<diffVars, config>>
            /\ \/ Scanned /\ UNCHANGED <<inventory, head>>
               \/ /\ ~ByOutcome /\ UNCHANGED <<inventory, head>>
                  /\ answer' = [Verdict(LineOffences, {}) EXCEPT !.gate = "test-immutability"]
               \/ /\ ByOutcome /\ inventory' \in RunSets /\ head' \in RunSets
                  /\ answer' = [Verdict(LineOffences, CasesOffences(inventory', head'))
                                EXCEPT !.gate = "test-immutability"]
<1>1. CASE Reads
  <2>1. at # "read" /\ UNCHANGED <<config, inventory, head, answer>>
    BY <1>1 DEF Reads, Read, GitFails, RawDiffRuns, NumstatRuns, CheckAttrRuns, PatchPrints, PatchEnds
  <2>2. QED BY <2>1 DEF GateInv
<1>2. CASE Scans
  BY <1>2 DEF Scans, Scanned, Answers
<1>3. CASE ImmutabilityByLine
  BY <1>3 DEF ImmutabilityByLine, Answers
<1>4. CASE ImmutabilityByOutcome
  BY <1>4 DEF ImmutabilityByOutcome, Answers
<1>5. CASE ImmutabilityFails
  BY <1>5 DEF ImmutabilityFails
<1>6. CASE Over \/ UNCHANGED gateVars
  BY <1>6 DEF Over, gateVars
<1>7. QED BY <1>1, <1>2, <1>3, <1>4, <1>5, <1>6 DEF Next

LEMMA ScannedAllowed ==
  ASSUME Scanned
  PROVE  Allowed(answer'.gate, answer') /\ answer'.gate \in Gates \ {"test-immutability"}
<1>1. CASE answer' = [ProtectedPaths EXCEPT !.gate = "protected-paths"]
  BY <1>1, ScansAllowed, SignedStays DEF Gates, Allowed
<1>2. CASE answer' = [DiffBudget EXCEPT !.gate = "diff-budget"]
  BY <1>2, ScansAllowed, SignedStays DEF Gates, Allowed
<1>3. CASE answer' = [NewTestPresent EXCEPT !.gate = "new-test-present"]
  BY <1>3, ScansAllowed, SignedStays DEF Gates, Allowed
<1>4. CASE answer' = [NoDisabledTests EXCEPT !.gate = "no-disabled-tests"]
  BY <1>4, ScansAllowed, SignedStays DEF Gates, Allowed
<1>5. CASE answer' = [SuppressionScan EXCEPT !.gate = "suppression-scan"]
  BY <1>5, ScansAllowed, SignedStays DEF Gates, Allowed
<1>6. QED BY <1>1, <1>2, <1>3, <1>4, <1>5 DEF Scanned

LEMMA GateKeeps ==
  ASSUME GateInv, [Next]_gateVars
  PROVE  GateInv'
<1>1. DiffInv'
  BY NextKeeps DEF GateInv
<1>2. CASE answer' = NoAnswer /\ UNCHANGED <<config, inventory, head>>
  BY <1>1, <1>2 DEF GateInv
<1>3. CASE answer' = answer /\ UNCHANGED gateVars
  BY <1>1, <1>3 DEF GateInv, gateVars, diffVars, Allowed, Shaped
<1>4. ASSUME at = "read", UNCHANGED <<diffVars, config>>, Scanned, UNCHANGED <<inventory, head>>
      PROVE  GateInv'
  BY <1>1, <1>4, ScannedAllowed DEF GateInv, diffVars, Allowed, Shaped
<1>5. ASSUME at = "read", UNCHANGED <<diffVars, config>>,
             inventory' \in RunSets \/ inventory' = inventory, head' \in RunSets \/ head' = head,
             NEW byCase, answer' = [Verdict(LineOffences, byCase) EXCEPT !.gate = "test-immutability"]
      PROVE  GateInv'
  <2>1. Allowed(answer'.gate, answer') /\ answer'.gate \in Gates
    BY <1>5, VerdictShaped, SignedStays DEF Gates, Allowed, StatusesOf
  <2>2. QED BY <1>1, <1>5, <2>1 DEF GateInv, diffVars, Allowed, Shaped
<1>6. QED BY <1>2, <1>3, <1>4, <1>5, StepsAnswer

LEMMA GateAlways == Spec => []GateInv
<1>1. Init => GateInv
  BY DiffInitially DEF Init, GateInv
<1>2. GateInv /\ [Next]_gateVars => GateInv'
  BY GateKeeps
<1>3. QED BY <1>1, <1>2, PTL DEF Spec

\* The diff, the config, the runs and the answer have their types, each gate reports
\* what the walk expects of it (StatusesOf), and a remediation is named by a failure
\* and by nothing else.
THEOREM AnswersAreTyped == Spec => []TypeOK
<1>1. GateInv => TypeOK
  <2> SUFFICES ASSUME GateInv PROVE TypeOK
    OBVIOUS
  <2>1. DiffTypeOK /\ config \in Configs /\ inventory \in RunSets \union {<<>>}
        /\ head \in RunSets \union {<<>>}
    BY DEF GateInv, DiffInv
  <2>2. CASE answer = NoAnswer
    BY <2>1, <2>2 DEF TypeOK, NoAnswer
  <2>3. CASE answer.gate \in Gates /\ Allowed(answer.gate, answer)
    BY <2>1, <2>3 DEF TypeOK, Gates, Allowed, Shaped, Remediations
  <2>4. QED BY <2>2, <2>3 DEF GateInv
<1>2. QED BY <1>1, GateAlways, PTL

-----------------------------------------------------------------------------
(* Where the trees differ, the diff has a file.                            *)

\* Takers and places: a deleted path that is some file's source has one rename.
LEMMA OneRename ==
  ASSUME Sided, NEW p \in Deleted
  PROVE  /\ Takers(p) \subseteq Added /\ Takers(p) \subseteq Paths
         /\ \A q \in Takers(p) : origin[q] = p
         /\ \A q, r \in Takers(p) : Renamed(q) /\ Renamed(r) => q = r
         /\ Takers(p) # {} => \E q \in Takers(p) : Renamed(q)
<1>1. Takers(p) \subseteq Added /\ Added \subseteq Paths /\ \A q \in Takers(p) : origin[q] = p
  BY SidesAreTyped DEF SidesTyped, Takers
<1>2. \A q \in Takers(p) : Renamed(q) <=> \A r \in Takers(p) : Place(r) <= Place(q)
  BY <1>1 DEF Renamed
<1>3. \A q \in Takers(p) : Place(q) \in Nat /\ PathOrder[Place(q)] = q /\ Place(q) <= Len(PathOrder)
  BY <1>1, PlacesTyped
<1>4. ASSUME NEW q \in Takers(p), NEW r \in Takers(p), Renamed(q), Renamed(r)
      PROVE  q = r
  <2>1. Place(q) = Place(r)
    BY <1>2, <1>3, <1>4
  <2>2. QED BY <1>3, <2>1
<1>5. ASSUME Takers(p) # {}
      PROVE  \E q \in Takers(p) : Renamed(q)
  <2> DEFINE T == {Len(PathOrder) - Place(q) : q \in Takers(p)}
  <2>1. T \in SUBSET Nat /\ T # {}
    BY <1>3, <1>5, PlacesTyped
  <2>2. PICK j \in T : \A k \in T : j <= k
    <3> HIDE DEF T
    <3>1. QED BY <2>1, HasFirst
  <2>3. PICK q \in Takers(p) : j = Len(PathOrder) - Place(q)
    BY <2>2
  <2>4. ASSUME NEW r \in Takers(p)
        PROVE  Place(r) <= Place(q)
    <3>1. Len(PathOrder) - Place(r) \in T
      OBVIOUS
    <3>2. Len(PathOrder) - Place(q) <= Len(PathOrder) - Place(r)
      BY <2>2, <2>3, <3>1
    <3>3. QED BY <1>3, <3>2, PlacesTyped
  <2>5. QED BY <1>2, <2>4
<1>6. QED BY <1>1, <1>4, <1>5

\* A file of a diff that was read, as the trees have it.
Fits(f) ==
  /\ f.path \in Shown /\ f.status = StatusOf(f.path) /\ f.old = origin[f.path]
  /\ f.added = Counts(f.path).added /\ f.deleted = Counts(f.path).deleted
  /\ f.binary = Counts(f.path).binary /\ f.lines = OwnMap[f.path]
  /\ f.generated = (f.path \in attrs.base.generated)

LEMMA FilesFit ==
  ASSUME DiffInv, at = "read"
  PROVE  /\ \A i \in DOMAIN files : Fits(files[i]) /\ files[i].path \in Paths
         /\ \A p \in Shown : \E i \in DOMAIN files : files[i].path = p
<1>1. ASSUME NEW i \in DOMAIN files
      PROVE  Fits(files[i]) /\ files[i].path \in Paths
  <2> DEFINE p == files[i].path
  <2>1. /\ p \in Shown /\ p \in Paths /\ files[i].status = StatusMap[p] /\ files[i].old = origin[p]
        /\ files[i].added = CountMap[p].added /\ files[i].deleted = CountMap[p].deleted
        /\ files[i].binary = CountMap[p].binary /\ files[i].lines = OwnMap[p]
        /\ files[i].generated = (p \in attrs.base.generated)
    BY FilesTyped DEF DiffInv, FilesMatch, CountsMatch, MarksMatch, LinesMatch
  <2>2. StatusMap[p] = StatusOf(p) /\ CountMap[p] = Counts(p)
    BY <2>1, InvSides, StatusesTyped, CountsTyped
  <2>3. QED BY <2>1, <2>2 DEF Fits
<1>2. \A p \in Shown : \E i \in DOMAIN files : files[i].path = p
  BY DEF DiffInv, FilesMatch
<1>3. QED BY <1>1, <1>2

\* A path that differs is an end of a file, and where base had it, of the one that
\* says where it is now.
LEMMA ChangeIsListed ==
  ASSUME DiffInv, at = "read", NEW p \in Paths, Differs(p)
  PROVE  /\ \E i \in DOMAIN files : p \in Ends(files[i])
         /\ p \in Present(BaseTree) =>
              \E i \in DOMAIN files :
                /\ ExistingPath(files[i]) = p
                /\ \/ p \in Changed /\ files[i].path = p
                   \/ p \in Deleted /\ files[i].status = "D" /\ files[i].path = p /\ Takers(p) = {}
                   \/ /\ p \in Deleted /\ files[i].status = "R" /\ files[i].path \in Takers(p)
                      /\ Renamed(files[i].path)
<1> USE InvSides
<1>1. p \in Added \union Deleted \union Changed /\ p # NoPath
  BY PathsDivide, GitDiffAssumption DEF Differs
<1>2. ASSUME NEW i \in DOMAIN files, files[i].path = p
      PROVE  p \in Ends(files[i])
  BY <1>1, <1>2 DEF Ends
<1>3. CASE p \in Added
  <2>1. p \notin Present(BaseTree) /\ p \in Shown
    BY <1>3 DEF Added, Shown
  <2>2. QED BY <1>2, <2>1, FilesFit
<1>4. CASE p \in Changed
  <2>1. PICK i \in DOMAIN files : files[i].path = p /\ Fits(files[i])
    BY <1>4, FilesFit DEF Shown
  <2>2. files[i].status \in {"M", "T"}
    BY <1>4, <2>1, StatusesTyped DEF Fits
  <2>3. ExistingPath(files[i]) = p
    BY <2>1, <2>2 DEF ExistingPath
  <2>4. QED BY <1>2, <1>4, <2>1, <2>3
<1>5. CASE p \in Deleted /\ Takers(p) = {}
  <2>1. PICK i \in DOMAIN files : files[i].path = p /\ Fits(files[i])
    BY <1>5, FilesFit DEF Shown
  <2>2. files[i].status = "D"
    BY <1>5, <2>1, StatusesTyped DEF Fits
  <2>3. ExistingPath(files[i]) = p
    BY <2>1, <2>2 DEF ExistingPath
  <2>4. QED BY <1>2, <1>5, <2>1, <2>2, <2>3
<1>6. CASE p \in Deleted /\ Takers(p) # {}
  <2>1. PICK q \in Takers(p) : Renamed(q)
    BY <1>6, OneRename
  <2>2. q \in Added /\ q \in Paths /\ origin[q] = p
    BY <1>6, OneRename
  <2>3. PICK i \in DOMAIN files : files[i].path = q /\ Fits(files[i])
    BY <2>2, FilesFit DEF Shown
  <2>4. files[i].status = "R" /\ files[i].old = p
    BY <1>1, <2>1, <2>2, <2>3, StatusesTyped DEF Fits
  <2>5. ExistingPath(files[i]) = p
    BY <2>4 DEF ExistingPath
  <2>6. p \in Ends(files[i])
    BY <1>1, <2>4 DEF Ends
  <2>7. QED BY <1>6, <2>1, <2>3, <2>4, <2>5, <2>6
<1>7. QED BY <1>1, <1>3, <1>4, <1>5, <1>6

-----------------------------------------------------------------------------
(* What a cleared diff means, gate by gate.                                *)

ProtectedGoal ==
  \A p \in Paths : Differs(p) =>
    p \notin config.protected /\ (config.restricted => p \in config.allowed)

LEMMA ProtectedClears ==
  ASSUME DiffInv, at = "read", config \in Configs, ProtectedPaths.status # "fail"
  PROVE  ProtectedGoal
<1>1. {f \in DiffFiles : Offence(f) # <<>>} = {}
  <2> DEFINE broken == {f \in DiffFiles : Offence(f) # <<>>}
             guarded == {Matched(config.guarded, f) : f \in DiffFiles \ broken} \ {NoPath}
             no == Fail("revert-paths", {Offence(f) : f \in broken})
  <2>1. ASSUME broken # {}
        PROVE  ProtectedPaths = [no EXCEPT !.warnings = guarded]
    BY <2>1 DEF ProtectedPaths
  <2> HIDE DEF broken, guarded
  <2>2. Shaped(no) /\ no.status = "fail"
    BY AnswersShaped DEF Remediations
  <2> HIDE DEF no
  <2>3. [no EXCEPT !.warnings = guarded].status = "fail"
    BY <2>2, WarningsShaped
  <2>4. broken = {}
    BY <2>1, <2>3
  <2>5. QED BY <2>4 DEF broken
<1>2. config.protected \subseteq Paths /\ NoPath \notin Paths
  BY StaticGatesAssumption, GitDiffAssumption DEF ConfigSpace
<1>3. ASSUME NEW p \in Paths, Differs(p)
      PROVE  p \notin config.protected /\ (config.restricted => p \in config.allowed)
  <2>1. PICK i \in DOMAIN files : p \in Ends(files[i])
    BY <1>3, ChangeIsListed
  <2> DEFINE f == files[i]
  <2>2. Offence(f) = <<>>
    BY <1>1 DEF DiffFiles
  <2> HIDE DEF f
  <2>3. Matched(config.protected, f) = NoPath
    BY <2>2 DEF Offence
  <2>4. config.restricted => Ends(f) \subseteq config.allowed
    BY <2>2, <2>3 DEF Offence
  <2>5. f.path \notin config.protected /\ f.old \notin config.protected
    BY <1>2, <2>3 DEF Matched
  <2>6. p \in {f.path, f.old}
    BY <2>1 DEF Ends, f
  <2>7. QED BY <2>1, <2>4, <2>5, <2>6 DEF f
<1>4. QED BY <1>3 DEF ProtectedGoal

DisabledGoal ==
  \A p \in Added \union Changed : p \in config.patterns =>
    OwnLines([status |-> StatusOf(p), path |-> p]) \intersect config.forbidDisabled = {}

LEMMA NoDisabledClears ==
  ASSUME DiffInv, at = "read", NoDisabledTests.status # "fail"
  PROVE  DisabledGoal
<1>1. ScanAdded(config.patterns, config.forbidDisabled) = {}
  BY AnswersShaped DEF NoDisabledTests, Remediations
<1>2. ASSUME NEW p \in Added \union Changed, p \in config.patterns
      PROVE  OwnLines([status |-> StatusOf(p), path |-> p]) \intersect config.forbidDisabled = {}
  <2>1. p \in Paths /\ p \in Shown
    BY InvSides, SidesAreTyped DEF SidesTyped, Shown
  <2>2. PICK i \in DOMAIN files : files[i].path = p /\ Fits(files[i])
    BY <2>1, FilesFit
  <2>3. files[i].lines = OwnLines([status |-> StatusOf(p), path |-> p])
    BY <2>1, <2>2 DEF Fits, OwnMap
  <2>4. \A l \in files[i].lines \intersect config.forbidDisabled :
          <<files[i].path, l>> \in ScanAdded(config.patterns, config.forbidDisabled)
    BY <1>2, <2>2 DEF ScanAdded, DiffFiles
  <2>5. QED BY <1>1, <2>3, <2>4
<1>3. QED BY <1>2 DEF DisabledGoal

NewTestGoal ==
  config.requireNew =>
    \E p \in Added \union Changed :
      HoldsTestCases(p) /\ HeadTree[p].lines \ Before(p).lines # {}

LEMMA NewTestClears ==
  ASSUME DiffInv, at = "read", NewTestPresent.status # "fail"
  PROVE  NewTestGoal
<1> SUFFICES ASSUME config.requireNew
             PROVE  \E p \in Added \union Changed :
                      HoldsTestCases(p) /\ HeadTree[p].lines \ Before(p).lines # {}
  BY DEF NewTestGoal
<1>1. Fail("add-test", {}).status = "fail"
  BY AnswersShaped DEF Remediations
<1>2. PICK f \in DiffFiles : f.added > 0 /\ HoldsTestCases(f.path)
  BY <1>1 DEF NewTestPresent
<1>3. Fits(f) /\ f.path \in Paths
  BY FilesFit DEF DiffFiles
<1> DEFINE p == f.path
<1>4. p \in Paths /\ p \in Shown /\ Counts(p).added > 0
  BY <1>2, <1>3 DEF Fits
<1>5. Counts(p).added = IF Opaque(p, attrs.base) THEN 0
                        ELSE Cardinality(HeadTree[p].lines \ Before(p).lines)
  BY DEF Counts
<1>6. HeadTree[p].lines \ Before(p).lines # {}
  <2> DEFINE new == HeadTree[p].lines \ Before(p).lines
  <2>1. Cardinality(new) # 0
    BY <1>4, <1>5
  <2> HIDE DEF new
  <2>2. new # {}
    BY <2>1, FS_EmptySet
  <2>3. QED BY <2>2 DEF new
<1>7. p \notin Deleted
  BY <1>4, <1>6, InvSides, PathsDivide DEF Absent
<1>8. p \in Added \union Changed
  BY <1>4, <1>7 DEF Shown
<1>9. QED BY <1>2, <1>6, <1>8

\* Where each path has a file of its own that counts as many lines, the files count no
\* fewer lines than the paths have.
LEMMA LinesInject ==
  ASSUME NEW P, NEW D, IsFiniteSet(D), NEW place \in Injection(P, D), NEW count \in [D -> Nat],
         NEW own \in [P -> SUBSET Lines], \A p \in P : Cardinality(own[p]) = count[place[p]]
  PROVE  /\ Cardinality(UNION {{p} \X own[p] : p \in P}) \in Nat
         /\ Cardinality(LinesIn(count, D)) \in Nat
         /\ Cardinality(UNION {{p} \X own[p] : p \in P}) <= Cardinality(LinesIn(count, D))
<1> DEFINE T == UNION {{p} \X own[p] : p \in P}
           U == LinesIn(count, D)
           number == [p \in P |-> CHOOSE g : g \in Injection(own[p], 1..count[place[p]])]
           f == [t \in T |-> <<place[t[1]], number[t[1]][t[2]]>>]
<1>1. /\ \A p \in P : place[p] \in D
      /\ \A p, q \in P : place[p] = place[q] => p = q
  BY DEF Injection, IsInjective
<1>2. \A t : t \in T <=> \E p \in P : \E l \in own[p] : t = <<p, l>>
  OBVIOUS
<1>3. \A u : u \in U <=> \E i \in D : \E k \in 1..count[i] : u = <<i, k>>
  BY DEF LinesIn
<1>4. ASSUME NEW p \in P
      PROVE  number[p] \in Injection(own[p], 1..count[place[p]])
  <2> DEFINE n == count[place[p]]
  <2>1. n \in Nat /\ own[p] \in SUBSET Lines /\ Cardinality(own[p]) = n
    BY <1>1
  <2>2. IsFiniteSet(own[p])
    BY <2>1, GitDiffAssumption, FS_Subset
  <2> HIDE DEF n
  <2>3. IsFiniteSet(1..n) /\ Cardinality(1..n) = n
    BY <2>1, FS_Interval
  <2>4. ExistsBijection(own[p], 1..n)
    BY <2>1, <2>2, <2>3, FS_SameCardinalityBij
  <2>5. \E g : g \in Injection(own[p], 1..n)
    BY <2>4 DEF ExistsBijection, Bijection
  <2>6. QED BY <2>5 DEF n
<1>5. IsFiniteSet(U)
  <2> DEFINE R == {{i} \X (1..count[i]) : i \in D}
             g == [i \in D |-> {i} \X (1..count[i])]
  <2>1. g \in Surjection(D, R)
    BY DEF Surjection
  <2>2. \A r \in R : IsFiniteSet(r)
    <3> SUFFICES ASSUME NEW i \in D PROVE IsFiniteSet({i} \X (1..count[i]))
      OBVIOUS
    <3>1. count[i] \in Int
      OBVIOUS
    <3>2. IsFiniteSet(1..count[i])
      BY <3>1, FS_Interval
    <3>3. IsFiniteSet({i})
      BY FS_Singleton
    <3>4. QED BY <3>2, <3>3, FS_Product
  <2> HIDE DEF g, R
  <2>3. IsFiniteSet(R)
    BY <2>1, FS_Surjection
  <2>4. IsFiniteSet(UNION R)
    BY <2>2, <2>3, FS_UNION
  <2>5. QED BY <2>4 DEF R, LinesIn
<1> HIDE DEF T, U, number
<1>6. ASSUME NEW t \in T
      PROVE  t[1] \in P /\ t[2] \in own[t[1]] /\ t = <<t[1], t[2]>>
  BY <1>2
<1>7. ASSUME NEW t \in T
      PROVE  f[t] \in U /\ f[t][1] = place[t[1]] /\ f[t][2] = number[t[1]][t[2]]
  <2>1. number[t[1]][t[2]] \in 1..count[place[t[1]]] /\ place[t[1]] \in D
    BY <1>1, <1>4, <1>6 DEF Injection, IsInjective
  <2>2. QED BY <1>3, <2>1
<1>8. ASSUME NEW s \in T, NEW t \in T, f[s] = f[t]
      PROVE  s = t
  <2>1. s[1] = t[1]
    BY <1>1, <1>6, <1>7, <1>8
  <2>2. number[s[1]][s[2]] = number[s[1]][t[2]]
    BY <1>7, <1>8, <2>1
  <2>3. s[2] = t[2]
    BY <1>4, <1>6, <2>1, <2>2 DEF Injection, IsInjective
  <2>4. QED BY <1>6, <2>1, <2>3
<1>9. f \in Injection(T, U)
  BY <1>7, <1>8 DEF Injection, IsInjective
<1> HIDE DEF f
<1>10. IsFiniteSet(T) /\ Cardinality(T) <= Cardinality(U)
  BY <1>5, <1>9, FS_Injection
<1>11. QED BY <1>5, <1>10, FS_CardinalityType DEF T, U

BudgetGoal ==
  /\ Cardinality(Judged) <= config.budget.files
  /\ Cardinality(UNION {{p} \X (HeadTree[p].lines \ Before(p).lines) : p \in Legible})
       <= config.budget.added
  /\ Cardinality(UNION {{p} \X (Before(p).lines \ HeadTree[p].lines) : p \in Legible})
       <= config.budget.deleted

LEMMA BudgetClears ==
  ASSUME DiffInv, at = "read", config \in Configs, DiffBudget.status # "fail"
  PROVE  BudgetGoal
<1> DEFINE counted == {i \in DOMAIN files : Countable(files[i])}
           added == [i \in counted |-> files[i].added]
           deleted == [i \in counted |-> files[i].deleted]
           place == [p \in Judged |-> CHOOSE i \in DOMAIN files : files[i].path = p]
           near == [p \in Legible |-> place[p]]
           new == [p \in Legible |-> HeadTree[p].lines \ Before(p).lines]
           gone == [p \in Legible |-> Before(p).lines \ HeadTree[p].lines]
<1>1. config.budget \in [files : Nat, added : Nat, deleted : Nat]
  BY StaticGatesAssumption DEF ConfigSpace
<1>2. Overruns = {}
  BY AnswersShaped DEF DiffBudget, Remediations
<1>3. /\ DOMAIN files = 1..Len(files) /\ Len(files) \in Nat
      /\ \A i \in DOMAIN files : files[i] \in FileChange
  BY FilesTyped
<1>4. IsFiniteSet(counted)
  <2>1. IsFiniteSet(1..Len(files))
    BY <1>3, FS_Interval
  <2>2. counted \in SUBSET (1..Len(files))
    BY <1>3
  <2> HIDE DEF counted
  <2>3. QED BY <2>1, <2>2, FS_Subset
<1>5. added \in [counted -> Nat] /\ deleted \in [counted -> Nat]
  BY <1>3 DEF FileChange
<1>6. ASSUME NEW p \in Judged
      PROVE  /\ p \in Paths /\ place[p] \in counted /\ files[place[p]].path = p
             /\ Fits(files[place[p]])
  <2>1. p \in Shown /\ p \notin attrs.base.generated /\ p \notin config.patterns
    BY DEF Judged
  <2>2. \E i \in DOMAIN files : files[i].path = p
    BY <2>1, FilesFit
  <2>3. place[p] \in DOMAIN files /\ files[place[p]].path = p
    BY <2>2
  <2>4. Fits(files[place[p]]) /\ p \in Paths
    BY <2>3, FilesFit
  <2>5. Countable(files[place[p]])
    BY <2>1, <2>3, <2>4 DEF Fits, Countable
  <2>6. QED BY <2>3, <2>4, <2>5
<1> HIDE DEF place
<1>7. place \in Injection(Judged, counted)
  <2>1. place = [p \in Judged |-> place[p]]
    BY DEF place
  <2>2. place \in [Judged -> counted]
    BY <1>6, <2>1
  <2>3. QED BY <1>6, <2>2 DEF Injection, IsInjective
<1>8. near \in Injection(Legible, counted)
  BY <1>7 DEF Injection, IsInjective, Legible
<1>9. ASSUME NEW p \in Legible
      PROVE  /\ HeadTree[p].lines \subseteq Lines /\ Before(p).lines \subseteq Lines
             /\ Cardinality(new[p]) = added[near[p]]
             /\ Cardinality(gone[p]) = deleted[near[p]]
  <2>1. p \in Judged /\ ~Opaque(p, attrs.base)
    BY DEF Legible
  <2>2. HeadTree[p].lines \subseteq Lines /\ Before(p).lines \subseteq Lines
    BY <1>6, <2>1, InvSides, SidesAreTyped, PathsDivide DEF SidesTyped, Entries
  <2>3. added[near[p]] = Counts(p).added /\ deleted[near[p]] = Counts(p).deleted
    BY <1>6, <2>1 DEF Fits
  <2>4. QED BY <2>1, <2>2, <2>3 DEF Counts
<1>10. new \in [Legible -> SUBSET Lines] /\ gone \in [Legible -> SUBSET Lines]
  BY <1>9
<1>11. Spent = [files |-> Cardinality(counted), added |-> Cardinality(LinesIn(added, counted)),
                deleted |-> Cardinality(LinesIn(deleted, counted))]
  BY DEF Spent
<1> HIDE DEF counted, added, deleted, near, new, gone
<1>12. /\ Cardinality(Judged) \in Nat /\ Cardinality(counted) \in Nat
       /\ Cardinality(Judged) <= Cardinality(counted)
  <2>1. IsFiniteSet(Judged) /\ Cardinality(Judged) <= Cardinality(counted)
    BY <1>4, <1>7, FS_Injection
  <2>2. QED BY <1>4, <2>1, FS_CardinalityType
<1>13. /\ Cardinality(UNION {{p} \X new[p] : p \in Legible}) \in Nat
       /\ Cardinality(LinesIn(added, counted)) \in Nat
       /\ Cardinality(UNION {{p} \X new[p] : p \in Legible}) <= Cardinality(LinesIn(added, counted))
  BY <1>4, <1>5, <1>8, <1>9, <1>10, LinesInject
<1>14. /\ Cardinality(UNION {{p} \X gone[p] : p \in Legible}) \in Nat
       /\ Cardinality(LinesIn(deleted, counted)) \in Nat
       /\ Cardinality(UNION {{p} \X gone[p] : p \in Legible}) <= Cardinality(LinesIn(deleted, counted))
  BY <1>4, <1>5, <1>8, <1>9, <1>10, LinesInject
<1>15. ~(Spent.files > config.budget.files) /\ ~(Spent.added > config.budget.added)
       /\ ~(Spent.deleted > config.budget.deleted)
  BY <1>1, <1>2 DEF Overruns
<1>16. /\ Spent.files = Cardinality(counted) /\ Spent.added = Cardinality(LinesIn(added, counted))
       /\ Spent.deleted = Cardinality(LinesIn(deleted, counted))
  BY <1>11
<1>17. config.budget.files \in Nat /\ config.budget.added \in Nat /\ config.budget.deleted \in Nat
  BY <1>1
<1>18. Cardinality(Judged) <= config.budget.files
  BY <1>12, <1>15, <1>16, <1>17
<1>19. Cardinality(UNION {{p} \X new[p] : p \in Legible}) <= config.budget.added
  BY <1>13, <1>15, <1>16, <1>17
<1>20. Cardinality(UNION {{p} \X gone[p] : p \in Legible}) <= config.budget.deleted
  BY <1>14, <1>15, <1>16, <1>17
<1>21. /\ UNION {{p} \X (HeadTree[p].lines \ Before(p).lines) : p \in Legible}
           = UNION {{p} \X new[p] : p \in Legible}
       /\ UNION {{p} \X (Before(p).lines \ HeadTree[p].lines) : p \in Legible}
           = UNION {{p} \X gone[p] : p \in Legible}
  BY DEF new, gone
<1>22. QED BY <1>18, <1>19, <1>20, <1>21 DEF BudgetGoal

LEMMA SurfacesTyped ==
  ASSUME config \in Configs
  PROVE  /\ DOMAIN Surfaces = {1, 2}
         /\ Surfaces[1].mode \in Blocking \union {"warn"} /\ Surfaces[2].mode \in Blocking
         /\ \A p : Claimants(p) \in SUBSET {1, 2} /\ \A i \in Claimants(p) : p \in Surfaces[i].set
         /\ \A S \in SUBSET {1, 2} : S # {} => First(S) \in S /\ \A j \in S : First(S) <= j
<1>1. config.immutability \in Blocking /\ config.fixturesImmutability \in Blocking \union {"warn"}
  BY StaticGatesAssumption DEF ConfigSpace
<1>2. DOMAIN Surfaces = {1, 2}
  BY DEF Surfaces
<1>3. Surfaces[1].mode = config.fixturesImmutability /\ Surfaces[2].mode = config.immutability
  BY DEF Surfaces
<1>4. \A p : Claimants(p) \in SUBSET {1, 2} /\ \A i \in Claimants(p) : p \in Surfaces[i].set
  BY <1>2 DEF Claimants
<1>5. ASSUME NEW S \in SUBSET {1, 2}, S # {}
      PROVE  First(S) \in S /\ \A j \in S : First(S) <= j
  <2>1. S \in SUBSET Nat
    BY <1>5
  <2>2. \E i \in S : \A j \in S : i <= j
    BY <1>5, <2>1, HasFirst
  <2>3. QED BY <2>2 DEF First
<1>6. QED BY <1>1, <1>2, <1>3, <1>4, <1>5

\* An abandoned list whose file is not reported merely warns, and so does the list
\* that claims the file first.
LEMMA WarnedRemovals ==
  ASSUME config \in Configs, NEW f, RemovalMode(f) = "warn", Abandoned(f) # {}
  PROVE  /\ \A i \in Abandoned(f) : Surfaces[i].mode = "warn"
         /\ EditMode(ExistingPath(f)) = "warn"
<1> DEFINE hard == {i \in Abandoned(f) : Surfaces[i].mode # "warn"}
           claim == Claimants(ExistingPath(f))
<1>1. Abandoned(f) \in SUBSET {1, 2} /\ hard \in SUBSET {1, 2} /\ claim \in SUBSET {1, 2}
  BY SurfacesTyped DEF Abandoned
<1>2. hard = {}
  <2>1. RemovalMode(f) = Surfaces[First(IF hard # {} THEN hard ELSE Abandoned(f))].mode
    BY DEF RemovalMode
  <2>2. ASSUME hard # {}
        PROVE  FALSE
    <3>1. RemovalMode(f) = Surfaces[First(hard)].mode
      BY <2>1, <2>2
    <3>2. First(hard) \in hard
      <4> HIDE DEF hard
      <4>1. QED BY <1>1, <2>2, SurfacesTyped
    <3>3. QED BY <3>1, <3>2
  <2>3. QED BY <2>2
<1>3. \A i \in Abandoned(f) : Surfaces[i].mode = "warn"
  BY <1>2
<1>4. EditMode(ExistingPath(f)) = "warn"
  <2>1. Abandoned(f) \subseteq claim
    BY DEF Abandoned
  <2>2. 2 \notin Abandoned(f)
    BY <1>3, SurfacesTyped DEF Blocking, LineModes
  <2>3. 1 \in claim /\ Surfaces[1].mode = "warn"
    BY <1>1, <1>3, <2>1, <2>2
  <2> HIDE DEF claim
  <2>4. First(claim) \in {1, 2} /\ First(claim) <= 1
    BY <1>1, <2>3, SurfacesTyped
  <2>5. First(claim) = 1
    BY <2>4
  <2>6. QED BY <2>3, <2>5 DEF EditMode, claim
<1>5. QED BY <1>3, <1>4

Mild == \A i \in DOMAIN files : \A o \in Broken(files[i]) : o.mode = "warn"

EditsGoal ==
  \A p \in Present(BaseTree) : Claimants(p) # {} /\ EditMode(p) # "cases" =>
    /\ EditAllowed(p, EditMode(p))
    /\ \A i \in Claimants(p) : Surfaces[i].mode # "warn" => StaysIn(p, Surfaces[i].set)

\* A path that is as it was, in every list that claims it.
LEMMA UntouchedStays ==
  ASSUME Sided, NEW p \in Present(BaseTree), ~Differs(p), config \in Configs
  PROVE  /\ EditAllowed(p, EditMode(p))
         /\ \A i \in Claimants(p) : StaysIn(p, Surfaces[i].set)
<1>1. p \in Paths /\ BaseTree[p] = HeadTree[p] /\ p \notin Deleted
  BY PathsDivide DEF Present, Deleted, Differs
<1>2. Now(p) = {p}
  BY <1>1 DEF Now
<1>3. EditAllowed(p, EditMode(p))
  BY <1>2 DEF EditAllowed
<1>4. \A i \in Claimants(p) : StaysIn(p, Surfaces[i].set)
  BY <1>1, <1>2, SurfacesTyped DEF StaysIn, SameKind
<1>5. QED BY <1>3, <1>4

\* A file that left no list that blocks is still in each of them.
LEMMA KeptStays ==
  ASSUME DiffInv, at = "read", config \in Configs, NEW p \in Present(BaseTree),
         NEW f, Fits(f), ExistingPath(f) = p,
         \/ p \in Changed /\ f.path = p
         \/ p \in Deleted /\ f.status = "D" /\ f.path = p /\ Takers(p) = {}
         \/ p \in Deleted /\ f.status = "R" /\ f.path \in Takers(p) /\ Renamed(f.path),
         NEW i \in Claimants(p), ~Left(f, Surfaces[i].set)
  PROVE  /\ StaysIn(p, Surfaces[i].set)
         /\ Now(p) = {f.path} /\ Before(f.path) = BaseTree[p]
<1> USE InvSides
<1>1. p \in Paths /\ p \in Surfaces[i].set /\ p # NoPath
  BY SurfacesTyped, GitDiffAssumption DEF Present
<1>2. f.status \notin {"D", "T"} /\ (f.status = "R" => f.path \in Surfaces[i].set)
  BY DEF Left
<1>3. CASE p \in Changed /\ f.path = p
  <2>1. p \notin Deleted /\ origin[p] = NoPath
    BY <1>1, <1>3, PathsDivide
  <2>2. Now(p) = {p} /\ Before(p) = BaseTree[p]
    BY <2>1 DEF Now, Before, Source
  <2>3. f.status = "M"
    BY <1>1, <1>2, <1>3, StatusesTyped DEF Fits
  <2>4. SameKind(p, p)
    BY <1>1, <1>3, <2>3, StatusesTyped DEF Fits, SameKind
  <2>5. QED BY <1>1, <1>3, <2>2, <2>4 DEF StaysIn
<1>4. CASE p \in Deleted /\ f.status = "R" /\ f.path \in Takers(p) /\ Renamed(f.path)
  <2>1. origin[f.path] = p /\ f.path \in Paths /\ f.path \in Surfaces[i].set
    BY <1>2, <1>4, OneRename
  <2>2. Now(p) = {f.path}
    BY <1>4, OneRename DEF Now
  <2>3. Before(f.path) = BaseTree[p]
    BY <1>1, <2>1 DEF Before, Source
  <2>4. BaseTree[p].kind = HeadTree[f.path].kind
    BY <1>1, <2>1, SidesAreTyped DEF SidesTyped, Alike
  <2>5. QED BY <2>1, <2>2, <2>3, <2>4 DEF StaysIn, SameKind
<1>5. QED BY <1>2, <1>3, <1>4

\* A file that was not shortened lost no line.
LEMMA LongerKeepsLines ==
  ASSUME Sided, NEW q \in Paths, ~Counts(q).binary, ~(Counts(q).deleted > 0)
  PROVE  Before(q).lines \subseteq HeadTree[q].lines /\ ~Opaque(q, attrs.base)
<1>1. ~Opaque(q, attrs.base)
  BY DEF Counts
<1>2. Counts(q).deleted = Cardinality(Before(q).lines \ HeadTree[q].lines) /\ Counts(q).deleted \in Nat
  BY <1>1, CountsTyped DEF Counts
<1>3. Before(q).lines \ HeadTree[q].lines \in SUBSET Lines
  BY PathsDivide DEF Entries
<1> DEFINE lost == Before(q).lines \ HeadTree[q].lines
<1>4. IsFiniteSet(lost) /\ Cardinality(lost) = 0
  <2>1. IsFiniteSet(lost)
    BY <1>3, GitDiffAssumption, FS_Subset
  <2>2. Cardinality(lost) = 0
    BY <1>2
  <2>3. QED BY <2>1, <2>2
<1>5. lost = {}
  <2> HIDE DEF lost
  <2>1. QED BY <1>4, FS_EmptySet
<1>6. QED BY <1>1, <1>5

LEMMA MildEdits ==
  ASSUME DiffInv, at = "read", config \in Configs, Mild
  PROVE  EditsGoal
<1> SUFFICES ASSUME NEW p \in Present(BaseTree), Claimants(p) # {}, EditMode(p) # "cases"
             PROVE  /\ EditAllowed(p, EditMode(p))
                    /\ \A i \in Claimants(p) :
                         Surfaces[i].mode # "warn" => StaysIn(p, Surfaces[i].set)
  BY DEF EditsGoal
<1> USE InvSides
<1>1. p \in Paths
  BY DEF Present
<1>2. CASE ~Differs(p)
  BY <1>2, UntouchedStays
<1>3. CASE Differs(p)
  <2>1. PICK k \in DOMAIN files :
          /\ ExistingPath(files[k]) = p
          /\ \/ p \in Changed /\ files[k].path = p
             \/ p \in Deleted /\ files[k].status = "D" /\ files[k].path = p /\ Takers(p) = {}
             \/ /\ p \in Deleted /\ files[k].status = "R" /\ files[k].path \in Takers(p)
                /\ Renamed(files[k].path)
    BY <1>1, <1>3, ChangeIsListed
  <2> DEFINE f == files[k]
  <2>2. Fits(f) /\ f.path \in Paths /\ \A o \in Broken(f) : o.mode = "warn"
    BY FilesFit DEF Mild
  <2> HIDE DEF f
  <2>3. ExistingPath(f) = p
    BY <2>1 DEF f
  <2>4. \A i \in Claimants(p) : ~Left(f, Surfaces[i].set) =>
          StaysIn(p, Surfaces[i].set) /\ Now(p) = {f.path} /\ Before(f.path) = BaseTree[p]
    BY <2>1, <2>2, KeptStays DEF f
  <2>5. \A kind, mode : \A o \in Offends(f, kind, mode) : o.mode = mode
    BY DEF Offends
  <2>6. \A kind, mode : Offends(f, kind, mode) # {}
    BY DEF Offends
  <2>7. CASE Abandoned(f) # {}
    <3>1. Broken(f) = Offends(f, "removed", RemovalMode(f))
      BY <2>3, <2>7 DEF Broken
    <3>2. RemovalMode(f) = "warn"
      BY <2>2, <2>5, <2>6, <3>1
    <3>3. (\A i \in Abandoned(f) : Surfaces[i].mode = "warn") /\ EditMode(p) = "warn"
      BY <2>3, <2>7, <3>2, WarnedRemovals
    <3>4. EditAllowed(p, EditMode(p))
      BY <3>3 DEF EditAllowed
    <3>5. QED BY <2>3, <2>4, <3>3, <3>4 DEF Abandoned
  <2>8. CASE Abandoned(f) = {}
    <3>1. \A i \in Claimants(p) : ~Left(f, Surfaces[i].set)
      BY <2>3, <2>8 DEF Abandoned
    <3>2. EditMode(p) # "strict"
      <4>1. EditMode(p) = "strict" => Broken(f) = Offends(f, "edited", "strict")
        BY <2>3, <2>8 DEF Broken
      <4>2. QED BY <2>2, <2>5, <2>6, <4>1
    <3>3. ASSUME EditMode(p) = "append-only"
          PROVE  /\ Now(p) = {f.path}
                 /\ BaseTree[p].lines \subseteq HeadTree[f.path].lines /\ ~Opaque(f.path, attrs.base)
      <4>1. ~Shortened(f)
        <5>1. Shortened(f) => Broken(f) = Offends(f, "shortened", "append-only")
          BY <2>3, <2>8, <3>3 DEF Broken
        <5>2. QED BY <2>2, <2>5, <2>6, <5>1
      <4>2. ~Counts(f.path).binary /\ ~(Counts(f.path).deleted > 0)
        BY <2>2, <4>1 DEF Shortened, Fits
      <4>3. Now(p) = {f.path} /\ Before(f.path) = BaseTree[p]
        BY <2>4, <3>1
      <4>4. QED BY <2>2, <4>2, <4>3, LongerKeepsLines
    <3>4. EditAllowed(p, EditMode(p))
      BY <3>2, <3>3 DEF EditAllowed
    <3>5. QED BY <2>4, <3>1, <3>4
  <2>9. QED BY <2>7, <2>8
<1>4. QED BY <1>2, <1>3

\* A verdict that does not fail found nothing that blocks.
LEMMA VerdictClears ==
  ASSUME NEW byCase, Verdict(LineOffences, byCase).status # "fail"
  PROVE  Mild /\ byCase = {}
<1> DEFINE hard == {i \in DOMAIN LineOffences : \E o \in LineOffences[i] : o.mode # "warn"}
           evidence == UNION {LineOffences[i] : i \in DOMAIN LineOffences} \union byCase
           how == IF hard # {} /\ \A o \in LineOffences[First(hard)] : o.mode # "cases"
                  THEN "revert-paths" ELSE "fix-code"
<1>1. how \in Remediations
  BY DEF Remediations
<1>2. hard # {} \/ byCase # {} => Verdict(LineOffences, byCase) = Fail(how, evidence)
  BY DEF Verdict
<1> HIDE DEF how, evidence
<1>3. hard = {} /\ byCase = {}
  <2> HIDE DEF hard
  <2>1. QED BY <1>1, <1>2, AnswersShaped
<1>4. Mild
  <2> SUFFICES ASSUME NEW i \in DOMAIN files, NEW o \in Broken(files[i])
               PROVE  o.mode = "warn"
    BY DEF Mild
  <2>1. i \in DOMAIN LineOffences /\ LineOffences[i] = Broken(files[i])
    BY DEF LineOffences
  <2>2. QED BY <1>3, <2>1
<1>5. QED BY <1>3, <1>4

Green(before, after) ==
  \A n \in Names(before) : \A i \in DOMAIN after :
    /\ \E c \in CasesOf(after[i]) : c.name = n
    /\ \A c \in CasesOf(after[i]) : c.name = n => c.outcome = "pass"

\* Outcomes that offend in nothing: every case of base passes wherever head lists it.
LEMMA GreenOutcomes ==
  ASSUME NEW before, NEW after, CasesOffences(before, after) = {}
  PROVE  Green(before, after)
<1> SUFFICES ASSUME NEW n \in Names(before), NEW i \in DOMAIN after
             PROVE  /\ \E c \in CasesOf(after[i]) : c.name = n
                    /\ \A c \in CasesOf(after[i]) : c.name = n => c.outcome = "pass"
  BY DEF Green
<1>1. n \in Names(after)
  <2>1. n \notin Names(after) =>
          [case |-> n, kind |-> "removed", mode |-> "cases"] \in CasesOffences(before, after)
    BY DEF CasesOffences
  <2>2. QED BY <2>1
<1>2. OutcomesAll(after, n) = {"pass"}
  <2>1. OutcomesAll(after, n) # {"pass"} =>
          [case |-> n, kind |-> "regressed", mode |-> "cases"] \in CasesOffences(before, after)
    BY <1>1 DEF CasesOffences
  <2>2. QED BY <2>1
<1> DEFINE said == {c.outcome : c \in {d \in CasesOf(after[i]) : d.name = n}}
<1>3. (IF said = {} THEN {"absent"} ELSE said) \subseteq {"pass"}
  <2>1. (IF said = {} THEN {"absent"} ELSE said) \subseteq OutcomesAll(after, n)
    BY DEF OutcomesAll
  <2>2. QED BY <1>2, <2>1
<1>4. said # {} /\ said \subseteq {"pass"}
  <2> HIDE DEF said
  <2>1. QED BY <1>3
<1>5. QED BY <1>4

\* A diff that touches a list that goes by outcomes is judged by outcomes.
OutcomeTouched ==
  \E p \in Present(BaseTree) : Claimants(p) # {} /\ EditMode(p) = "cases" /\ Differs(p)

LEMMA TouchedAsks ==
  ASSUME DiffInv, at = "read", OutcomeTouched
  PROVE  ByOutcome
<1>1. PICK p \in Present(BaseTree) : Claimants(p) # {} /\ EditMode(p) = "cases" /\ Differs(p)
  BY DEF OutcomeTouched
<1>2. p \in Paths
  BY DEF Present
<1>3. PICK i \in DOMAIN files : ExistingPath(files[i]) = p
  BY <1>1, <1>2, ChangeIsListed
<1>4. QED BY <1>1, <1>3 DEF ByOutcome, DiffFiles

-----------------------------------------------------------------------------
(* The promises, as invariants.                                            *)

\* The goals are of the trees, the pairing and the config alone.
LEMMA GoalsFrame ==
  ASSUME UNCHANGED <<trees, attrs, origin, config>>
  PROVE  /\ ProtectedGoal' = ProtectedGoal /\ DisabledGoal' = DisabledGoal
         /\ NewTestGoal' = NewTestGoal /\ EditsGoal' = EditsGoal /\ BudgetGoal' = BudgetGoal
         /\ OutcomeTouched' = OutcomeTouched
<1>1. /\ BaseTree' = BaseTree /\ HeadTree' = HeadTree
      /\ Added' = Added /\ Deleted' = Deleted /\ Changed' = Changed
      /\ Present(BaseTree)' = Present(BaseTree)
  BY DEF BaseTree, HeadTree, Added, Deleted, Changed, Present
<1>2. \A p : Takers(p)' = Takers(p) /\ Source(p)' = Source(p) /\ Before(p)' = Before(p)
  BY <1>1 DEF Takers, Source, Before
<1>3. \A p : Renamed(p)' = Renamed(p)
  BY <1>1, <1>2 DEF Renamed
<1>4. \A p : StatusOf(p)' = StatusOf(p) /\ Now(p)' = Now(p)
  BY <1>1, <1>2, <1>3 DEF StatusOf, Now
<1>5. \A p : Opaque(p, attrs.base)' = Opaque(p, attrs.base) /\ Differs(p)' = Differs(p)
  BY <1>1, <1>2 DEF Opaque, Dark, Differs
<1>6. \A f : OwnLines(f)' = OwnLines(f)
  BY <1>1, <1>2, <1>5 DEF OwnLines, Dark
<1>7. Surfaces' = Surfaces /\ \A p : HoldsTestCases(p)' = HoldsTestCases(p)
  BY DEF Surfaces, HoldsTestCases
<1>8. \A p : Claimants(p)' = Claimants(p) /\ EditMode(p)' = EditMode(p)
  BY <1>7 DEF Claimants, EditMode
<1>9. \A p, set : StaysIn(p, set)' = StaysIn(p, set)
  BY <1>1, <1>4 DEF StaysIn, SameKind
<1>10. \A p, mode : EditAllowed(p, mode)' = EditAllowed(p, mode)
  BY <1>1, <1>4, <1>5 DEF EditAllowed
<1>11. ProtectedGoal' = ProtectedGoal
  BY <1>5 DEF ProtectedGoal
<1>12. DisabledGoal' = DisabledGoal
  BY <1>1, <1>4, <1>6 DEF DisabledGoal
<1>13. NewTestGoal' = NewTestGoal
  BY <1>1, <1>2, <1>7 DEF NewTestGoal
<1>14. OutcomeTouched' = OutcomeTouched
  BY <1>1, <1>5, <1>8 DEF OutcomeTouched
<1>15. EditsGoal' = EditsGoal
  <2>1. \A p, i : (Surfaces[i].mode)' = Surfaces[i].mode
                  /\ StaysIn(p, Surfaces[i].set)' = StaysIn(p, Surfaces[i].set)
                  /\ EditAllowed(p, EditMode(p))' = EditAllowed(p, EditMode(p))
    BY <1>7, <1>8, <1>9, <1>10
  <2>2. QED BY <1>1, <1>8, <2>1 DEF EditsGoal
<1>16. BudgetGoal' = BudgetGoal
  <2>1. Shown' = Shown /\ Judged' = Judged
    BY MapsFrame DEF Judged
  <2>2. Legible' = Legible
    BY <1>5, <2>1 DEF Legible
  <2>3. QED BY <1>1, <1>2, <2>1, <2>2 DEF BudgetGoal
<1>17. QED BY <1>11, <1>12, <1>13, <1>14, <1>15, <1>16

\* What the answer of a gate promises of the trees.
Promises ==
  /\ Cleared("protected-paths") => ProtectedGoal
  /\ Cleared("diff-budget") => BudgetGoal
  /\ Cleared("no-disabled-tests") => DisabledGoal
  /\ Cleared("new-test-present") => NewTestGoal
  /\ Cleared("test-immutability") => EditsGoal /\ (OutcomeTouched => Green(inventory, head))

LEMMA ScansSign ==
  ASSUME Scanned
  PROVE  /\ answer'.gate = "protected-paths" => answer'.status = ProtectedPaths.status
         /\ answer'.gate = "diff-budget" => answer'.status = DiffBudget.status
         /\ answer'.gate = "new-test-present" => answer'.status = NewTestPresent.status
         /\ answer'.gate = "no-disabled-tests" => answer'.status = NoDisabledTests.status
         /\ answer'.gate # "test-immutability"
<1>1. CASE answer' = [ProtectedPaths EXCEPT !.gate = "protected-paths"]
  BY <1>1, ScansAllowed, SignedStays DEF Allowed
<1>2. CASE answer' = [DiffBudget EXCEPT !.gate = "diff-budget"]
  BY <1>2, ScansAllowed, SignedStays DEF Allowed
<1>3. CASE answer' = [NewTestPresent EXCEPT !.gate = "new-test-present"]
  BY <1>3, ScansAllowed, SignedStays DEF Allowed
<1>4. CASE answer' = [NoDisabledTests EXCEPT !.gate = "no-disabled-tests"]
  BY <1>4, ScansAllowed, SignedStays DEF Allowed
<1>5. CASE answer' = [SuppressionScan EXCEPT !.gate = "suppression-scan"]
  BY <1>5, ScansAllowed, SignedStays DEF Allowed
<1>6. QED BY <1>1, <1>2, <1>3, <1>4, <1>5 DEF Scanned

LEMMA PromisesKept ==
  ASSUME GateInv, Promises, [Next]_gateVars
  PROVE  Promises'
<1>1. CASE answer' = NoAnswer
  BY <1>1 DEF Promises, Cleared, NoAnswer
<1>2. CASE answer' = answer /\ UNCHANGED gateVars
  <2>1. UNCHANGED <<trees, attrs, origin, config, inventory, head, answer>>
    BY <1>2 DEF gateVars, diffVars
  <2>2. Green(inventory, head)' = Green(inventory, head)
    BY <2>1 DEF Green, Names, AllCases, CasesOf
  <2>3. QED BY <2>1, <2>2, GoalsFrame DEF Promises, Cleared
<1>3. ASSUME at = "read", UNCHANGED <<diffVars, config>>, Scanned
      PROVE  Promises'
  <2>1. DiffInv /\ config \in Configs /\ UNCHANGED <<trees, attrs, origin, config>>
    BY <1>3 DEF GateInv, diffVars
  <2>2. answer'.gate = "protected-paths" /\ answer'.status # "fail" => ProtectedGoal
    BY <1>3, <2>1, ScansSign, ProtectedClears
  <2>3. answer'.gate = "no-disabled-tests" /\ answer'.status # "fail" => DisabledGoal
    BY <1>3, <2>1, ScansSign, NoDisabledClears
  <2>4. answer'.gate = "new-test-present" /\ answer'.status # "fail" => NewTestGoal
    BY <1>3, <2>1, ScansSign, NewTestClears
  <2>5. answer'.gate = "diff-budget" /\ answer'.status # "fail" => BudgetGoal
    BY <1>3, <2>1, ScansSign, BudgetClears
  <2>6. QED BY <1>3, <2>1, <2>2, <2>3, <2>4, <2>5, ScansSign, GoalsFrame DEF Promises, Cleared
<1>4. ASSUME at = "read", UNCHANGED <<diffVars, config>>, NEW byCase,
             answer' = [Verdict(LineOffences, byCase) EXCEPT !.gate = "test-immutability"],
             OutcomeTouched /\ byCase = {} => Green(inventory, head)'
      PROVE  Promises'
  <2>1. DiffInv /\ config \in Configs /\ UNCHANGED <<trees, attrs, origin, config>>
    BY <1>4 DEF GateInv, diffVars
  <2>2. answer'.gate = "test-immutability" /\ answer'.status = Verdict(LineOffences, byCase).status
    BY <1>4, VerdictShaped, SignedStays
  <2>3. answer'.status # "fail" => EditsGoal /\ byCase = {}
    BY <1>4, <2>1, <2>2, VerdictClears, MildEdits
  <2>4. QED BY <1>4, <2>1, <2>2, <2>3, GoalsFrame DEF Promises, Cleared
<1>5. ASSUME at = "read", UNCHANGED <<diffVars, config>>, ~ByOutcome,
             answer' = [Verdict(LineOffences, {}) EXCEPT !.gate = "test-immutability"]
      PROVE  Promises'
  <2>1. ~OutcomeTouched
    BY <1>5, TouchedAsks DEF GateInv
  <2>2. QED BY <1>4, <1>5, <2>1
<1>6. ASSUME at = "read", UNCHANGED <<diffVars, config>>,
             answer' = [Verdict(LineOffences, CasesOffences(inventory', head'))
                        EXCEPT !.gate = "test-immutability"]
      PROVE  Promises'
  <2>1. CasesOffences(inventory', head') = {} => Green(inventory', head')
    BY GreenOutcomes
  <2>2. Green(inventory', head') <=> Green(inventory, head)'
    BY DEF Green, Names, AllCases, CasesOf
  <2>3. QED BY <1>4, <1>6, <2>1, <2>2
<1>7. QED BY <1>1, <1>2, <1>3, <1>5, <1>6, StepsAnswer

LEMMA PromisesAlways == Spec => []Promises
<1>1. Init => Promises
  BY DEF Init, Promises, Cleared, NoAnswer
<1>2. GateInv /\ Promises /\ [Next]_gateVars => Promises'
  BY PromisesKept
<1>3. QED BY <1>1, <1>2, GateAlways, PTL DEF Spec

\* protected-paths (gates/paths/protected_paths.go): a diff it clears leaves every
\* protected path as it was, and under paths.allowed every path outside it, whichever
\* renames and copies git tells of.
THEOREM ProtectedPathsHold == Spec => []ProtectedStaysPut
<1>1. Promises => ProtectedStaysPut
  BY DEF Promises, ProtectedGoal, ProtectedStaysPut
<1>2. QED BY <1>1, PromisesAlways, PTL

\* diff-budget (gates/paths/diff_budget.go): a diff it clears changes no more files than
\* the budget allows, generated files and tests apart, and adds and deletes no more
\* lines git can show, as the two trees have them and whatever head calls generated.
THEOREM BudgetIsKept == Spec => []BudgetHolds
<1>1. Promises => BudgetHolds
  BY DEF Promises, BudgetGoal, BudgetHolds
<1>2. QED BY <1>1, PromisesAlways, PTL

\* no-disabled-tests and new-test-present (gates/tests): no test file that is new or
\* changed holds a disabling line of its own, and the test that was asked for has a
\* line its source on base did not.
THEOREM TestLinesHold == Spec => []TestLinesAreJudged
<1>1. Promises => TestLinesAreJudged
  BY DEF Promises, DisabledGoal, NewTestGoal, TestLinesAreJudged
<1>2. QED BY <1>1, PromisesAlways, PTL

\* test-immutability (gates/tests/test_immutability.go): a file of the merge base some
\* list claims stays in every list that blocks and is edited only as the first allows,
\* and where that list goes by outcomes every case base named passes on head.
THEOREM InsuranceHolds == Spec => []InsuranceStays
<1>1. Promises => InsuranceStays
  <2> SUFFICES ASSUME Promises, Cleared("test-immutability"),
                      NEW p \in Present(BaseTree), Claimants(p) # {}
               PROVE  IF EditMode(p) = "cases" THEN Differs(p) => Green(inventory, head)
                      ELSE /\ EditAllowed(p, EditMode(p))
                           /\ \A i \in Claimants(p) :
                                Surfaces[i].mode # "warn" => StaysIn(p, Surfaces[i].set)
    BY DEF InsuranceStays, Green
  <2>1. CASE EditMode(p) = "cases"
    BY <2>1 DEF Promises, OutcomeTouched
  <2>2. CASE EditMode(p) # "cases"
    BY <2>2 DEF Promises, EditsGoal
  <2>3. QED BY <2>1, <2>2
<1>2. QED BY <1>1, PromisesAlways, PTL

=============================================================================
