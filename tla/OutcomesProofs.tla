--------------------------- MODULE OutcomesProofs ---------------------------
(***************************************************************************)
(* What a lookup of Outcomes finds, for reports of any length: an outcome  *)
(* some matching case was reported with, and "absent" only where no case   *)
(* matches.                                                                *)
(***************************************************************************)
EXTENDS Outcomes, WellFoundedInduction, TLAPS

LEMMA HasFirst ==
  ASSUME NEW T \in SUBSET Nat, T # {}
  PROVE  \E j \in T : \A k \in T : j <= k
<1> DEFINE Less == {ss \in Nat \X Nat : ss[1] < ss[2]}
<1>1. IsWellFoundedOn(Less, Nat)
  BY NatLessThanWellFounded DEF OpToRel
<1>2. \A x, y \in Nat : y < x => <<y, x>> \in Less
  OBVIOUS
<1> HIDE DEF Less
<1>3. PICK x \in T : \A y \in T : ~(<<y, x>> \in Less)
  BY <1>1, WFMin
<1>4. \A y \in T : ~(y < x)
  BY <1>2, <1>3
<1>5. \A y \in T : x <= y
  BY <1>4
<1>6. QED BY <1>5

LEMMA CasesTyped ==
  ASSUME NEW run \in Reports
  PROVE  /\ CasesOf(run) \subseteq Cases
         /\ DOMAIN run.cases \subseteq Nat
         /\ \A j \in DOMAIN run.cases : run.cases[j] \in CasesOf(run)
  BY DEF Reports, CasesOf

\* A lookup reads a case that matches, or there is none.
LEMMA LookupFinds ==
  ASSUME NEW run \in Reports, NEW file, NEW name
  PROVE  \/ /\ OutcomeIn(run, file, name) = "absent"
            /\ \A c \in CasesOf(run) : ~Matches(c, file, name)
         \/ \E c \in CasesOf(run) :
              Matches(c, file, name) /\ OutcomeIn(run, file, name) = c.outcome
<1> DEFINE hits == {j \in DOMAIN run.cases : Matches(run.cases[j], file, name)}
           first == CHOOSE j \in hits : \A k \in hits : j <= k
<1>1. CASE hits = {}
  <2>1. OutcomeIn(run, file, name) = "absent"
    BY <1>1 DEF OutcomeIn
  <2>2. \A c \in CasesOf(run) : ~Matches(c, file, name)
    BY <1>1 DEF CasesOf
  <2>3. QED BY <2>1, <2>2
<1>2. CASE hits # {}
  <2>1. \E j \in hits : \A k \in hits : j <= k
    <3>1. hits \in SUBSET Nat
      BY CasesTyped
    <3>2. QED BY <3>1, <1>2, HasFirst
  <2>2. first \in hits
    BY <2>1
  <2>3. OutcomeIn(run, file, name) = run.cases[first].outcome
    BY <1>2 DEF OutcomeIn
  <2>4. QED BY <2>2, <2>3, CasesTyped
<1>3. QED BY <1>1, <1>2

\* What every run said of a case, every run lists for it.
LEMMA AllRunsSay ==
  ASSUME NEW runs, NEW n \in Nat \ {0}, DOMAIN runs = 1..n, \A i \in 1..n : runs[i] \in Reports,
         NEW file, NEW name, NEW want \in Outcome,
         AllAre(OutcomesOf(runs, file, name), want)
  PROVE  \A i \in 1..n : \E c \in CasesOf(runs[i]) : Matches(c, file, name) /\ c.outcome = want
<1> SUFFICES ASSUME NEW i \in 1..n
             PROVE  \E c \in CasesOf(runs[i]) : Matches(c, file, name) /\ c.outcome = want
  OBVIOUS
<1>1. OutcomeIn(runs[i], file, name) = want
  BY DEF AllAre, OutcomesOf
<1>2. want # "absent"
  BY DEF Outcome
<1>3. QED BY <1>1, <1>2, LookupFinds

=============================================================================
