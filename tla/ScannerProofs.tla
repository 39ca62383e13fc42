---------------------------- MODULE ScannerProofs ----------------------------
(***************************************************************************)
(* What is true of every scan, whatever the checks, regions and flaws: the *)
(* invariants of Scanner, that Scanner implements ScanPromise, and that a  *)
(* scan cannot go on for ever.                                             *)
(*                                                                         *)
(* The argument rests on Bookkeeping: every slot the loops have left       *)
(* behind is either in errors or has reported all it owes.  Flaws-         *)
(* ReportedOrExplained speaks only of the last state, where no slot is     *)
(* left, and is not inductive without it.  The account changes, and checks *)
(* lose and mistake things, while all this goes on: what carries the       *)
(* argument over such steps is that a slot owes less and less and is       *)
(* warranted more and more (DebtsShrink).                                  *)
(***************************************************************************)
EXTENDS Scanner, FiniteSetTheorems, TLAPS

(* The slots, and the lists they come from, in the form the proofs use. *)
LEMMA TargetsAreLists ==
  ASSUME TypeOK
  PROVE  /\ checks \in Seq(Check)
         /\ requested \in Seq(Region)
         /\ CtxRegions \in Seq(Region)
         /\ \A c : Targets(c) \in Seq(Place)
         /\ \A c \in GlobalCheck : Targets(c) = <<NoRegion>>
<1>1. checks \in Seq(Check) /\ requested \in Seq(Region)
  BY ScannerAssumption DEF TypeOK
<1>2. sessionRegion # NoRegion => <<sessionRegion>> \in Seq(Region)
  BY ScannerAssumption DEF TypeOK, Place
<1>3. <<FallbackRegion>> \in Seq(Region)
  BY ScannerAssumption
<1>4. CtxRegions \in Seq(Region)
  BY <1>1, <1>2, <1>3 DEF CtxRegions
<1>5. CtxRegions \in Seq(Place)
  BY <1>4 DEF Place
<1>6. <<NoRegion>> \in Seq(Place)
  BY DEF Place
<1>7. \A c : Targets(c) \in Seq(Place)
  BY <1>5, <1>6 DEF Targets
<1>8. \A c \in GlobalCheck : Targets(c) = <<NoRegion>>
  BY DEF Targets
<1> QED
  BY <1>1, <1>4, <1>7, <1>8

LEMMA SlotsAre ==
  ASSUME TypeOK
  PROVE  \A s : s \in Slots <=>
           \E i \in 1 .. Len(checks) :
             /\ Selects(checks[i])
             /\ \E j \in 1 .. Len(Targets(checks[i])) : s = <<i, j>>
<1>1. DOMAIN checks = 1 .. Len(checks)
  BY TargetsAreLists
<1>2. \A c : DOMAIN Targets(c) = 1 .. Len(Targets(c))
  BY TargetsAreLists
<1> QED
  BY <1>1, <1>2 DEF Slots

LEMMA SlotsArePairs ==
  ASSUME TypeOK
  PROVE  /\ Slots \subseteq Nat \X Nat
         /\ \A s \in Slots : s[2] >= 1
         /\ BuildError \notin Slots
<1> SUFFICES ASSUME NEW s \in Slots PROVE s \in Nat \X Nat /\ s[2] >= 1
  BY ScannerAssumption
<1>1. PICK i \in 1 .. Len(checks) : \E j \in 1 .. Len(Targets(checks[i])) : s = <<i, j>>
  BY SlotsAre
<1>2. Len(checks) \in Nat /\ Len(Targets(checks[i])) \in Nat
  BY TargetsAreLists
<1> QED
  BY <1>1, <1>2

LEMMA RunningIsASlot ==
  ASSUME TypeOK, Running
  PROVE  <<ci, ti>> \in Slots
<1>1. ci \in 1 .. Len(checks) /\ ti \in 1 .. Len(Targets(checks[ci]))
  BY TargetsAreLists DEF Running, TypeOK
<1> QED
  BY <1>1, SlotsAre DEF Running

(* What the scan is given fixes its slots. *)
LEMMA InputsFixSlots ==
  ASSUME UNCHANGED inputs
  PROVE  /\ Slots' = Slots
         /\ \A c : Targets(c)' = Targets(c)
         /\ \A s : Target(s)' = Target(s)
         /\ \A c : Selects(c)' = Selects(c)
<1>1. CtxRegions' = CtxRegions
  BY DEF inputs, CtxRegions
<1>2. \A c : Targets(c)' = Targets(c)
  BY <1>1 DEF Targets
<1>3. \A c : Selects(c)' = Selects(c)
  BY DEF inputs, Selects
<1>4. checks' = checks
  BY DEF inputs
<1>5. \A s : Target(s)' = Target(s)
  BY <1>2, <1>4 DEF Target
<1>6. Slots' = Slots
  BY <1>2, <1>3, <1>4 DEF Slots
<1> QED
  BY <1>2, <1>3, <1>5, <1>6

(* No step changes what the scan is given, and every step leaves of what   *)
(* is owed no more, of what is warranted no less.                          *)
LEMMA StepsAreOneWay ==
  ASSUME [Next]_vars
  PROVE  /\ UNCHANGED inputs
         /\ steady' \subseteq steady /\ seen \subseteq seen'
         /\ skipped \subseteq skipped' /\ mistaken \subseteq mistaken'
BY DEF Next, Progress, Build, BuildFails, BuildEscapes, YieldFinding, PassOver, Mistake,
       CheckReturns, CheckRaises, NextCheck, Finish, Interrupt, AccountStep, Mend, Break, Drifts,
       inputs, account, unsaid, vars

LEMMA DebtsShrink ==
  ASSUME [Next]_vars, NEW s
  PROVE  Owed(s)' \subseteq Owed(s) /\ Warranted(s) \subseteq Warranted(s)'
<1>1. checks' = checks /\ Target(s)' = Target(s)
  BY StepsAreOneWay, InputsFixSlots DEF inputs
<1>2. steady' \ Of(skipped', s) \subseteq steady \ Of(skipped, s)
  BY StepsAreOneWay DEF Of
<1>3. seen \union Of(mistaken, s) \subseteq seen' \union Of(mistaken', s)
  BY StepsAreOneWay DEF Of
<1>4. Owed(s)' = Answers(checks[s[1]], Target(s), steady' \ Of(skipped', s))
  BY <1>1 DEF Owed, Answers, Of
<1>5. Warranted(s)' = Answers(checks[s[1]], Target(s), seen' \union Of(mistaken', s))
  BY <1>1 DEF Warranted, Answers, Of
<1>6. \A c, t, F, G : F \subseteq G => Answers(c, t, F) \subseteq Answers(c, t, G)
  BY DEF Answers
<1>7. Owed(s)' \subseteq Owed(s)
  BY <1>2, <1>4, <1>6 DEF Owed
<1>8. Warranted(s) \subseteq Warranted(s)'
  BY <1>3, <1>5, <1>6 DEF Warranted
<1> QED
  BY <1>7, <1>8

(* What a slot owes it may yield, and both are conceivable findings of its *)
(* check, in its region if the check is regional.                          *)
LEMMA DebtsAre ==
  ASSUME TypeOK, NEW s
  PROVE  /\ Owed(s) \subseteq Warranted(s) /\ Warranted(s) \subseteq Conceivable
         /\ Warranted(s) \subseteq Finding
         /\ \A f \in Warranted(s) :
              /\ f.rule = checks[s[1]]
              /\ checks[s[1]] \in GlobalCheck \/ f.region = Target(s)
         /\ \A f \in Owed(s) : f \in steady /\ <<s, f>> \notin skipped
<1>1. steady \subseteq seen /\ seen \subseteq Conceivable
  BY DEF TypeOK
<1>2. Of(mistaken, s) \subseteq Conceivable
  BY DEF Of
<1> QED
  BY <1>1, <1>2, ScannerAssumption DEF Owed, Warranted, Answers, Of

-----------------------------------------------------------------------------
(* The loop positions stay within the lists, errors and findings belong to *)
(* slots of this scan.                                                     *)
LEMMA InitTypeOK == Init => TypeOK
<1> SUFFICES ASSUME Init PROVE TypeOK
  OBVIOUS
<1>1. checks \in Seq(Check) /\ requested \in Seq(Region)
  BY ScannerAssumption DEF Init
<1>2. ci \in 1 .. Len(checks) + 1 /\ ti \in Nat \ {0}
  BY <1>1 DEF Init
<1>3. <<FallbackRegion>> \in Seq(Region) /\ <<sessionRegion>> \in Seq(Place)
  BY ScannerAssumption DEF Init
<1>6. drift \in 0 .. MaxDrift
  BY ScannerAssumption DEF Init
<1>4. \A c : Len(Targets(c)) \in Nat
  BY <1>1, <1>3 DEF Targets, CtxRegions, Init
<1>5. ti <= Len(Targets(checks[ci])) + 1
  BY <1>4 DEF Init
<1> QED
  BY <1>2, <1>5, <1>6 DEF Init, TypeOK

LEMMA NextTypeOK == TypeOK /\ [Next]_vars => TypeOK'
<1> SUFFICES ASSUME TypeOK, [Next]_vars PROVE TypeOK'
  OBVIOUS
<1>0. UNCHANGED inputs
  BY StepsAreOneWay
<1>1. /\ checks' = checks /\ Slots' = Slots
      /\ \A c : Targets(c)' = Targets(c)
  BY <1>0, InputsFixSlots DEF inputs
<1>2. /\ Len(checks) \in Nat
      /\ \A c : Len(Targets(c)) \in Nat
  BY TargetsAreLists
<1>3. Running => <<ci, ti>> \in Slots
  BY SlotsAre, <1>2 DEF Running, TypeOK
<1> USE DEF TypeOK
<1>4. CASE Build
  BY <1>0, <1>1, <1>4 DEF Build, inputs, account, unsaid
<1>5. CASE BuildFails
  BY <1>0, <1>1, <1>5 DEF BuildFails, inputs, account, unsaid
<1>6. ASSUME NEW f \in Conceivable, YieldFinding(f) PROVE TypeOK'
  BY <1>0, <1>1, <1>3, <1>6 DEF YieldFinding, inputs, account, unsaid
<1>7. CASE CheckReturns
  <2>1. ci' = ci /\ ti' = ti + 1 /\ ti <= Len(Targets(checks[ci]))
    BY <1>7 DEF CheckReturns, Running
  <2>2. (ti \in Nat \ {0} /\ ti <= Len(Targets(checks[ci])) + 1)'
    BY <2>1, <1>1, <1>2
  <2> QED
    BY <1>0, <1>1, <1>7, <2>1, <2>2 DEF CheckReturns, inputs, account, unsaid
<1>8. CASE CheckRaises
  <2>1. ci' = ci /\ ti' = ti + 1 /\ ti <= Len(Targets(checks[ci]))
    BY <1>8 DEF CheckRaises, Running
  <2>2. (ti \in Nat \ {0} /\ ti <= Len(Targets(checks[ci])) + 1)'
    BY <2>1, <1>1, <1>2
  <2> QED
    BY <1>0, <1>1, <1>3, <1>8, <2>1, <2>2 DEF CheckRaises, inputs, account, unsaid
<1>9. CASE NextCheck
  <2>1. ci' = ci + 1 /\ ti' = 1 /\ ci <= Len(checks)
    BY <1>9 DEF NextCheck
  <2>2. (ti \in Nat \ {0} /\ ti <= Len(Targets(checks[ci])) + 1)'
    BY <2>1, <1>1, <1>2
  <2>3. ci' \in 1 .. Len(checks') + 1
    BY <2>1, <1>1, <1>2
  <2> QED
    BY <1>0, <1>1, <1>9, <2>2, <2>3 DEF NextCheck, inputs, account, unsaid
<1>10. CASE Finish
  BY <1>0, <1>1, <1>10 DEF Finish, inputs, account, unsaid
<1>11. CASE Interrupt
  BY <1>0, <1>1, <1>11 DEF Interrupt, inputs, account, unsaid
<1>13. CASE BuildEscapes
  BY <1>0, <1>1, <1>13 DEF BuildEscapes, inputs, account, unsaid
<1>14. ASSUME NEW f \in Conceivable, PassOver(f) \/ Mistake(f) PROVE TypeOK'
  BY <1>0, <1>1, <1>3, <1>14 DEF PassOver, Mistake, inputs, account
<1>15. CASE AccountStep
  <2>1. Drifts /\ steady' \subseteq seen' /\ seen' \subseteq Conceivable
    BY <1>15 DEF AccountStep, Mend, Break
  <2>2. drift' \in 0 .. MaxDrift
    BY <2>1, ScannerAssumption DEF Drifts
  <2> QED
    BY <1>0, <1>1, <2>1, <2>2 DEF Drifts, inputs, unsaid
<1>12. CASE UNCHANGED vars
  BY <1>0, <1>1, <1>12 DEF vars, inputs
<1> QED
  BY <1>4, <1>5, <1>6, <1>7, <1>8, <1>9, <1>10, <1>11, <1>12, <1>13, <1>14,
     <1>15 DEF Next, Progress

(* Type correctness of every scan. *)
THEOREM SpecTypeOK == Spec => []TypeOK
  BY InitTypeOK, NextTypeOK, PTL DEF Spec

-----------------------------------------------------------------------------
(* What a step does to the set of settled slots. *)
LEMMA SlotEnds ==
  ASSUME TypeOK, Running, UNCHANGED <<inputs, ci>>, ti' = ti + 1
  PROVE  /\ <<ci, ti>> \in Slots \ Settled
         /\ Settled' = Settled \union {<<ci, ti>>}
<1>1. <<ci, ti>> \in Slots
  BY SlotsAre, TargetsAreLists DEF Running, TypeOK
<1>2. ci \in Nat /\ ti \in Nat
  BY TargetsAreLists DEF TypeOK
<1>3. Slots' = Slots
  BY InputsFixSlots
<1>4. \A s \in Slots : s \in Nat \X Nat
  BY SlotsAre, TargetsAreLists
<1>5. <<ci, ti>> \notin Settled
  BY <1>2 DEF Settled
<1>6. Settled' = {s \in Slots : s[1] < ci \/ (s[1] = ci /\ s[2] < ti + 1)}
  BY <1>3 DEF Settled
<1>7. \A s \in Slots : (s[1] = ci /\ s[2] < ti + 1) <=> (s[1] = ci /\ s[2] < ti) \/ s = <<ci, ti>>
  BY <1>2, <1>4
<1> QED
  BY <1>1, <1>5, <1>6, <1>7 DEF Settled

LEMMA CheckEnds ==
  ASSUME TypeOK, NextCheck
  PROVE  Settled' = Settled
<1>1. Slots' = Slots
  BY InputsFixSlots DEF NextCheck
<1>2. /\ ci \in Nat /\ ti \in Nat
      /\ \A s \in Slots : s \in Nat \X Nat /\ s[2] >= 1
  BY SlotsArePairs, TargetsAreLists DEF TypeOK
<1>3. Settled' = {s \in Slots : s[1] < ci + 1 \/ (s[1] = ci + 1 /\ s[2] < 1)}
  BY <1>1 DEF Settled, NextCheck
<1>4. \A s \in Slots : s[1] = ci => s[2] < ti
  <2> SUFFICES ASSUME NEW s \in Slots, s[1] = ci PROVE s[2] < ti
    OBVIOUS
  <2>1. PICK i \in 1 .. Len(checks) :
          Selects(checks[i]) /\ \E j \in 1 .. Len(Targets(checks[i])) : s = <<i, j>>
    BY SlotsAre
  <2>2. i = ci
    BY <2>1
  <2>3. ti > Len(Targets(checks[ci]))
    BY <2>1, <2>2 DEF NextCheck
  <2> QED
    BY <1>2, <2>1, <2>2, <2>3, TargetsAreLists
<1>5. \A s \in Slots : (s[1] < ci + 1 \/ (s[1] = ci + 1 /\ s[2] < 1))
                         <=> (s[1] < ci \/ (s[1] = ci /\ s[2] < ti))
  BY <1>2, <1>4
<1> QED
  BY <1>3, <1>5 DEF Settled

LEMMA LoopsEnd ==
  ASSUME TypeOK, ci > Len(checks)
  PROVE  Settled = Slots
<1>1. \A s \in Slots : s[1] < ci
  BY SlotsAre, TargetsAreLists DEF TypeOK
<1> QED
  BY <1>1 DEF Settled

LEMMA NothingSettledAtFirst ==
  ASSUME TypeOK, ci = 1, ti = 1
  PROVE  Settled = {}
<1>1. \A s \in Slots : s[1] \in Nat /\ s[2] \in Nat /\ s[1] >= 1 /\ s[2] >= 1
  BY SlotsAre, TargetsAreLists
<1> QED
  BY <1>1 DEF Settled

-----------------------------------------------------------------------------
LEMMA InitBookkeeping == Init => Bookkeeping
<1> SUFFICES ASSUME Init PROVE Bookkeeping
  OBVIOUS
<1>1. TypeOK
  BY InitTypeOK
<1>2. Settled = {}
  BY <1>1, NothingSettledAtFirst DEF Init
<1> QED
  BY <1>2 DEF Init, Bookkeeping

LEMMA NextBookkeeping == TypeOK /\ Bookkeeping /\ [Next]_vars => Bookkeeping'
<1> SUFFICES ASSUME TypeOK, Bookkeeping, [Next]_vars PROVE Bookkeeping'
  OBVIOUS
<1>0. UNCHANGED inputs
  BY StepsAreOneWay
<1>1. /\ Slots' = Slots
      /\ \A s : Owed(s)' \subseteq Owed(s) /\ Warranted(s) \subseteq Warranted(s)'
  BY <1>0, InputsFixSlots, DebtsShrink
(* The steps that leave the loops where they are settle nothing. *)
<1>2. UNCHANGED <<ci, ti>> => Settled' = Settled
  BY <1>0, InputsFixSlots DEF Settled
<1> USE DEF Bookkeeping
<1>3. CASE Build
  BY <1>1, <1>2, <1>3 DEF Build
<1>4. CASE BuildFails
  <2>1. Settled = {}
    BY <1>4, NothingSettledAtFirst DEF BuildFails
  <2> QED
    BY <1>1, <1>2, <1>4, <2>1 DEF BuildFails
<1>5. CASE BuildEscapes
  BY <1>1, <1>2, <1>5 DEF BuildEscapes
<1>6. ASSUME NEW f \in Conceivable, YieldFinding(f) PROVE Bookkeeping'
  <2>1. Settled' = Settled /\ ci' = ci /\ ti' = ti /\ f \in Warranted(<<ci, ti>>)
    BY <1>2, <1>6 DEF YieldFinding
  <2> QED
    BY <1>1, <1>6, <2>1 DEF YieldFinding, Running
<1>7. ASSUME NEW f \in Conceivable, PassOver(f) \/ Mistake(f) PROVE Bookkeeping'
  BY <1>1, <1>2, <1>7 DEF PassOver, Mistake
<1>8. CASE CheckReturns
  <2>1. Settled' = Settled \union {<<ci, ti>>}
    BY <1>8, SlotEnds DEF CheckReturns
  <2> QED
    BY <1>1, <1>8, <2>1 DEF CheckReturns, Running
<1>9. CASE CheckRaises
  <2>1. Settled' = Settled \union {<<ci, ti>>}
    BY <1>9, SlotEnds DEF CheckRaises
  <2> QED
    BY <1>1, <1>9, <2>1 DEF CheckRaises, Running
<1>10. CASE NextCheck
  <2>1. Settled' = Settled
    BY <1>10, CheckEnds
  (* Every finding is of a settled slot now: the current one is past the   *)
  (* last target, and no slot.                                             *)
  <2>2. \A e \in collected : e[1] \in Settled
    <3>1. <<ci, ti>> \notin Slots
      BY <1>10, SlotsAre DEF NextCheck
    <3> QED
      BY <3>1 DEF TypeOK
  <2> QED
    BY <1>1, <1>10, <2>1, <2>2 DEF NextCheck
<1>11. CASE Finish
  <2>1. Settled = Slots
    BY <1>11, LoopsEnd DEF Finish
  <2> QED
    BY <1>1, <1>2, <1>11, <2>1 DEF Finish
<1>12. CASE Interrupt
  BY <1>1, <1>2, <1>12 DEF Interrupt
<1>13. CASE AccountStep
  <2>1. Drifts
    BY <1>13 DEF AccountStep, Mend, Break
  <2> QED
    BY <1>1, <1>2, <2>1 DEF Drifts
<1>14. CASE UNCHANGED vars
  BY <1>1, <1>2, <1>14 DEF vars
<1> QED
  BY <1>3, <1>4, <1>5, <1>6, <1>7, <1>8, <1>9, <1>10, <1>11, <1>12, <1>13, <1>14
     DEF Next, Progress

(* The books are right in every state: nothing behind the scan is neither  *)
(* reported nor in errors (scanner.py 53-66).                              *)
THEOREM SpecBookkeeping == Spec => [](TypeOK /\ Bookkeeping)
  BY InitTypeOK, NextTypeOK, InitBookkeeping, NextBookkeeping, PTL DEF Spec

-----------------------------------------------------------------------------
(* What a flaw in scope has to do with a slot: the scan has one whose      *)
(* check, and region, are the flaw's.                                      *)
LEMMA ScopeHasASlot ==
  ASSUME TypeOK, NEW f, InScope(f)
  PROVE  \E s \in Slots :
           /\ checks[s[1]] = f.rule /\ Target(s) \in {NoRegion, f.region}
           /\ \A F : f \in F => f \in Answers(checks[s[1]], Target(s), F)
<1>1. PICK i \in 1 .. Len(checks) : checks[i] = f.rule
  BY TargetsAreLists DEF InScope, Range
<1>2. \E j \in 1 .. Len(Targets(f.rule)) :
        /\ Targets(f.rule)[j] \in {NoRegion, f.region}
        /\ f.rule \in GlobalCheck \/ f.region = Targets(f.rule)[j]
  <2>1. CASE f.rule \in GlobalCheck
    BY <2>1, TargetsAreLists
  <2>2. CASE f.rule \notin GlobalCheck
    <3>1. PICK j \in 1 .. Len(CtxRegions) : CtxRegions[j] = f.region
      BY <2>2, TargetsAreLists DEF InScope, Range
    <3> QED
      BY <2>2, <3>1 DEF Targets
  <2> QED
    BY <2>1, <2>2
<1>3. PICK j \in 1 .. Len(Targets(checks[i])) :
        /\ Targets(checks[i])[j] \in {NoRegion, f.region}
        /\ f.rule \in GlobalCheck \/ f.region = Targets(checks[i])[j]
  BY <1>1, <1>2
<1>4. <<i, j>> \in Slots /\ Target(<<i, j>>) = Targets(checks[i])[j]
  BY <1>1, <1>3, SlotsAre DEF InScope, Target
<1>5. \A F : f \in F => f \in Answers(checks[i], Target(<<i, j>>), F)
  BY <1>1, <1>3, <1>4 DEF Answers
<1> QED
  BY <1>1, <1>3, <1>4, <1>5

(* At the end of a scan no flaw that was there all along and that it was   *)
(* asked about is missing without a message that names its check and its   *)
(* region - unless the check itself passed it over.                        *)
THEOREM SpecFlawsReportedOrExplained == Spec => []FlawsReportedOrExplained
<1>1. TypeOK /\ Bookkeeping => FlawsReportedOrExplained
  <2> SUFFICES ASSUME TypeOK, Bookkeeping,
                      phase = "done", BuildError \notin metaErrors,
                      NEW f \in steady, InScope(f), ~Overlooked(f)
               PROVE  (\E s \in Slots : <<s, f>> \in collected) \/ Explained(f)
    BY DEF FlawsReportedOrExplained
  <2>1. metaErrors = errors /\ Settled = Slots
    BY DEF Bookkeeping
  <2>2. PICK s \in Slots :
          /\ checks[s[1]] = f.rule /\ Target(s) \in {NoRegion, f.region}
          /\ \A F : f \in F => f \in Answers(checks[s[1]], Target(s), F)
    BY ScopeHasASlot
  <2>3. f \in steady \ Of(skipped, s)
    BY DEF Overlooked, Of
  <2>4. f \in Owed(s)
    BY <2>2, <2>3 DEF Owed
  <2>5. CASE s \in errors
    BY <2>1, <2>2, <2>5 DEF Explained
  <2>6. CASE s \notin errors
    BY <2>1, <2>4, <2>6 DEF Bookkeeping
  <2> QED
    BY <2>5, <2>6
<1> QED
  BY <1>1, SpecBookkeeping, PTL

(* Scanning more regions never makes a flaw count more than once.          *)
THEOREM SpecNoInflatedCounts == Spec => []NoInflatedCounts
<1>1. TypeOK /\ Bookkeeping => NoInflatedCounts
  <2> SUFFICES ASSUME TypeOK, Bookkeeping,
                      IsInjective(requested), IsInjective(checks),
                      NEW e1 \in collected, NEW e2 \in collected, e1[2] = e2[2]
               PROVE  e1 = e2
    BY DEF NoInflatedCounts
  <2>1. /\ e1 \in Slots \X Conceivable /\ e2 \in Slots \X Conceivable
        /\ e1[2] \in Warranted(e1[1]) /\ e1[2] \in Warranted(e2[1])
    BY DEF TypeOK, Bookkeeping
  <2>2. PICK i \in 1 .. Len(checks), j \in Nat :
          j \in 1 .. Len(Targets(checks[i])) /\ e1[1] = <<i, j>>
    BY <2>1, SlotsAre
  <2>3. PICK k \in 1 .. Len(checks), l \in Nat :
          l \in 1 .. Len(Targets(checks[k])) /\ e2[1] = <<k, l>>
    BY <2>1, SlotsAre
  <2>4. checks[i] = checks[k]
    BY <2>1, <2>2, <2>3, DebtsAre
  <2>5. i = k
    BY <2>4, TargetsAreLists DEF IsInjective
  <2>6. j = l
    <3>1. CASE checks[i] \in GlobalCheck
      <4>1. Targets(checks[i]) = <<NoRegion>>
        BY <3>1, TargetsAreLists
      <4>2. Len(<<NoRegion>>) = 1
        OBVIOUS
      <4> QED
        BY <4>1, <4>2, <2>2, <2>3, <2>5
    <3>2. CASE checks[i] \notin GlobalCheck
      <4>1. IsInjective(CtxRegions)
        BY DEF CtxRegions, IsInjective
      <4>2. Targets(checks[i]) = CtxRegions
        BY <3>2 DEF Targets
      <4>3. CtxRegions[j] = CtxRegions[l]
        BY <2>1, <2>2, <2>3, <2>5, <3>2, <4>2, DebtsAre DEF Target
      <4> QED
        BY <4>1, <4>2, <4>3, <2>2, <2>3, <2>5, TargetsAreLists DEF IsInjective
    <3> QED
      BY <3>1, <3>2
  <2> QED
    BY <2>1, <2>2, <2>3, <2>5, <2>6
<1> QED
  BY <1>1, SpecBookkeeping, PTL

-----------------------------------------------------------------------------
OwedBySlot == [s \in Slots |-> Owed(s)]
WarrantedToSlot == [s \in Slots |-> Warranted(s)]

LEMMA DebtsAreFindings ==
  ASSUME TypeOK
  PROVE  /\ OwedBySlot \in [Slots -> SUBSET Finding]
         /\ WarrantedToSlot \in [Slots -> SUBSET Finding]
BY DebtsAre DEF OwedBySlot, WarrantedToSlot

LEMMA InitImplements == Init => Promise!Init
<1> SUFFICES ASSUME Init PROVE Promise!Init
  OBVIOUS
<1>1. TypeOK
  BY InitTypeOK
<1>2. Settled = {}
  BY <1>1, NothingSettledAtFirst DEF Init
<1>3. Slots \subseteq Nat \X Nat
  BY <1>1, SlotsAre, TargetsAreLists
<1>4. /\ OwedBySlot \in [Slots -> SUBSET Finding]
      /\ WarrantedToSlot \in [Slots -> SUBSET Finding]
      /\ \A s \in Slots : OwedBySlot[s] \subseteq WarrantedToSlot[s]
  BY <1>1, DebtsAreFindings, DebtsAre DEF OwedBySlot, WarrantedToSlot
<1>5. VerdictNow = "running"
  BY ScannerAssumption DEF Init, VerdictNow
<1> QED
  BY <1>2, <1>3, <1>4, <1>5 DEF Init, Promise!Init, OwedBySlot, WarrantedToSlot

(* The promise only asks of these steps that no slot owes more, and none   *)
(* is warranted less.                                                      *)
LEMMA ChangeImplements ==
  ASSUME TypeOK, TypeOK', [Next]_vars, phase \in {"ready", "scan"}, metaErrors = {},
         UNCHANGED <<phase, ci, ti, errors, collected, metaErrors>>
  PROVE  Promise!Change
<1>1. UNCHANGED inputs
  BY StepsAreOneWay
<1>2. Slots' = Slots /\ Settled' = Settled
  BY <1>1, InputsFixSlots DEF Settled
<1>3. VerdictNow = "running" /\ VerdictNow' = VerdictNow
  BY DEF VerdictNow
<1>4. OwedBySlot' \in [Slots -> SUBSET Finding] /\ WarrantedToSlot' \in [Slots -> SUBSET Finding]
  <2>1. \A t : Owed(t)' \subseteq steady' /\ Warranted(t)' \subseteq seen' \union Conceivable
    BY DEF Owed, Warranted, Answers, Of
  <2>2. steady' \subseteq Finding /\ seen' \union Conceivable \subseteq Finding
    BY ScannerAssumption DEF TypeOK
  <2> QED
    BY <1>2, <2>1, <2>2 DEF OwedBySlot, WarrantedToSlot
<1>5. \A s \in Slots : /\ OwedBySlot'[s] \subseteq OwedBySlot[s]
                       /\ WarrantedToSlot[s] \subseteq WarrantedToSlot'[s]
  BY <1>2, DebtsShrink DEF OwedBySlot, WarrantedToSlot
<1> QED
  BY <1>2, <1>3, <1>4, <1>5 DEF Promise!Change, Promise!OwesNoMore, OwedBySlot, WarrantedToSlot

LEMMA NextImplements ==
  TypeOK /\ Bookkeeping /\ [Next]_vars => [Promise!Next]_Promise!promiseVars
<1> SUFFICES ASSUME TypeOK, Bookkeeping, [Next]_vars
             PROVE  [Promise!Next]_Promise!promiseVars
  OBVIOUS
<1> USE DEF OwedBySlot, WarrantedToSlot
<1>0. TypeOK' /\ UNCHANGED inputs
  BY NextTypeOK, StepsAreOneWay
<1>1. Slots' = Slots
  BY <1>0, InputsFixSlots
<1>2. UNCHANGED <<account, unsaid>> =>
        OwedBySlot' = OwedBySlot /\ WarrantedToSlot' = WarrantedToSlot
  <2> SUFFICES ASSUME UNCHANGED <<account, unsaid>>
               PROVE  \A s : Owed(s)' = Owed(s) /\ Warranted(s)' = Warranted(s)
    BY <1>1
  <2>1. checks' = checks /\ \A s : Target(s)' = Target(s)
    BY <1>0, InputsFixSlots DEF inputs
  <2> QED
    BY <2>1 DEF Owed, Warranted, Answers, Of, account, unsaid
<1>3. UNCHANGED <<ci, ti>> => Settled' = Settled
  BY <1>0, InputsFixSlots DEF Settled
<1>4. phase \in {"ready", "scan"} => VerdictNow = "running"
  BY DEF VerdictNow, Bookkeeping
<1>5. UNCHANGED <<phase, metaErrors>> => VerdictNow' = VerdictNow
  BY DEF VerdictNow
<1>6. BuildError \notin errors
  BY SlotsArePairs DEF TypeOK
<1>7. CASE Build
  <2>1. VerdictNow' = "running"
    BY <1>7 DEF Build, VerdictNow, Bookkeeping
  <2> QED
    BY <1>1, <1>2, <1>3, <1>4, <1>7, <2>1 DEF Build, Promise!promiseVars
<1>8. CASE BuildFails \/ BuildEscapes
  <2>1. VerdictNow' = "refused"
    BY <1>8 DEF BuildFails, BuildEscapes, VerdictNow
  <2>2. Settled = {} /\ collected = {}
    BY <1>8, NothingSettledAtFirst DEF BuildFails, BuildEscapes, Bookkeeping
  <2>3. Promise!Refuse
    BY <1>1, <1>2, <1>3, <1>4, <1>8, <2>1, <2>2 DEF BuildFails, BuildEscapes, Promise!Refuse
  <2> QED
    BY <2>3 DEF Promise!Next
<1>9. ASSUME NEW f \in Conceivable, YieldFinding(f) PROVE Promise!Next
  <2>1. <<ci, ti>> \in Slots \ Settled
    <3>1. ci \in Nat /\ ti \in Nat
      BY TargetsAreLists DEF TypeOK
    <3> QED
      BY <1>9, <3>1, SlotsAre DEF YieldFinding, Running, TypeOK, Settled
  <2>2. f \in WarrantedToSlot[<<ci, ti>>]
    BY <1>9, <2>1 DEF YieldFinding
  <2>3. Promise!Deliver(<<ci, ti>>, f)
    BY <1>1, <1>2, <1>3, <1>4, <1>5, <1>9, <2>1, <2>2
       DEF YieldFinding, Running, Promise!Deliver
  <2> QED
    BY <2>1, <2>2, <2>3 DEF Promise!Next
<1>10. CASE CheckReturns
  <2>1. <<ci, ti>> \in Slots \ Settled /\ Settled' = Settled \union {<<ci, ti>>}
    BY <1>10, SlotEnds DEF CheckReturns
  <2>2. OwedBySlot' = OwedBySlot /\ WarrantedToSlot' = WarrantedToSlot
    BY <1>2, <1>10 DEF CheckReturns
  <2>3. Promise!OwesNoMore
    BY <2>2, DebtsAreFindings DEF Promise!OwesNoMore
  <2>4. \A x \in OwedBySlot[<<ci, ti>>] : <<<<ci, ti>>, x>> \in collected
    BY <1>10, <2>1 DEF CheckReturns
  <2>5. Promise!Settle(<<ci, ti>>)
    BY <1>1, <1>4, <1>5, <1>10, <2>1, <2>2, <2>3, <2>4 DEF CheckReturns, Running, Promise!Settle
  <2> QED
    BY <2>1, <2>5 DEF Promise!Next
<1>11. CASE CheckRaises
  <2>1. <<ci, ti>> \in Slots \ Settled /\ Settled' = Settled \union {<<ci, ti>>}
    BY <1>11, SlotEnds DEF CheckRaises
  <2>2. Promise!Fail(<<ci, ti>>)
    BY <1>1, <1>2, <1>4, <1>5, <1>11, <2>1 DEF CheckRaises, Running, Promise!Fail
  <2> QED
    BY <2>1, <2>2 DEF Promise!Next
<1>12. CASE NextCheck
  <2>1. Settled' = Settled
    BY <1>12, CheckEnds
  <2> QED
    BY <1>1, <1>2, <1>5, <1>12, <2>1 DEF NextCheck, Promise!promiseVars
<1>13. CASE Finish
  <2>1. Slots = Settled
    BY <1>13, LoopsEnd DEF Finish
  <2>2. VerdictNow' = IF errors = {} THEN "clean" ELSE "partial"
    BY <1>6, <1>13 DEF Finish, VerdictNow
  <2>3. Promise!Conclude
    BY <1>1, <1>2, <1>3, <1>4, <1>13, <2>1, <2>2 DEF Finish, Promise!Conclude
  <2> QED
    BY <2>3 DEF Promise!Next
<1>14. CASE Interrupt
  <2>1. VerdictNow' = "abandoned"
    BY <1>14 DEF Interrupt, VerdictNow, Bookkeeping
  <2>2. Promise!Abandon
    BY <1>1, <1>2, <1>3, <1>4, <1>14, <2>1 DEF Interrupt, Promise!Abandon
  <2> QED
    BY <2>2 DEF Promise!Next
<1>15. ASSUME NEW f \in Conceivable, PassOver(f) \/ Mistake(f) PROVE Promise!Next
  <2>1. Promise!Change
    BY <1>0, <1>15, ChangeImplements DEF PassOver, Mistake, Running, Bookkeeping
  <2> QED
    BY <2>1 DEF Promise!Next
<1>16. CASE AccountStep
  <2>1. Promise!Change
    BY <1>0, <1>16, ChangeImplements DEF AccountStep, Mend, Break, Drifts, Bookkeeping
  <2> QED
    BY <2>1 DEF Promise!Next
<1>17. CASE UNCHANGED vars
  BY <1>1, <1>2, <1>3, <1>5, <1>17 DEF vars, account, unsaid, Promise!promiseVars
<1> QED
  BY <1>7, <1>8, <1>9, <1>10, <1>11, <1>12, <1>13, <1>14, <1>15, <1>16, <1>17
     DEF Next, Progress

(* The loops of scanner.py do what ScanPromise allows and no more: a slot  *)
(* is settled once, by having delivered everything or by failing, and the  *)
(* run speaks when all are.                                                *)
THEOREM SpecImplementsPromise == Spec => ImplementsPromise
<1>1. Init => Promise!Init
  BY InitImplements
<1>2. TypeOK /\ Bookkeeping /\ [Next]_vars => [Promise!Next]_Promise!promiseVars
  BY NextImplements
<1> QED
  BY <1>1, <1>2, SpecBookkeeping, PTL DEF Spec, ImplementsPromise, Promise!Spec

(* So it keeps the promise: what a finished run neither reports nor names  *)
(* as failed was not there all along, or was passed over.                  *)
THEOREM ScanKeepsPromise == Spec => []Promise!PromiseKept
  BY SpecImplementsPromise, Promise!SpecKeepsPromise, PTL DEF ImplementsPromise

-----------------------------------------------------------------------------
(* The steps a scan can still take, at most: the findings not yet yielded, *)
(* passed over or mistaken, the slots not yet settled, the checks not yet  *)
(* passed, one or two to begin and to end, and what the account may still  *)
(* do.                                                                     *)
Pairs == Slots \X Conceivable
Unsettled == Slots \ Settled
ChecksLeft == Len(checks) + 1 - ci
PhasesLeft == CASE phase = "ready" -> 2 [] phase = "scan" -> 1 [] OTHER -> 0
DriftLeft == MaxDrift - drift

Unreported == Pairs \ collected
Unskipped == Pairs \ skipped
Unmistaken == Pairs \ mistaken

StepsLeft ==
  Cardinality(Unreported) + Cardinality(Unskipped) + Cardinality(Unmistaken)
    + Cardinality(Unsettled) + ChecksLeft + PhasesLeft + DriftLeft

StepsRunOut == StepsLeft \in Nat /\ StepsLeft' < StepsLeft

LEMMA SlotsAreFinite == ASSUME TypeOK PROVE IsFiniteSet(Slots)
<1> DEFINE grid == (1 .. Len(checks)) \X (1 .. Len(CtxRegions) + 1)
<1>1. Len(checks) \in Nat /\ Len(CtxRegions) \in Nat
  BY TargetsAreLists
<1>2. IsFiniteSet(1 .. Len(checks)) /\ IsFiniteSet(1 .. Len(CtxRegions) + 1)
  BY <1>1, FS_Interval
<1>3. IsFiniteSet(grid)
  BY <1>2, FS_Product
<1>4. \A c : Len(Targets(c)) \in Nat /\ Len(Targets(c)) <= Len(CtxRegions) + 1
  BY <1>1 DEF Targets
<1>5. Slots \subseteq grid
  BY <1>1, <1>4, SlotsAre
<1> QED
  BY <1>3, <1>5, FS_Subset

LEMMA StepsAreCounted ==
  ASSUME IsFiniteSet(Conceivable), TypeOK
  PROVE  /\ IsFiniteSet(Unreported) /\ IsFiniteSet(Unskipped) /\ IsFiniteSet(Unmistaken)
         /\ IsFiniteSet(Unsettled)
         /\ Cardinality(Unreported) \in Nat /\ Cardinality(Unskipped) \in Nat
         /\ Cardinality(Unmistaken) \in Nat /\ Cardinality(Unsettled) \in Nat
         /\ ChecksLeft \in Nat /\ PhasesLeft \in Nat /\ DriftLeft \in Nat
         /\ StepsLeft \in Nat
<1>1. IsFiniteSet(Slots)
  BY SlotsAreFinite
<1>2. IsFiniteSet(Pairs)
  BY <1>1, FS_Product DEF Pairs
<1>3. /\ IsFiniteSet(Unreported) /\ IsFiniteSet(Unskipped) /\ IsFiniteSet(Unmistaken)
      /\ IsFiniteSet(Unsettled)
  BY <1>1, <1>2, FS_Difference DEF Unreported, Unskipped, Unmistaken, Unsettled
<1>4. Len(checks) \in Nat /\ ci \in 1 .. Len(checks) + 1
  BY TargetsAreLists DEF TypeOK
<1>5. ChecksLeft \in Nat /\ PhasesLeft \in Nat
  BY <1>4 DEF ChecksLeft, PhasesLeft
<1>6. DriftLeft \in Nat
  BY ScannerAssumption DEF TypeOK, DriftLeft
<1>7. /\ Cardinality(Unreported) \in Nat /\ Cardinality(Unskipped) \in Nat
      /\ Cardinality(Unmistaken) \in Nat /\ Cardinality(Unsettled) \in Nat
  BY <1>3, FS_CardinalityType
<1> QED
  BY <1>3, <1>5, <1>6, <1>7 DEF StepsLeft

LEMMA StepTakesOne ==
  ASSUME IsFiniteSet(Conceivable), TypeOK, TypeOK', Next
  PROVE  StepsRunOut
<1>1. /\ \A e \in Unreported : Cardinality(Unreported \ {e}) = Cardinality(Unreported) - 1
      /\ \A e \in Unskipped : Cardinality(Unskipped \ {e}) = Cardinality(Unskipped) - 1
      /\ \A e \in Unmistaken : Cardinality(Unmistaken \ {e}) = Cardinality(Unmistaken) - 1
      /\ \A s \in Unsettled : Cardinality(Unsettled \ {s}) = Cardinality(Unsettled) - 1
  BY StepsAreCounted, FS_RemoveElement
<1>2. UNCHANGED inputs
  BY DEF Next, Progress, Build, BuildFails, BuildEscapes, YieldFinding, PassOver, Mistake,
     CheckReturns, CheckRaises, NextCheck, Finish, Interrupt, AccountStep, Mend, Break, Drifts
<1>3. Slots' = Slots /\ checks' = checks /\ Pairs' = Pairs
  BY <1>2, InputsFixSlots DEF inputs, Pairs
<1>4. /\ UNCHANGED collected => Unreported' = Unreported
      /\ UNCHANGED skipped => Unskipped' = Unskipped
      /\ UNCHANGED mistaken => Unmistaken' = Unmistaken
      /\ UNCHANGED <<ci, ti>> => Unsettled' = Unsettled
      /\ UNCHANGED ci => ChecksLeft' = ChecksLeft
      /\ UNCHANGED phase => PhasesLeft' = PhasesLeft
      /\ UNCHANGED drift => DriftLeft' = DriftLeft
  BY <1>3 DEF Unreported, Unskipped, Unmistaken, Unsettled, Settled, ChecksLeft, PhasesLeft,
     DriftLeft
<1>5. CASE Build \/ BuildFails \/ BuildEscapes \/ Finish \/ Interrupt
  <2>1. UNCHANGED <<ci, ti, collected, skipped, mistaken, drift>>
    BY <1>5 DEF Build, BuildFails, BuildEscapes, Finish, Interrupt, unsaid, account
  <2>2. PhasesLeft' \in Nat /\ PhasesLeft' < PhasesLeft
    BY <1>5 DEF Build, BuildFails, BuildEscapes, Finish, Interrupt, PhasesLeft
  <2> QED
    BY StepsAreCounted, <1>4, <2>1, <2>2 DEF StepsLeft, StepsRunOut
<1>6. ASSUME NEW f \in Conceivable, YieldFinding(f) PROVE StepsRunOut
  <2>1. <<<<ci, ti>>, f>> \in Unreported
    BY <1>6, RunningIsASlot DEF YieldFinding, Unreported, Pairs
  <2>2. Unreported' = Unreported \ {<<<<ci, ti>>, f>>}
    BY <1>3, <1>6 DEF YieldFinding, Unreported
  <2>3. UNCHANGED <<ci, ti, phase, skipped, mistaken, drift>>
    BY <1>6 DEF YieldFinding, account, unsaid
  <2>4. Cardinality(Unreported') = Cardinality(Unreported) - 1
    BY <1>1, <2>1, <2>2
  <2> QED
    BY StepsAreCounted, <1>4, <2>3, <2>4 DEF StepsLeft, StepsRunOut
<1>7. ASSUME NEW f \in Conceivable, PassOver(f) PROVE StepsRunOut
  <2>1. <<ci, ti>> \in Slots
    BY <1>7, RunningIsASlot DEF PassOver
  <2>2. <<<<ci, ti>>, f>> \in Unskipped
    BY <1>7, <2>1 DEF PassOver, Owed, Answers, Of, Unskipped, Pairs
  <2>3. Unskipped' = Unskipped \ {<<<<ci, ti>>, f>>}
    BY <1>3, <1>7 DEF PassOver, Unskipped
  <2>4. UNCHANGED <<ci, ti, phase, collected, mistaken, drift>>
    BY <1>7 DEF PassOver, account
  <2>5. Cardinality(Unskipped') = Cardinality(Unskipped) - 1
    BY <1>1, <2>2, <2>3
  <2> QED
    BY StepsAreCounted, <1>4, <2>4, <2>5 DEF StepsLeft, StepsRunOut
<1>8. ASSUME NEW f \in Conceivable, Mistake(f) PROVE StepsRunOut
  <2>1. <<ci, ti>> \in Slots
    BY <1>8, RunningIsASlot DEF Mistake
  <2>2. <<<<ci, ti>>, f>> \in Unmistaken
    BY <1>8, <2>1 DEF Mistake, Warranted, Answers, Of, Unmistaken, Pairs
  <2>3. Unmistaken' = Unmistaken \ {<<<<ci, ti>>, f>>}
    BY <1>3, <1>8 DEF Mistake, Unmistaken
  <2>4. UNCHANGED <<ci, ti, phase, collected, skipped, drift>>
    BY <1>8 DEF Mistake, account
  <2>5. Cardinality(Unmistaken') = Cardinality(Unmistaken) - 1
    BY <1>1, <2>2, <2>3
  <2> QED
    BY StepsAreCounted, <1>4, <2>4, <2>5 DEF StepsLeft, StepsRunOut
<1>9. CASE CheckReturns \/ CheckRaises
  <2>1. /\ Running /\ ti' = ti + 1 /\ UNCHANGED <<inputs, ci>>
        /\ UNCHANGED <<phase, collected, skipped, mistaken, drift>>
    BY <1>9 DEF CheckReturns, CheckRaises, account, unsaid
  <2>2. <<ci, ti>> \in Slots \ Settled /\ Settled' = Settled \union {<<ci, ti>>}
    BY <2>1, SlotEnds
  <2>3. <<ci, ti>> \in Unsettled /\ Unsettled' = Unsettled \ {<<ci, ti>>}
    BY <1>3, <2>2 DEF Unsettled
  <2>4. Cardinality(Unsettled') = Cardinality(Unsettled) - 1
    BY <1>1, <2>3
  <2> QED
    BY StepsAreCounted, <1>4, <2>1, <2>4 DEF StepsLeft, StepsRunOut
<1>10. CASE NextCheck
  <2>1. Unsettled' = Unsettled
    BY <1>3, <1>10, CheckEnds DEF Unsettled
  <2>2. ChecksLeft' = ChecksLeft - 1
    <3>1. ci' = ci + 1 /\ ci \in Nat /\ Len(checks) \in Nat
      BY <1>10, TargetsAreLists DEF NextCheck, TypeOK
    <3> QED
      BY <1>3, <3>1 DEF ChecksLeft
  <2>3. UNCHANGED <<phase, collected, skipped, mistaken, drift>>
    BY <1>10 DEF NextCheck, account, unsaid
  <2> QED
    BY StepsAreCounted, <1>4, <2>1, <2>2, <2>3 DEF StepsLeft, StepsRunOut
<1>11. CASE AccountStep
  <2>1. Drifts /\ UNCHANGED <<ci, ti, phase, collected, skipped, mistaken>>
    BY <1>11 DEF AccountStep, Mend, Break, Drifts, unsaid
  <2>2. DriftLeft' = DriftLeft - 1
    BY <2>1, ScannerAssumption DEF Drifts, DriftLeft, TypeOK
  <2> QED
    BY StepsAreCounted, <1>4, <2>1, <2>2 DEF StepsLeft, StepsRunOut
<1> QED
  BY <1>5, <1>6, <1>7, <1>8, <1>9, <1>10, <1>11 DEF Next, Progress

(* A scan of a finite account that changes finitely often cannot go on for *)
(* ever: every step yields, passes over or mistakes a finding as none did  *)
(* before, or settles a slot, or passes a check, or begins or ends the     *)
(* scan, and none of these is ever undone (scanner.py 45-66).              *)
THEOREM SpecStepsRunOut ==
  IsFiniteSet(Conceivable) => (Spec => [][StepsRunOut]_vars)
<1>1. SUFFICES ASSUME IsFiniteSet(Conceivable) PROVE Spec => [][StepsRunOut]_vars
  OBVIOUS
<1>2. TypeOK /\ TypeOK' /\ [Next]_vars => [StepsRunOut]_vars
  BY <1>1, StepTakesOne
<1> QED
  BY <1>2, SpecTypeOK, PTL DEF Spec
=============================================================================
