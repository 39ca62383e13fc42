----------------------------- MODULE TrailProofs -----------------------------
(***************************************************************************)
(* The CloudTrail checks for any trails, regions and number of changes.    *)
(*                                                                         *)
(* A finding is born when DescribeTrails is answered, and what is said of  *)
(* it then has to survive until it is yielded, whatever happens to the     *)
(* account in between: so the invariants speak of the findings yielded and *)
(* of the batch that is still to be.  For completeness a third place       *)
(* counts: the regions whose run has not begun.                            *)
(***************************************************************************)
EXTENDS TrailChecks, FiniteSetTheorems, TLAPS

LEMMA PlaceIsRegion == \A s \in Subject : Place(s) \in Region
BY TrailAssumption DEF Subject, Place

(* What a run in a region reports. *)
LEMMA ReportsAre ==
  ASSUME TypeOK, NEW r \in Region
  PROVE  /\ Reports(r) \subseteq Finding
         /\ \A f \in Reports(r) : f.run = r /\ f.region = r /\ Place(f.about) = r
         /\ \A f \in Reports(r) :
              \/ f.about \in Flawed
              \/ /\ rule = "no-trail-configured" /\ f.about = r
                 /\ r \in denied \/ (Describe(r) = {} /\ r \in Recorded)
         /\ \A s \in Plain : Place(s) = r => \E f \in Reports(r) : f.about = s
<1>1. Trails(r) \subseteq Describe(r) /\ (r \notin denied => Trails(r) = Describe(r))
  BY DEF Trails
<1>2. r \notin Trail /\ Place(r) = r
  BY TrailAssumption DEF Place
<1>3. \A t \in Trail : t \notin Region /\ Place(t) = Home[t] /\ Home[t] \in Region
  BY TrailAssumption DEF Place
<1>4. Describe(r) \subseteq existing /\ existing \subseteq Trail
  BY DEF Describe, TypeOK
<1>5. \A t \in Describe(r) : Home[t] = r
  BY DEF Describe
<1>6. CASE rule = "no-trail-configured"
  <2>1. \A f \in Reports(r) : f = InRegion(r) /\ Trails(r) = {}
    BY <1>6 DEF Reports
  <2>2. InRegion(r) \in Finding
    BY DEF InRegion, Finding, Subject
  <2>3. InRegion(r).run = r /\ InRegion(r).region = r /\ InRegion(r).about = r
    BY DEF InRegion
  <2>4. Trails(r) = {} => r \in denied \/ r \in Flawed \/ (Describe(r) = {} /\ r \in Recorded)
    BY <1>1, <1>6 DEF Flawed
  <2>5. ASSUME NEW s \in Plain, Place(s) = r
        PROVE  \E f \in Reports(r) : f.about = s
    <3>1. s \in Region /\ Describe(s) = {}
      BY <1>4, <1>6, <2>5 DEF Plain, Flawed, Recorded, Describe
    <3>2. s = r
      BY <2>5, <3>1, TrailAssumption DEF Place
    <3>3. Trails(r) = {}
      BY <1>1, <3>1, <3>2
    <3>4. InRegion(r) \in Reports(r)
      BY <1>6, <3>3 DEF Reports
    <3> QED
      BY <2>3, <3>2, <3>4
  <2> QED
    BY <1>2, <1>6, <2>1, <2>2, <2>3, <2>4, <2>5
<1>7. CASE rule # "no-trail-configured"
  <2>1. Reports(r) = {OnTrail(r, t) : t \in Bad(Trails(r))}
    BY <1>7 DEF Reports
  <2>2. Bad(Trails(r)) \subseteq Trails(r)
    BY DEF Bad, NotMultiRegion, NotValidated, NotEncrypted
  <2>3. \A t \in Bad(Trails(r)) : t \in Trail /\ t \in existing /\ Home[t] = r
    BY <1>1, <1>4, <1>5, <2>2
  <2>4. \A t \in Bad(Trails(r)) : t \in Bad(existing)
    BY <2>3, <2>2 DEF Bad, NotMultiRegion, NotValidated, NotEncrypted
  <2>5. Flawed = Bad(existing)
    BY <1>7 DEF Flawed
  <2>6. \A t \in Trail : OnTrail(r, t) \in Finding
    BY <1>3 DEF OnTrail, Finding, Subject
  <2>7. \A t \in Trail : /\ OnTrail(r, t).run = r
                         /\ OnTrail(r, t).about = t
                         /\ OnTrail(r, t).region = Home[t]
    BY DEF OnTrail
  <2>8. ASSUME NEW s \in Plain, Place(s) = r
        PROVE  \E f \in Reports(r) : f.about = s
    <3>1. s \in Bad(existing) /\ Place(s) \notin denied
      BY <2>5, <2>8 DEF Plain
    <3>2. s \in existing /\ s \in Trail
      BY <1>4, <3>1 DEF Bad, NotMultiRegion, NotValidated, NotEncrypted
    <3>3. Home[s] = r
      BY <1>3, <2>8, <3>2
    <3>4. s \in Describe(r)
      BY <3>2, <3>3 DEF Describe
    <3>5. s \in Trails(r)
      BY <1>1, <2>8, <3>1, <3>4
    <3>6. s \in Bad(Trails(r))
      BY <3>1, <3>5 DEF Bad, NotMultiRegion, NotValidated, NotEncrypted
    <3> QED
      BY <2>1, <2>7, <3>2, <3>6
  <2> QED
    BY <1>3, <2>1, <2>3, <2>4, <2>5, <2>6, <2>7, <2>8
<1> QED
  BY <1>6, <1>7

LEMMA FlawedAreSubjects == ASSUME TypeOK PROVE Flawed \subseteq Subject /\ Plain \subseteq Subject
BY DEF TypeOK, Flawed, Plain, Bad, NotMultiRegion, NotValidated, NotEncrypted, Subject

(* What a change of the account is, as far as the checks care. *)
LEMMA AccountStepDrifts ==
  ASSUME TypeOK, AccountStep
  PROVE  /\ Drifts
         /\ existing' \subseteq Trail /\ multi' \subseteq existing' /\ weak' \subseteq existing'
         /\ denied' \subseteq Region
<1>1. CASE \E t \in Trail : DeleteTrail(t)
  BY <1>1 DEF DeleteTrail, TypeOK
<1>2. CASE \E t \in Trail, m, w \in BOOLEAN : PutTrail(t, m, w)
  BY <1>2 DEF PutTrail, TypeOK
<1>3. CASE \E r \in Region : Deny(r) \/ Allow(r)
  BY <1>3 DEF Deny, Allow, TypeOK
<1> QED
  BY <1>1, <1>2, <1>3 DEF AccountStep

-----------------------------------------------------------------------------
(* Type correctness, for any trails and regions. *)
LEMMA InitTypeOK == Init => TypeOK
<1> SUFFICES ASSUME Init PROVE TypeOK
  OBVIOUS
<1>1. existing \subseteq Trail /\ multi \subseteq existing /\ weak \subseteq existing
  BY DEF Init
<1>2. denied \subseteq Region /\ drift \in 0 .. MaxDrift
  BY TrailAssumption DEF Init
<1>3. seen \subseteq Subject /\ steady \subseteq Subject
  BY <1>1 DEF Init, Flawed, Plain, Bad, NotMultiRegion, NotValidated, NotEncrypted, Subject
<1>4. covered \subseteq Region
  BY DEF Init, Recorded
<1> QED
  BY <1>1, <1>2, <1>3, <1>4 DEF Init, TypeOK, Running

LEMMA NextTypeOK == TypeOK /\ [Next]_vars => TypeOK'
<1> SUFFICES ASSUME TypeOK, [Next]_vars PROVE TypeOK'
  OBVIOUS
<1>1. ASSUME NEW r \in Region, Run(r) PROVE TypeOK'
  <2>1. batch' \subseteq Finding
    BY <1>1, ReportsAre DEF Run
  <2>2. Running' /\ refused' \subseteq Region /\ shadowed' \subseteq Region
    BY <1>1 DEF Run, Running, TypeOK
  <2> QED
    BY <1>1, <2>1, <2>2 DEF Run, account, TypeOK
<1>2. ASSUME NEW r \in Region, RunRaises(r) PROVE TypeOK'
  BY <1>2 DEF RunRaises, account, TypeOK, Running
<1>3. ASSUME NEW f \in batch, Yield(f) PROVE TypeOK'
  BY <1>3 DEF Yield, account, TypeOK, Running
<1>4. CASE Return
  BY <1>4, TrailAssumption DEF Return, account, TypeOK, Running
<1>5. CASE AccountStep
  <2>1. /\ Drifts
        /\ existing' \subseteq Trail /\ multi' \subseteq existing' /\ weak' \subseteq existing'
        /\ denied' \subseteq Region
    BY <1>5, AccountStepDrifts
  <2>2. drift' \in 0 .. MaxDrift
    BY <2>1, TrailAssumption DEF Drifts, TypeOK
  <2>3. Flawed' \subseteq Subject
    BY <2>1 DEF Flawed, Bad, NotMultiRegion, NotValidated, NotEncrypted, Subject
  <2>4. seen' \subseteq Subject /\ steady' \subseteq Subject /\ covered' \subseteq Region
    BY <2>1, <2>3 DEF Drifts, TypeOK
  <2>5. rule' \in Rules /\ todo' \subseteq Region /\ at' \in todo' \union {Nowhere}
    BY <2>1 DEF Drifts, TypeOK
  <2>6. /\ batch' \subseteq Finding /\ findings' \subseteq Finding
        /\ errors' \subseteq Region /\ refused' \subseteq Region /\ shadowed' \subseteq Region
        /\ ~Running' => batch' = {}
    BY <2>1 DEF Drifts, TypeOK, Running
  <2> QED
    BY <2>1, <2>2, <2>4, <2>5, <2>6 DEF TypeOK
<1>6. CASE UNCHANGED vars
  BY <1>6 DEF vars, TypeOK, Running
<1> QED
  BY <1>1, <1>2, <1>3, <1>4, <1>5, <1>6 DEF Next, CheckStep

THEOREM SpecTypeOK == Spec => []TypeOK
<1> QED
  BY InitTypeOK, NextTypeOK, PTL DEF Spec

-----------------------------------------------------------------------------
(* Reporting every trail in its home region only is what keeps one trail   *)
(* from being reported under several regions, however many are scanned.    *)
THEOREM SpecOneReportPerTrail == Spec => []OneReportPerTrail
<1>1. Init => OneReportPerTrail
  BY DEF Init, OneReportPerTrail
<1>2. TypeOK /\ OneReportPerTrail /\ [Next]_vars => OneReportPerTrail'
  <2> SUFFICES ASSUME TypeOK, OneReportPerTrail, [Next]_vars PROVE OneReportPerTrail'
    OBVIOUS
  <2>1. ASSUME NEW r \in Region, Run(r) PROVE OneReportPerTrail'
    BY <2>1, ReportsAre DEF Run, OneReportPerTrail
  <2>2. ASSUME NEW r \in Region, RunRaises(r) PROVE OneReportPerTrail'
    BY <2>2 DEF RunRaises, OneReportPerTrail
  <2>3. ASSUME NEW f \in batch, Yield(f) PROVE OneReportPerTrail'
    BY <2>3 DEF Yield, OneReportPerTrail
  <2>4. CASE Return
    BY <2>4 DEF Return, OneReportPerTrail
  <2>5. CASE AccountStep
    BY <2>5, AccountStepDrifts DEF Drifts, OneReportPerTrail
  <2>6. CASE UNCHANGED vars
    BY <2>6 DEF vars, OneReportPerTrail
  <2> QED
    BY <2>1, <2>2, <2>3, <2>4, <2>5, <2>6 DEF Next, CheckStep
<1> QED
  BY <1>1, <1>2, SpecTypeOK, PTL DEF Spec

-----------------------------------------------------------------------------
(* What is wrong now has been seen, and every report, yielded or not yet,  *)
(* is about something seen - or about a region misread.                    *)
Justified ==
  /\ Flawed \subseteq seen
  /\ \A f \in findings \union batch : f.about \in seen \union Misread

LEMMA JustifiedHolds == Spec => []Justified
<1>1. Init => Justified
  BY DEF Init, Justified
<1>2. TypeOK /\ Justified /\ [Next]_vars => Justified'
  <2> SUFFICES ASSUME TypeOK, Justified, [Next]_vars PROVE Justified'
    OBVIOUS
  <2>0. UNCHANGED account => Flawed' = Flawed
    BY DEF account, Flawed, Describe, Recorded, Bad, NotMultiRegion, NotValidated, NotEncrypted
  <2>1. ASSUME NEW r \in Region, Run(r) PROVE Justified'
    <3>1. Flawed' \subseteq seen' /\ seen' = seen /\ rule' = rule
      BY <2>0, <2>1 DEF Run, Justified, account
    <3>2. \A f \in batch' : f.about \in seen \union Misread'
      BY <2>1, <3>1, ReportsAre DEF Run, Justified, Misread
    <3>3. findings' = findings /\ Misread \subseteq Misread'
      BY <2>1, <3>1 DEF Run, Misread
    <3> QED
      BY <3>1, <3>2, <3>3 DEF Justified
  <2>2. ASSUME NEW r \in Region, RunRaises(r) PROVE Justified'
    BY <2>0, <2>2 DEF RunRaises, Justified, Misread, account
  <2>3. ASSUME NEW f \in batch, Yield(f) PROVE Justified'
    BY <2>0, <2>3 DEF Yield, Justified, Misread, account
  <2>4. CASE Return
    BY <2>0, <2>4 DEF Return, Justified, Misread, account
  <2>5. CASE AccountStep
    <3>1. Drifts
      BY <2>5, AccountStepDrifts
    <3>2. Flawed' \subseteq seen' /\ seen \subseteq seen'
      BY <3>1 DEF Drifts
    <3> QED
      BY <3>1, <3>2 DEF Drifts, Justified, Misread
  <2>6. CASE UNCHANGED vars
    <3>1. UNCHANGED account
      BY <2>6 DEF vars, account
    <3> QED
      BY <2>0, <2>6, <3>1 DEF vars, Justified, Misread, account
  <2> QED
    BY <2>1, <2>2, <2>3, <2>4, <2>5, <2>6 DEF Next, CheckStep
<1> QED
  BY <1>1, <1>2, SpecTypeOK, PTL DEF Spec

(* Findings are about what was wrong at some moment of the scan, the check *)
(* without trails and the regions it misreads excepted.                    *)
THEOREM SpecFindingsJustified == Spec => []FindingsJustified
<1>1. Justified => FindingsJustified
  BY DEF Justified, FindingsJustified
<1> QED
  BY <1>1, JustifiedHolds, PTL

-----------------------------------------------------------------------------
(* Where a flaw that was there all along can be: behind an error, among    *)
(* the reports, or in a region whose run has not begun.                    *)
Accounted ==
  /\ steady \subseteq Plain
  /\ \A s \in steady :
       \/ Place(s) \in errors
       \/ \E f \in findings \union batch : f.about = s
       \/ Place(s) \in todo \ {at}

LEMMA AccountedHolds == Spec => []Accounted
<1>1. Init => Accounted
  <2> SUFFICES ASSUME Init PROVE Accounted
    OBVIOUS
  <2>1. \A s \in steady : s \in Subject
    BY InitTypeOK DEF TypeOK
  <2> QED
    BY <2>1, PlaceIsRegion, TrailAssumption DEF Init, Accounted
<1>2. TypeOK /\ Accounted /\ [Next]_vars => Accounted'
  <2> SUFFICES ASSUME TypeOK, Accounted, [Next]_vars PROVE Accounted'
    OBVIOUS
  <2>0. UNCHANGED account => Plain' = Plain /\ steady' = steady
    BY DEF account, Plain, Flawed, Describe, Recorded, Bad, NotMultiRegion, NotValidated, NotEncrypted
  <2>1. ASSUME NEW r \in Region, Run(r) PROVE Accounted'
    <3>1. Plain' = Plain /\ steady' = steady
      BY <2>0, <2>1 DEF Run
    <3>2. batch = {} /\ batch' = Reports(r) /\ at' = r
      BY <2>1 DEF Run, TypeOK
    <3>3. ASSUME NEW s \in steady
          PROVE  \/ Place(s) \in errors'
                 \/ \E f \in findings' \union batch' : f.about = s
                 \/ Place(s) \in todo' \ {at'}
      <4>1. CASE Place(s) = r
        BY <3>2, <4>1, ReportsAre DEF Accounted
      <4>2. CASE Place(s) # r
        BY <2>1, <3>2, <4>2 DEF Run, Accounted
      <4> QED
        BY <4>1, <4>2
    <3> QED
      BY <3>1, <3>3 DEF Accounted
  <2>2. ASSUME NEW r \in Region, RunRaises(r) PROVE Accounted'
    BY <2>0, <2>2 DEF RunRaises, Accounted
  <2>3. ASSUME NEW f \in batch, Yield(f) PROVE Accounted'
    BY <2>0, <2>3 DEF Yield, Accounted
  <2>4. CASE Return
    <3>1. \A s \in steady : Place(s) # Nowhere
      BY PlaceIsRegion, TrailAssumption DEF TypeOK
    <3> QED
      BY <2>0, <2>4, <3>1 DEF Return, Accounted
  <2>5. CASE AccountStep
    BY <2>5, AccountStepDrifts DEF Drifts, Accounted
  <2>6. CASE UNCHANGED vars
    <3>1. UNCHANGED account
      BY <2>6 DEF vars, account
    <3> QED
      BY <2>0, <2>6, <3>1 DEF vars, Accounted
  <2> QED
    BY <2>1, <2>2, <2>3, <2>4, <2>5, <2>6 DEF Next, CheckStep
<1> QED
  BY <1>1, <1>2, SpecTypeOK, PTL DEF Spec

(* A scan that is over has reported every flaw that was there, and could   *)
(* be read, all along - or the check raised in its region.                 *)
THEOREM SpecSteadyFlawsFound == Spec => []SteadyFlawsFound
<1>1. TypeOK /\ Accounted => SteadyFlawsFound
  <2> SUFFICES ASSUME TypeOK, Accounted, Over, NEW s \in steady
               PROVE  Place(s) \in errors \/ \E f \in findings : f.about = s
    BY DEF SteadyFlawsFound
  <2>1. todo = {} /\ batch = {}
    BY DEF Over, TypeOK
  <2> QED
    BY <2>1 DEF Accounted
<1> QED
  BY <1>1, AccountedHolds, SpecTypeOK, PTL

-----------------------------------------------------------------------------
(* A region is dealt with once: what is still to be yielded belongs to the *)
(* run going on, and a region that raised is behind the scan.              *)
Regionwise ==
  /\ \A f \in batch : f.run = at
  /\ errors \intersect todo = {}

LEMMA RegionwiseHolds == Spec => []Regionwise
<1>1. Init => Regionwise
  BY DEF Init, Regionwise
<1>2. TypeOK /\ Regionwise /\ [Next]_vars => Regionwise'
  <2> SUFFICES ASSUME TypeOK, Regionwise, [Next]_vars PROVE Regionwise'
    OBVIOUS
  <2>1. ASSUME NEW r \in Region, Run(r) PROVE Regionwise'
    BY <2>1, ReportsAre DEF Run, Regionwise
  <2>2. ASSUME NEW r \in Region, RunRaises(r) PROVE Regionwise'
    BY <2>2 DEF RunRaises, Regionwise
  <2>3. ASSUME NEW f \in batch, Yield(f) PROVE Regionwise'
    BY <2>3 DEF Yield, Regionwise
  <2>4. CASE Return
    BY <2>4 DEF Return, Regionwise
  <2>5. CASE AccountStep
    BY <2>5, AccountStepDrifts DEF Drifts, Regionwise
  <2>6. CASE UNCHANGED vars
    BY <2>6 DEF vars, Regionwise
  <2> QED
    BY <2>1, <2>2, <2>3, <2>4, <2>5, <2>6 DEF Next, CheckStep
<1> QED
  BY <1>1, <1>2, SpecTypeOK, PTL DEF Spec

(* All that is known of a state. *)
TrailInv == TypeOK /\ OneReportPerTrail /\ Justified /\ Accounted /\ Regionwise

Owed == [r \in Region |-> At(steady, r)]
Warranted == [r \in Region |-> At(seen, r) \union At(Misread, r)]
Delivered == {<<f.run, f.about>> : f \in findings}

LEMMA DebtsAreSubjects ==
  ASSUME TypeOK
  PROVE  Owed \in [Region -> SUBSET Subject] /\ Warranted \in [Region -> SUBSET Subject]
BY DEF TypeOK, Owed, Warranted, At, Misread, Subject

LEMMA InitImplements == Init => Promise!Init
<1> SUFFICES ASSUME Init PROVE Promise!Init
  OBVIOUS
<1>1. Owed \in [Region -> SUBSET Subject] /\ Warranted \in [Region -> SUBSET Subject]
  BY InitTypeOK, DebtsAreSubjects
<1>2. steady \subseteq seen
  BY DEF Init, Plain
<1>3. \A r \in Region : Owed[r] \subseteq Warranted[r]
  BY <1>2 DEF Owed, Warranted, At
<1>4. Delivered = {}
  BY DEF Init, Delivered
<1> QED
  BY <1>1, <1>3, <1>4 DEF Init, Promise!Init, Owed, Warranted, Delivered

(* A change of the account, and a call that is refused, are changes of     *)
(* what is owed and warranted.                                             *)
LEMMA ChangeImplements ==
  ASSUME TypeOK, TypeOK', rule' = rule, steady' \subseteq steady, seen \subseteq seen',
         refused \subseteq refused', shadowed \subseteq shadowed', UNCHANGED <<todo, findings, errors>>
  PROVE  Promise!Next
<1>1. Owed' \in [Region -> SUBSET Subject] /\ Warranted' \in [Region -> SUBSET Subject]
  <2>1. Owed' = [r \in Region |-> At(steady', r)]
    BY DEF Owed, At, Place
  <2>2. Warranted' = [r \in Region |-> At(seen', r) \union At(Misread', r)]
    BY DEF Warranted, At, Place
  <2> QED
    BY <2>1, <2>2 DEF TypeOK, At, Misread, Subject
<1>2. \A r \in Region : Owed'[r] \subseteq Owed[r]
  BY DEF Owed, At, Place
<1>3. \A r \in Region : Warranted[r] \subseteq Warranted'[r]
  BY DEF Warranted, At, Misread, Place
<1>4. Promise!Change
  BY <1>1, <1>2, <1>3 DEF Promise!Change, Promise!OwesNoMore, Owed, Warranted
<1> QED
  BY <1>4 DEF Promise!Next

LEMMA NextImplements == TrailInv /\ [Next]_vars => [Promise!Next]_(Promise!promiseVars)
<1> SUFFICES ASSUME TrailInv, [Next]_vars PROVE [Promise!Next]_(Promise!promiseVars)
  OBVIOUS
<1>0. TypeOK /\ TypeOK'
  BY NextTypeOK DEF TrailInv
<1>1. ASSUME UNCHANGED <<rule, steady, seen, refused, shadowed>>
      PROVE  UNCHANGED Owed /\ UNCHANGED Warranted
  BY <1>1 DEF Owed, Warranted, At, Misread, Place
<1>2. ASSUME NEW r \in Region, Run(r) PROVE Promise!Next
  BY <1>0, <1>2, ChangeImplements DEF Run, account
<1>3. ASSUME NEW r \in Region, RunRaises(r) PROVE Promise!Next
  <2>1. UNCHANGED Owed /\ UNCHANGED Warranted
    BY <1>1, <1>3 DEF RunRaises, account
  <2>2. Region \ todo' = (Region \ todo) \union {r}
    BY <1>0, <1>3 DEF RunRaises, TypeOK
  <2>3. Promise!Fail(r)
    BY <1>3, <2>1, <2>2 DEF RunRaises, account, Promise!Fail, Owed, Warranted
  <2> QED
    BY <2>3 DEF Promise!Next
<1>4. ASSUME NEW f \in batch, Yield(f) PROVE Promise!Next
  <2>1. /\ f.run = at /\ at \in todo /\ at \in Region /\ f \in Finding
        /\ Place(f.about) = at
    BY <1>0, TrailAssumption DEF TrailInv, TypeOK, Regionwise, OneReportPerTrail, Running
  <2>2. f.about \in Warranted[at]
    BY <2>1 DEF TrailInv, Justified, Warranted, At
  <2>3. Delivered' = Delivered \union {<<at, f.about>>}
    BY <1>4, <2>1 DEF Yield, Delivered
  <2>4. UNCHANGED Owed /\ UNCHANGED Warranted
    BY <1>1, <1>4 DEF Yield, account
  <2>5. Promise!Deliver(at, f.about)
    BY <1>4, <2>1, <2>2, <2>3, <2>4
       DEF Yield, account, Promise!Deliver, Owed, Warranted, Delivered
  <2> QED
    BY <2>1, <2>2, <2>5 DEF Promise!Next, Warranted
<1>5. CASE Return
  <2>1. at \in todo /\ at \in Region /\ batch = {}
    BY <1>0, <1>5, TrailAssumption DEF Return, Running, TypeOK
  <2>2. UNCHANGED Owed /\ UNCHANGED Warranted
    BY <1>1, <1>5 DEF Return, account
  <2>3. ASSUME NEW x \in Owed[at] PROVE <<at, x>> \in Delivered
    <3>1. x \in steady /\ Place(x) = at
      BY <2>1 DEF Owed, At
    <3>2. PICK f \in findings : f.about = x
      BY <2>1, <3>1 DEF TrailInv, Accounted, Regionwise
    <3>3. f.run = at
      BY <3>1, <3>2 DEF TrailInv, OneReportPerTrail
    <3> QED
      BY <3>2, <3>3 DEF Delivered
  <2>4. Region \ todo' = (Region \ todo) \union {at}
    BY <1>5, <2>1 DEF Return
  <2>5. Promise!OwesNoMore
    BY <1>0, <2>2, DebtsAreSubjects DEF Promise!OwesNoMore, Owed
  <2>6. Promise!Settle(at)
    BY <1>5, <2>1, <2>2, <2>3, <2>4, <2>5
       DEF Return, account, Promise!Settle, Owed, Warranted, Delivered
  <2> QED
    BY <2>1, <2>6 DEF Promise!Next
<1>6. CASE AccountStep
  <2>1. Drifts
    BY <1>0, <1>6, AccountStepDrifts
  <2> QED
    BY <1>0, <2>1, ChangeImplements DEF Drifts
<1>7. CASE UNCHANGED vars
  BY <1>1, <1>7 DEF vars, Promise!promiseVars, Owed, Warranted
<1> QED
  BY <1>2, <1>3, <1>4, <1>5, <1>6, <1>7 DEF Next, CheckStep

(* The regional check, under the region loop of the scan and over an       *)
(* account that changes, keeps the promise of docs/adr/0004 region by      *)
(* region.                                                                 *)
THEOREM SpecImplementsPromise == Spec => ImplementsPromise
<1>1. Init => Promise!Init
  BY InitImplements
<1>2. TrailInv /\ [Next]_vars => [Promise!Next]_(Promise!promiseVars)
  BY NextImplements
<1>3. TypeOK /\ OneReportPerTrail /\ Justified /\ Accounted /\ Regionwise => TrailInv
  BY DEF TrailInv
<1> QED
  BY <1>1, <1>2, <1>3, SpecTypeOK, SpecOneReportPerTrail, JustifiedHolds, AccountedHolds,
     RegionwiseHolds, PTL DEF Spec, ImplementsPromise, Promise!Spec

(* So a region whose run has ended normally has had everything reported    *)
(* that was wrong and readable there all along - while other regions are   *)
(* still to come, and whatever happens in them.                            *)
THEOREM RegionsKeepPromise == Spec => []Promise!SettledHaveDelivered
  BY SpecImplementsPromise, Promise!SpecSettledHaveDelivered, PTL DEF ImplementsPromise

-----------------------------------------------------------------------------
(* The steps the check can still take, at most.  A run takes one to be     *)
(* answered, one for each of its findings - a trail each, or one on the    *)
(* region - and one to return.                                             *)
RunSteps == Cardinality(Trail) + 3

StepsLeft ==
  IF Running THEN (Cardinality(todo) - 1) * RunSteps + Cardinality(batch) + 1
             ELSE Cardinality(todo) * RunSteps

StepsRunOut ==
  /\ StepsLeft \in Nat
  /\ CheckStep => StepsLeft' < StepsLeft
  /\ ~CheckStep => StepsLeft' = StepsLeft

LEMMA Multiples ==
  ASSUME NEW n \in Nat, NEW k \in Nat
  PROVE  /\ n * k \in Nat
         /\ n # 0 => (n - 1) * k \in Nat /\ n * k = (n - 1) * k + k
<1>1. \A i \in Nat : i * k \in Nat
  OBVIOUS
<1>2. n * k = (n - 1) * k + k
  OBVIOUS
<1>3. n # 0 => n - 1 \in Nat
  OBVIOUS
<1> QED
  BY <1>1, <1>2, <1>3

LEMMA ReportsAreFew ==
  ASSUME IsFiniteSet(Trail), TypeOK, NEW r \in Region
  PROVE  /\ IsFiniteSet(Reports(r))
         /\ Cardinality(Reports(r)) \in Nat
         /\ Cardinality(Reports(r)) <= Cardinality(Trail) + 1
<1>1. Cardinality(Trail) \in Nat
  BY FS_CardinalityType
<1>2. CASE rule = "no-trail-configured"
  <2>1. Reports(r) = {} \/ Reports(r) = {InRegion(r)}
    BY <1>2 DEF Reports
  <2>2. /\ IsFiniteSet({}) /\ Cardinality({}) = 0
        /\ IsFiniteSet({InRegion(r)}) /\ Cardinality({InRegion(r)}) = 1
    BY FS_EmptySet, FS_Singleton
  <2> QED
    BY <1>1, <2>1, <2>2
<1>3. CASE rule # "no-trail-configured"
  <2> DEFINE ts == Bad(Trails(r))
             reports == {OnTrail(r, t) : t \in ts}
             report == [t \in ts |-> OnTrail(r, t)]
  <2>1. ts \in SUBSET Trail
    BY DEF TypeOK, Bad, NotMultiRegion, NotValidated, NotEncrypted, Trails, Describe
  <2>2. IsFiniteSet(ts) /\ Cardinality(ts) <= Cardinality(Trail)
    BY <2>1, FS_Subset
  <2>3. report \in Surjection(ts, reports)
    BY DEF Surjection
  <2>4. IsFiniteSet(reports) /\ Cardinality(reports) <= Cardinality(ts)
    BY <2>2, <2>3, FS_Surjection
  <2>5. Reports(r) = reports
    BY <1>3 DEF Reports
  <2>6. Cardinality(ts) \in Nat /\ Cardinality(reports) \in Nat
    BY <2>2, <2>4, FS_CardinalityType
  <2> QED
    BY <1>1, <2>2, <2>4, <2>5, <2>6
<1> QED
  BY <1>2, <1>3

(* A batch is what is left of the reports of some run. *)
BatchSmall ==
  /\ IsFiniteSet(batch)
  /\ Cardinality(batch) \in Nat
  /\ Cardinality(batch) <= Cardinality(Trail) + 1

LEMMA BatchSmallNext ==
  ASSUME IsFiniteSet(Trail), TypeOK, BatchSmall, [Next]_vars
  PROVE  BatchSmall'
<1>1. ASSUME NEW r \in Region, Run(r) PROVE BatchSmall'
  BY <1>1, ReportsAreFew DEF Run, BatchSmall
<1>2. ASSUME NEW f \in batch, Yield(f) PROVE BatchSmall'
  <2>1. IsFiniteSet(batch \ {f}) /\ Cardinality(batch \ {f}) <= Cardinality(batch)
    BY FS_Subset DEF BatchSmall
  <2>2. Cardinality(batch \ {f}) \in Nat /\ Cardinality(Trail) \in Nat
    BY <2>1, FS_CardinalityType
  <2> QED
    BY <1>2, <2>1, <2>2 DEF Yield, BatchSmall
<1>3. CASE UNCHANGED batch
  BY <1>3 DEF BatchSmall
<1> QED
  BY <1>1, <1>2, <1>3 DEF Next, CheckStep, AccountStep, vars, RunRaises, Return,
     DeleteTrail, PutTrail, Deny, Allow, Drifts

LEMMA StepTakesOne ==
  ASSUME IsFiniteSet(Trail), IsFiniteSet(Region), TypeOK, TypeOK', BatchSmall, BatchSmall', Next
  PROVE  StepsRunOut
<1>1. ASSUME NEW T \in SUBSET Region
      PROVE  /\ Cardinality(T) \in Nat
             /\ \A r \in T : /\ Cardinality(T \ {r}) = Cardinality(T) - 1
                             /\ Cardinality(T) # 0
  BY FS_Subset, FS_CardinalityType, FS_RemoveElement, FS_EmptySet
<1>2. /\ Cardinality(todo) \in Nat /\ Cardinality(batch) \in Nat
      /\ \A r \in todo : /\ Cardinality(todo \ {r}) = Cardinality(todo) - 1
                         /\ Cardinality(todo) # 0
      /\ Running => at \in todo
  BY <1>1, TrailAssumption DEF TypeOK, Running, BatchSmall
<1>3. RunSteps \in Nat /\ Cardinality(batch) < RunSteps - 1 /\ Cardinality(batch') < RunSteps - 1
      /\ Cardinality(batch') \in Nat
  BY FS_CardinalityType DEF RunSteps, BatchSmall
<1>4. PICK before \in Nat :
        Cardinality(todo) # 0 => /\ (Cardinality(todo) - 1) * RunSteps = before
                                 /\ Cardinality(todo) * RunSteps = before + RunSteps
  BY <1>2, <1>3, Multiples
<1>5. /\ StepsLeft = IF Running THEN (Cardinality(todo) - 1) * RunSteps + Cardinality(batch) + 1
                     ELSE Cardinality(todo) * RunSteps
      /\ StepsLeft' = IF Running'
                      THEN (Cardinality(todo') - 1) * RunSteps + Cardinality(batch') + 1
                      ELSE Cardinality(todo') * RunSteps
  BY DEF StepsLeft, RunSteps
<1>6. StepsLeft \in Nat
  <2>1. CASE Running
    <3>1. Cardinality(todo) # 0
      BY <1>2, <2>1
    <3>2. StepsLeft = before + Cardinality(batch) + 1
      BY <1>4, <1>5, <2>1, <3>1
    <3> QED
      BY <1>2, <3>2
  <2>2. CASE ~Running
    BY <1>2, <1>3, <1>5, <2>2, Multiples
  <2> QED
    BY <2>1, <2>2
<1>7. ASSUME NEW r \in Region, Run(r) PROVE StepsLeft' < StepsLeft
  <2>1. ~Running /\ Running' /\ todo' = todo /\ r \in todo
    BY <1>7 DEF Run, Running
  <2>2. StepsLeft = before + RunSteps /\ StepsLeft' = before + Cardinality(batch') + 1
    BY <1>2, <1>4, <1>5, <2>1
  <2> QED
    BY <1>3, <2>2
<1>8. ASSUME NEW r \in Region, RunRaises(r) PROVE StepsLeft' < StepsLeft
  <2>1. ~Running /\ ~Running' /\ todo' = todo \ {r} /\ r \in todo
    BY <1>8 DEF RunRaises, Running
  <2>2. StepsLeft = before + RunSteps /\ StepsLeft' = before
    BY <1>2, <1>4, <1>5, <2>1
  <2> QED
    BY <1>3, <2>2 DEF RunSteps
<1>9. ASSUME NEW f \in batch, Yield(f) PROVE StepsLeft' < StepsLeft
  <2>1. Running /\ Running' /\ todo' = todo
    BY <1>9 DEF Yield, Running, TypeOK
  <2>2. Cardinality(batch') = Cardinality(batch) - 1
    BY <1>9, FS_RemoveElement DEF Yield, BatchSmall
  <2>3. /\ StepsLeft = before + Cardinality(batch) + 1
        /\ StepsLeft' = before + Cardinality(batch') + 1
    BY <1>2, <1>4, <1>5, <2>1
  <2> QED
    BY <1>2, <1>3, <2>2, <2>3
<1>10. ASSUME Return PROVE StepsLeft' < StepsLeft
  <2>1. Running /\ ~Running' /\ todo' = todo \ {at} /\ at \in todo
    BY <1>2, <1>10, TrailAssumption DEF Return, Running
  <2>2. StepsLeft = before + Cardinality(batch) + 1 /\ StepsLeft' = before
    BY <1>2, <1>4, <1>5, <2>1
  <2> QED
    BY <1>2, <2>2
<1>11. ASSUME ~CheckStep PROVE StepsLeft' = StepsLeft
  <2>1. UNCHANGED <<at, todo, batch>>
    BY <1>11 DEF Next, AccountStep, DeleteTrail, PutTrail, Deny, Allow, Drifts
  <2> QED
    BY <2>1 DEF StepsLeft, RunSteps, Running
<1> QED
  BY <1>6, <1>7, <1>8, <1>9, <1>10, <1>11 DEF StepsRunOut, CheckStep

(* The check is done with its regions after at most as many steps as each  *)
(* region's call, reports and return take, whatever happens to the trails  *)
(* meanwhile and whatever happens in the other regions.                    *)
THEOREM SpecStepsRunOut ==
  IsFiniteSet(Trail) /\ IsFiniteSet(Region) => (Spec => [][StepsRunOut]_vars)
<1>1. SUFFICES ASSUME IsFiniteSet(Trail), IsFiniteSet(Region)
               PROVE  Spec => [][StepsRunOut]_vars
  OBVIOUS
<1>2. Init => BatchSmall
  BY <1>1, FS_EmptySet, FS_CardinalityType DEF Init, BatchSmall
<1>3. TypeOK /\ BatchSmall /\ [Next]_vars => BatchSmall'
  BY <1>1, BatchSmallNext
<1>4. TypeOK /\ TypeOK' /\ BatchSmall /\ BatchSmall' /\ [Next]_vars => [StepsRunOut]_vars
  BY <1>1, StepTakesOne
<1> QED
  BY <1>2, <1>3, <1>4, SpecTypeOK, PTL DEF Spec
=============================================================================
