----------------------------- MODULE TrailChecks -----------------------------
(***************************************************************************)
(* One CloudTrail check (checks/cloudtrail.py) as a scan runs it: once in  *)
(* each region.  A run is one DescribeTrails call, whose answer is then    *)
(* reported trail by trail; trails come and go, and permissions change,    *)
(* between the regions and while findings are being yielded.               *)
(***************************************************************************)
EXTENDS Integers

CONSTANTS
  Trail,
  Region,
  Home,       \* the region a trail is created in
  Nowhere,    \* no region: no run of the check is going on
  Rules,      \* the checks considered
  Denials,    \* the regions where the principal may be denied at the start
  MaxDrift    \* how often the account changes during the scan

VARIABLES
  (* the account *)
  rule,       \* the check that runs
  existing,   \* the trails there are
  multi,      \* those that record every region
  weak,       \* those without validation, or without a KMS key
  denied,     \* the regions in which DescribeTrails is denied
  drift,      \* changes made so far
  (* the scan *)
  todo,       \* the regions not yet dealt with
  at,         \* the region of the run of the check that is going on, if any
  batch,      \* the findings that run has still to yield
  findings,
  errors,     \* the regions in which the check raised
  (* history *)
  seen,       \* what was wrong at some moment
  steady,     \* what was wrong, and could be read, at every moment
  covered,    \* the regions some trail has been recording all along
  refused,    \* the regions in which the call was answered with a denial
  shadowed    \* those where it showed no trail, but one from elsewhere records

account == <<rule, existing, multi, weak, denied, drift, seen, steady, covered>>
vars == <<rule, existing, multi, weak, denied, drift, todo, at, batch, findings,
          errors, seen, steady, covered, refused, shadowed>>

Rule == {"no-trail-configured", "trail-not-multi-region", "log-validation-disabled",
         "logs-not-kms-encrypted"}

ASSUME TrailAssumption ==
  /\ Home \in [Trail -> Region]
  /\ Nowhere \notin Region
  /\ Trail \intersect Region = {}
  /\ Rules \subseteq Rule
  /\ Denials \subseteq SUBSET Region
  /\ MaxDrift \in Nat

-----------------------------------------------------------------------------
(* DescribeTrails with shadow trails: also the multi-region trails whose   *)
(* home is elsewhere.                                                      *)
DescribeWithShadows(r) == {t \in existing : Home[t] = r \/ t \in multi}

(* DescribeTrails(includeShadowTrails=False) *)
Describe(r) == {t \in existing : Home[t] = r}

(* _trails: a denial reads as a region without trails. *)
Trails(r) == IF r \in denied THEN {} ELSE Describe(r)

(* The trails that the three checks about trails report, of those they are *)
(* shown.                                                                  *)
NotMultiRegion(ts) == ts \ multi
NotValidated(ts) == ts \intersect weak
NotEncrypted(ts) == ts \intersect weak

Bad(ts) ==
  CASE rule = "trail-not-multi-region" -> NotMultiRegion(ts)
    [] rule = "log-validation-disabled" -> NotValidated(ts)
    [] OTHER -> NotEncrypted(ts)

(* A finding names the region it was made in, its subject - a trail, or    *)
(* for want of one the region itself - and the region it is labelled with. *)
Subject == Trail \union Region
Finding == [run : Region, about : Subject, region : Region]

InRegion(r) == [run |-> r, about |-> r, region |-> r]

WithoutRegion(r, t) == [run |-> r, about |-> t, region |-> Nowhere]

(* _ref: the label is the trail's HomeRegion. *)
OnTrail(r, t) == [run |-> r, about |-> t, region |-> Home[t]]

(* What run(ctx, r) yields. *)
Reports(r) ==
  IF rule = "no-trail-configured"
  THEN IF Trails(r) = {} THEN {InRegion(r)} ELSE {}
  ELSE {OnTrail(r, t) : t \in Bad(Trails(r))}

(* The regions some trail records, its own or a multi-region one. *)
Recorded == {r \in Region : \E t \in existing : t \in multi \/ Home[t] = r}

(* What there is to report, whatever the principal may read and whatever   *)
(* a call may show: a region is wrong if nothing records it (cloudtrail.py *)
(* 3-6).                                                                   *)
Flawed == IF rule = "no-trail-configured" THEN Region \ Recorded ELSE Bad(existing)

Place(s) == IF s \in Trail THEN Home[s] ELSE s
Plain == {s \in Flawed : Place(s) \notin denied}

Running == at \in Region
Over == todo = {} /\ ~Running

-----------------------------------------------------------------------------
Init ==
  /\ rule \in Rules
  /\ existing \in SUBSET Trail
  /\ multi \in SUBSET existing
  /\ weak \in SUBSET existing
  /\ denied \in Denials
  /\ drift = 0
  /\ todo = Region
  /\ at = Nowhere
  /\ batch = {}
  /\ findings = {}
  /\ errors = {}
  /\ seen = Flawed
  /\ steady = Plain
  /\ covered = Recorded
  /\ refused = {}
  /\ shadowed = {}

(* The call is answered, or denied. *)
Run(r) ==
  /\ ~Running
  /\ r \in todo
  /\ at' = r
  /\ batch' = Reports(r)
  /\ refused' = refused \union ({r} \intersect denied)
  /\ shadowed' = shadowed \union IF Describe(r) = {} THEN {r} \intersect Recorded ELSE {}
  /\ UNCHANGED <<account, todo, findings, errors>>

AnyFailureIsNoTrail(r) ==
  /\ ~Running
  /\ r \in todo
  /\ at' = r
  /\ batch' = IF rule = "no-trail-configured" THEN {InRegion(r)} ELSE {}
  /\ UNCHANGED <<account, todo, findings, errors, refused, shadowed>>

RunSwallowed(r) ==
  /\ ~Running
  /\ r \in todo
  /\ todo' = todo \ {r}
  /\ UNCHANGED <<account, at, batch, findings, errors, refused, shadowed>>

(* Any other failure leaves the check, and is recorded by the scan. *)
RunRaises(r) ==
  /\ ~Running
  /\ r \in todo
  /\ errors' = errors \union {r}
  /\ todo' = todo \ {r}
  /\ UNCHANGED <<account, at, batch, findings, refused, shadowed>>

Yield(f) ==
  /\ f \in batch
  /\ findings' = findings \union {f}
  /\ batch' = batch \ {f}
  /\ UNCHANGED <<account, todo, at, errors, refused, shadowed>>

(* A break where the loop over the trails should go on. *)
ReturnAtOnce ==
  /\ Running
  /\ todo' = todo \ {at}
  /\ at' = Nowhere
  /\ batch' = {}
  /\ UNCHANGED <<account, findings, errors, refused, shadowed>>

RunAgain ==
  /\ Running
  /\ batch = {}
  /\ at' = Nowhere
  /\ UNCHANGED <<account, todo, batch, findings, errors, refused, shadowed>>

Return ==
  /\ Running
  /\ batch = {}
  /\ todo' = todo \ {at}
  /\ at' = Nowhere
  /\ UNCHANGED <<account, batch, findings, errors, refused, shadowed>>

CheckStep ==
  \/ \E r \in Region : Run(r) \/ RunRaises(r)
  \/ \E f \in batch : Yield(f)
  \/ Return

-----------------------------------------------------------------------------
(* Somebody else changes the account meanwhile. *)
Drifts ==
  /\ ~Over
  /\ drift < MaxDrift
  /\ drift' = drift + 1
  /\ UNCHANGED <<rule, todo, at, batch, findings, errors, refused, shadowed>>
  /\ seen' = seen \union Flawed'
  /\ steady' = steady \intersect Plain'
  /\ covered' = covered \intersect Recorded'

DeleteTrail(t) ==
  /\ t \in existing
  /\ existing' = existing \ {t}
  /\ multi' = multi \ {t}
  /\ weak' = weak \ {t}
  /\ UNCHANGED denied
  /\ Drifts

(* A trail is created, or updated, with the settings m and w. *)
PutTrail(t, m, w) ==
  /\ existing' = existing \union {t}
  /\ multi' = IF m THEN multi \union {t} ELSE multi \ {t}
  /\ weak' = IF w THEN weak \union {t} ELSE weak \ {t}
  /\ UNCHANGED denied
  /\ Drifts

Deny(r) ==
  /\ r \notin denied
  /\ denied' = denied \union {r}
  /\ UNCHANGED <<existing, multi, weak>>
  /\ Drifts

Allow(r) ==
  /\ r \in denied
  /\ denied' = denied \ {r}
  /\ UNCHANGED <<existing, multi, weak>>
  /\ Drifts

AccountStep ==
  \/ \E t \in Trail : DeleteTrail(t)
  \/ \E t \in Trail, m, w \in BOOLEAN : PutTrail(t, m, w)
  \/ \E r \in Region : Deny(r) \/ Allow(r)

Next == CheckStep \/ AccountStep

Spec == Init /\ [][Next]_vars

(* As for S3Checks: botocore makes every call answer. *)
FairSpec == Spec /\ WF_vars(CheckStep)

-----------------------------------------------------------------------------
TypeOK ==
  /\ rule \in Rules
  /\ existing \subseteq Trail /\ multi \subseteq existing /\ weak \subseteq existing
  /\ denied \subseteq Region
  /\ drift \in 0 .. MaxDrift
  /\ todo \subseteq Region
  /\ at \in todo \union {Nowhere}
  /\ batch \subseteq Finding /\ findings \subseteq Finding
  /\ ~Running => batch = {}
  /\ errors \subseteq Region /\ covered \subseteq Region
  /\ seen \subseteq Subject /\ steady \subseteq Subject
  /\ refused \subseteq Region /\ shadowed \subseteq Region

(* However many regions are scanned, a trail is reported once, by the run  *)
(* in its home region and under that region's name: that is what leaving   *)
(* out the shadow trails is for (cloudtrail.py 37, 49-56).                 *)
OneReportPerTrail ==
  \A f \in findings \union batch : f.run = Place(f.about) /\ f.region = f.run

(* Where the check for regions without a trail may report one that a trail *)
(* does record: in a region that denied the call (cloudtrail.py 39-40, 75) *)
(* and in one that only a trail from elsewhere records (37).               *)
Misread == IF rule = "no-trail-configured" THEN refused \union shadowed ELSE {}

(* A finding is about something that was wrong at some moment of the scan, *)
(* although the trails may change between the call and the yield - except  *)
(* in the two cases of Misread, which DenialIsNoFinding and                *)
(* CoveredRegionsNotReported say should not be.  The three checks about    *)
(* trails have no exception (cloudtrail.py 75, 125-127, 168-170, 211-213). *)
FindingsJustified == \A f \in findings : f.about \in seen \union Misread

(* What was wrong, and could be read, all along has been reported at the   *)
(* end, unless the check raised in its region.                             *)
SteadyFlawsFound ==
  Over => \A s \in steady : Place(s) \in errors \/ \E f \in findings : f.about = s

(* However the account changes, every region gets its turn. *)
RegionsEnd == <>Over

-----------------------------------------------------------------------------
(* The check in its regions keeps ScanPromise: a job of the scan is the    *)
(* check in one region, and answers for the trails at home there.  What a  *)
(* region is misread for counts as warranted.                              *)
At(subjects, r) == {s \in subjects : Place(s) = r}

Promise == INSTANCE ScanPromise WITH
  Job <- Region,
  Item <- Subject,
  work <- Region,
  owed <- [r \in Region |-> At(steady, r)],
  warranted <- [r \in Region |-> At(seen, r) \union At(Misread, r)],
  delivered <- {<<f.run, f.about>> : f \in findings},
  failed <- errors,
  settled <- Region \ todo,
  verdict <- "running"

(* Over an account that changes meanwhile, a region is settled once, when  *)
(* it has raised or its run has reported all that was wrong and readable   *)
(* there all along; it reports nothing after that; no region waits for     *)
(* another; and what it reports was wrong at some moment - or misread, in  *)
(* the two cases above, of which docs/adr/0004 22-24 allows neither: the   *)
(* runs trails_denied and trails_shadow show them (scanner.py 56-61).      *)
ImplementsPromise == Promise!Spec

-----------------------------------------------------------------------------
(* What cloudtrail.py 3-6 says: a multi-region trail is discoverable from  *)
(* any region, and NoTrailConfigured looks account-wide before it reports. *)
CoveredRegionsNotReported ==
  rule = "no-trail-configured" => \A f \in findings : f.about \notin covered

(* What docs/adr/0004 22-24 and registry.py 51-53 say: a check skips what  *)
(* it cannot read.  A region that denies the call is not reported as one   *)
(* without a trail, unless it is one.                                      *)
DenialIsNoFinding == \A f \in findings : f.about \in refused => f.about \in seen
=============================================================================
