------------------------------- MODULE Scanner -------------------------------
(***************************************************************************)
(* One scan: AwsScanner.scan (scanner.py) as the generator it is, the      *)
(* checks it drives, and Scanner.run of basalt-core, which drives it,      *)
(* collects what it yields and turns an exception that escapes it into     *)
(* ScanResult.metadata.errors.                                             *)
(*                                                                         *)
(* A check's run() is itself a generator.  Here it is only what the scan   *)
(* sees of it: it yields findings, one by one, and then returns - or       *)
(* raises at any moment before that.  What it loses or mistakes on the way *)
(* without raising, the scan does not see; the model keeps a record of it. *)
(* S3Checks, IamKmsChecks and TrailChecks look inside.                     *)
(***************************************************************************)
EXTENDS Integers, Sequences, Functions

CONSTANTS
  Check,           \* check classes, each named by its rule_id
  GlobalCheck,     \* those whose scope is Scope.GLOBAL; the others are REGIONAL
  UnknownRule,     \* rule ids a filter may name that no check has
  Region,
  NoRegion,        \* Python's None where a region may stand
  FallbackRegion,  \* "us-east-1"
  Resource,
  BuildError,      \* stands for the text of an exception out of AwsContext.build
  CheckLists,      \* the lists AwsScanner(checks) may be constructed with
  RegionLists,     \* the regions a ScanContext may carry
  SessionRegions,  \* the regions a session may be configured with, NoRegion for none
  RuleFilters,     \* the rule filters a ScanContext may carry
  Conceivable,     \* the findings there may ever be reason for, or seem to be
  Misreading,      \* checks that may take what they cannot read for a flaw
  MaxDrift         \* how often the account changes during the scan

VARIABLES
  (* what the scan is given; it changes none of it *)
  checks,          \* self._checks
  ruleFilter,      \* ScanContext.rule_filter; empty means every rule
  requested,       \* ScanContext.regions
  sessionRegion,   \* session.region_name
  (* the account *)
  steady,          \* the flaws that have been there all along
  seen,            \* those that have been there at some moment
  drift,           \* changes made so far
  (* the scan's own state *)
  phase,           \* "ready", "scan", "done", "refused" or "interrupted"
  ci, ti,          \* the loop positions: in self._checks and in targets
  errors,          \* the local list errors, as the set of slots it names
  (* what Scanner.run holds *)
  collected,       \* findings received, each with the slot that yielded it
  metaErrors,      \* the slots that metadata.errors names, or BuildError
  (* what happens inside the checks and is not written down anywhere *)
  skipped,         \* flaws passed over, each with the slot that did
  mistaken         \* what a slot took for a flaw

inputs == <<checks, ruleFilter, requested, sessionRegion>>
account == <<steady, seen, drift>>
unsaid == <<skipped, mistaken>>
vars == <<checks, ruleFilter, requested, sessionRegion, steady, seen, drift,
          phase, ci, ti, errors, collected, metaErrors, skipped, mistaken>>

Place == Region \union {NoRegion}

(* A finding is what its fingerprint is derived from: the rule and the     *)
(* resource's URN, which carries the region.                               *)
Finding == [rule : Check, resource : Resource, region : Place]

ASSUME ScannerAssumption ==
  /\ GlobalCheck \subseteq Check
  /\ UnknownRule \intersect Check = {}
  /\ NoRegion \notin Region
  /\ FallbackRegion \in Region
  /\ BuildError \notin Nat \X Nat
  /\ CheckLists \subseteq Seq(Check)
  /\ RegionLists \subseteq Seq(Region)
  /\ SessionRegions \subseteq Place
  /\ RuleFilters \subseteq SUBSET (Check \union UnknownRule)
  /\ Conceivable \subseteq Finding
  /\ Misreading \subseteq Check
  /\ MaxDrift \in Nat

-----------------------------------------------------------------------------
(* ctx.regions: what was asked for, else the session's region, else        *)
(* us-east-1.                                                              *)
CtxRegions ==
  IF requested # <<>> THEN requested
  ELSE IF sessionRegion # NoRegion THEN <<sessionRegion>>
  ELSE <<FallbackRegion>>

Selects(c) == ruleFilter = {} \/ c \in ruleFilter

RegionalEverywhere(c) == CtxRegions

Targets(c) == IF c \in GlobalCheck THEN <<NoRegion>> ELSE CtxRegions

(* The flaws, of those given, that run(ctx, region) of check c is to yield *)
(* a finding for.  A global check ignores its region argument: its         *)
(* findings carry the region of the resource they are about.               *)
Answers(c, region, given) ==
  {f \in given : f.rule = c /\ (c \in GlobalCheck \/ f.region = region)}

(* A slot <<i, j>> is one call of run(): the i-th check at its j-th target. *)
Slots ==
  UNION {{<<i, j>> : j \in DOMAIN Targets(checks[i])} :
           i \in {k \in DOMAIN checks : Selects(checks[k])}}

Target(s) == Targets(checks[s[1]])[s[2]]
Of(pairs, s) == {f \in Conceivable : <<s, f>> \in pairs}

(* What a slot has to yield before it may return: what has been wrong all  *)
(* along and was not passed over.  And what it may yield: what has been    *)
(* wrong at some moment, or was taken to be.                               *)
Owed(s) == Answers(checks[s[1]], Target(s), steady \ Of(skipped, s))
Warranted(s) == Answers(checks[s[1]], Target(s), seen \union Of(mistaken, s))

(* The call of run() the scan is in. *)
Running ==
  /\ phase = "scan"
  /\ ci <= Len(checks)
  /\ Selects(checks[ci])
  /\ ti <= Len(Targets(checks[ci]))

-----------------------------------------------------------------------------
Init ==
  /\ checks \in CheckLists
  /\ ruleFilter \in RuleFilters
  /\ requested \in RegionLists
  /\ sessionRegion \in SessionRegions
  /\ steady \in SUBSET Conceivable
  /\ seen = steady
  /\ drift = 0
  /\ phase = "ready"
  /\ ci = 1 /\ ti = 1
  /\ errors = {}
  /\ collected = {}
  /\ metaErrors = {}
  /\ skipped = {} /\ mistaken = {}

(* The first next() on the generator: AwsContext.build succeeds. *)
Build ==
  /\ phase = "ready"
  /\ phase' = "scan"
  /\ UNCHANGED <<inputs, account, unsaid, ci, ti, errors, collected, metaErrors>>

(* AwsContext.build raises - AwsAccessError if sts:GetCallerIdentity fails, *)
(* a botocore error if the session or the client cannot be made - and      *)
(* Scanner.run records it like any other exception out of scan().          *)
BuildFails ==
  /\ phase = "ready"
  /\ phase' = "done"
  /\ metaErrors' = {BuildError}
  /\ UNCHANGED <<inputs, account, unsaid, ci, ti, errors, collected>>

(* Or, if basalt-core makes an exception of AwsAccessError, as cli.py 69   *)
(* takes it to, lets it through to the caller, and there is no result.     *)
BuildEscapes ==
  /\ phase = "ready"
  /\ phase' = "refused"
  /\ UNCHANGED <<inputs, account, unsaid, ci, ti, errors, collected, metaErrors>>

(* `yield from` hands one finding through to Scanner.run. *)
YieldFinding(f) ==
  /\ Running
  /\ f \in Warranted(<<ci, ti>>)
  /\ <<<<ci, ti>>, f>> \notin collected \union skipped
  /\ collected' = collected \union {<<<<ci, ti>>, f>>}
  /\ UNCHANGED <<inputs, account, unsaid, phase, ci, ti, errors, metaErrors>>

(* The check cannot read what the flaw is about, for want of a permission   *)
(* or because a BotoCoreError is swallowed, and goes on without a word.    *)
PassOver(f) ==
  /\ Running
  /\ f \in Owed(<<ci, ti>>)
  /\ <<<<ci, ti>>, f>> \notin collected
  /\ skipped' = skipped \union {<<<<ci, ti>>, f>>}
  /\ UNCHANGED <<inputs, account, phase, ci, ti, errors, collected, metaErrors, mistaken>>

(* The check takes what it cannot read for a flaw. *)
Mistake(f) ==
  /\ Running
  /\ checks[ci] \in Misreading
  /\ f \in Answers(checks[ci], Target(<<ci, ti>>), Conceivable) \ Warranted(<<ci, ti>>)
  /\ mistaken' = mistaken \union {<<<<ci, ti>>, f>>}
  /\ UNCHANGED <<inputs, account, phase, ci, ti, errors, collected, metaErrors, skipped>>

CheckReturns ==
  /\ Running
  /\ \A f \in Owed(<<ci, ti>>) : <<<<ci, ti>>, f>> \in collected
  /\ ti' = ti + 1
  /\ UNCHANGED <<inputs, account, unsaid, phase, ci, errors, collected, metaErrors>>

BreakOutOfRegions ==
  /\ Running
  /\ errors' = errors \union {<<ci, ti>>}
  /\ ti' = Len(Targets(checks[ci])) + 1
  /\ UNCHANGED <<inputs, account, unsaid, phase, ci, collected, metaErrors>>

RestartTheCheck ==
  /\ Running
  /\ errors' = errors \union {<<ci, ti>>}
  /\ ti' = 1
  /\ UNCHANGED <<inputs, account, unsaid, phase, ci, collected, metaErrors>>

(* `except Exception` inside the region loop. *)
CheckRaises ==
  /\ Running
  /\ errors' = errors \union {<<ci, ti>>}
  /\ ti' = ti + 1
  /\ UNCHANGED <<inputs, account, unsaid, phase, ci, collected, metaErrors>>

KeepTheTarget ==
  /\ phase = "scan"
  /\ ci <= Len(checks)
  /\ Selects(checks[ci]) => ti > Len(Targets(checks[ci]))
  /\ ci' = ci + 1
  /\ UNCHANGED <<inputs, account, unsaid, phase, ti, errors, collected, metaErrors>>

(* The check is not selected, or its targets are used up. *)
NextCheck ==
  /\ phase = "scan"
  /\ ci <= Len(checks)
  /\ Selects(checks[ci]) => ti > Len(Targets(checks[ci]))
  /\ ci' = ci + 1
  /\ ti' = 1
  /\ UNCHANGED <<inputs, account, unsaid, phase, errors, collected, metaErrors>>

FinishQuietly ==
  /\ phase = "scan"
  /\ ci > Len(checks)
  /\ phase' = "done"
  /\ metaErrors' = {}
  /\ UNCHANGED <<inputs, account, unsaid, ci, ti, errors, collected>>

(* `if errors: raise RuntimeError("; ".join(errors))`, which Scanner.run    *)
(* captures; without errors the generator is simply exhausted.             *)
Finish ==
  /\ phase = "scan"
  /\ ci > Len(checks)
  /\ phase' = "done"
  /\ metaErrors' = errors
  /\ UNCHANGED <<inputs, account, unsaid, ci, ti, errors, collected>>

(* KeyboardInterrupt is no Exception: neither the scan nor the run catches *)
(* it, and there is no result.                                             *)
Interrupt ==
  /\ phase \in {"ready", "scan"}
  /\ phase' = "interrupted"
  /\ UNCHANGED <<inputs, account, unsaid, ci, ti, errors, collected, metaErrors>>

(* Meanwhile somebody mends a flaw, or makes one. *)
Drifts ==
  /\ phase \in {"ready", "scan"}
  /\ drift < MaxDrift
  /\ drift' = drift + 1
  /\ UNCHANGED <<inputs, unsaid, phase, ci, ti, errors, collected, metaErrors>>

Mend(f) ==
  /\ f \in steady
  /\ steady' = steady \ {f}
  /\ UNCHANGED seen
  /\ Drifts

Break(f) ==
  /\ f \in Conceivable \ seen
  /\ seen' = seen \union {f}
  /\ UNCHANGED steady
  /\ Drifts

Progress ==
  \/ Build
  \/ BuildFails
  \/ BuildEscapes
  \/ \E f \in Conceivable : YieldFinding(f) \/ PassOver(f) \/ Mistake(f)
  \/ CheckReturns
  \/ CheckRaises
  \/ NextCheck
  \/ Finish

AccountStep == \E f \in Conceivable : Mend(f) \/ Break(f)

Next == Progress \/ Interrupt \/ AccountStep

Spec == Init /\ [][Next]_vars

-----------------------------------------------------------------------------
(* The slots the loops have left behind. *)
Settled == {s \in Slots : s[1] < ci \/ (s[1] = ci /\ s[2] < ti)}

TypeOK ==
  /\ checks \in CheckLists
  /\ ruleFilter \in RuleFilters
  /\ requested \in RegionLists
  /\ sessionRegion \in SessionRegions
  /\ steady \subseteq seen /\ seen \subseteq Conceivable
  /\ drift \in 0 .. MaxDrift
  /\ phase \in {"ready", "scan", "done", "refused", "interrupted"}
  /\ ci \in 1 .. Len(checks) + 1
  /\ ti \in Nat \ {0}
  /\ ci <= Len(checks) => ti <= Len(Targets(checks[ci])) + 1
  /\ errors \subseteq Slots
  /\ collected \subseteq Slots \X Conceivable
  /\ skipped \subseteq Slots \X Conceivable /\ mistaken \subseteq Slots \X Conceivable
  /\ metaErrors \subseteq Slots \union {BuildError}

(* The books of a scan.  A slot is in errors only once it is behind the    *)
(* scan, and one that is behind it and not in errors has yielded all that  *)
(* was wrong there all along, but for what it passed over; findings come   *)
(* only from there and from the call that is running; and metadata.errors  *)
(* is written at the very end, when no slot is left - or by a run that has *)
(* not scanned at all (scanner.py 45-66).                                  *)
Bookkeeping ==
  /\ errors \subseteq Settled
  /\ \A s \in Settled \ errors : \A f \in Owed(s) : <<s, f>> \in collected
  /\ \A e \in collected : e[1] \in Settled \union {<<ci, ti>>} /\ e[2] \in Warranted(e[1])
  /\ phase \in {"ready", "refused"} => ci = 1 /\ ti = 1 /\ collected = {}
  /\ phase \in {"ready", "scan", "refused"} => metaErrors = {}
  /\ phase = "done" => \/ metaErrors = {BuildError} /\ collected = {} /\ Settled = {}
                       \/ metaErrors = errors /\ Settled = Slots

(* The scan was asked about the flaw: its rule is among the checks and     *)
(* passes the filter, and either the check covers the whole account or the *)
(* flaw lies in one of the scan's regions.                                 *)
InScope(f) ==
  /\ f.rule \in Range(checks)
  /\ Selects(f.rule)
  /\ f.rule \in GlobalCheck \/ f.region \in Range(CtxRegions)

(* A message in metadata.errors names the rule and, for a regional check,  *)
(* the region that was lost.                                               *)
Explained(f) ==
  \E s \in metaErrors : checks[s[1]] = f.rule /\ Target(s) \in {NoRegion, f.region}

(* Some call of the check passed the flaw over. *)
Overlooked(f) == \E s \in Slots : <<s, f>> \in skipped

(* A scan that could authenticate and ran to its end has reported every    *)
(* flaw it was asked about and that was there all along, except where      *)
(* metadata.errors says which check, in which region, did not finish - or  *)
(* the check itself passed it over, which is said nowhere (see             *)
(* AccessFailuresRecorded).  A check that breaks in one region silences    *)
(* neither the other regions nor the other checks (scanner.py 53-66).      *)
FlawsReportedOrExplained ==
  phase = "done" /\ BuildError \notin metaErrors =>
    \A f \in steady : InScope(f) =>
      (\E s \in Slots : <<s, f>> \in collected) \/ Explained(f) \/ Overlooked(f)

(* No flaw is reported twice, however many regions are scanned: a global   *)
(* check runs once (scanner.py 55) and a regional one reports what is in   *)
(* its own region.  Only a caller who names a region or a check twice can  *)
(* make the scan count twice - neither scanner.py nor client.py removes    *)
(* duplicates.                                                             *)
NoInflatedCounts ==
  IsInjective(requested) /\ IsInjective(checks) =>
    \A e1, e2 \in collected : e1[2] = e2[2] => e1 = e2

(* What registry.py says: a check skips what it cannot read, and "the      *)
(* scanner records access failures in scan metadata" (51-53).              *)
AccessFailuresRecorded ==
  phase = "done" => \A e \in skipped : e[1] \in metaErrors

-----------------------------------------------------------------------------
(* The scan keeps ScanPromise.  Its jobs are the slots; the loop variables *)
(* stand for the set of jobs that are settled.                             *)
VerdictNow ==
  CASE phase \in {"ready", "scan"} -> "running"
    [] phase = "interrupted" -> "abandoned"
    [] phase = "refused" \/ BuildError \in metaErrors -> "refused"
    [] phase = "done" /\ metaErrors = {} -> "clean"
    [] OTHER -> "partial"

Promise == INSTANCE ScanPromise WITH
  Job <- Nat \X Nat,
  Item <- Finding,
  work <- Slots,
  owed <- [s \in Slots |-> Owed(s)],
  warranted <- [s \in Slots |-> Warranted(s)],
  delivered <- collected,
  failed <- errors,
  settled <- Settled,
  verdict <- VerdictNow

(* The loops of scanner.py implement the promise of docs/adr/0004: failing *)
(* slots are contained, nothing is settled before it has delivered or      *)
(* failed, and the run is called clean only if no slot failed - whatever   *)
(* happens to the account, and whatever the checks lose or mistake.        *)
ImplementsPromise == Promise!Spec

=============================================================================
