# basalt-aws in TLA+

A model of the basalt-aws posture scanner: TLA+ modules translated from the
source under `src/basalt_aws`, TLC configurations that check them on small
instances, and theorems that TLAPS proves for every instance. Paths below are
relative to the repository's root; `basalt_core` is a dependency and not part of
it, and is modelled only from how this code uses it.

## The system

| component | state it keeps | operations | what makes it correct |
|---|---|---|---|
| **Scan orchestration** `scanner.py`: `AwsScanner.scan`, a generator driven by `basalt_core.Scanner.run` | loop positions, `errors` | build a context, select checks, run each at its targets, catch, raise once at the end | a check that breaks costs only its own slot; nothing is lost without a message; nothing is counted twice; it ends |
| **Context** `client.py`: `AwsContext`, `is_access_denied` | session, regions, options, client cache | `build`, `client`, `paginate`, `arn` | one client per (service, region); all pages; denials told apart from faults |
| **Registry** `registry.py` | `CHECKS` | `register`, `get_check`, `checks_for_service` | every rule id once, none empty |
| **S3 checks** `checks/s3.py` (6, global) | the listing, the position in it | list, read one aspect per bucket, look up the region, yield | findings justified by the account, steady defects found, denials skipped, faults raised |
| **IAM checks** `checks/iam.py` (6, global) | pages of users or policies, position | list, one or two calls per user, per key, per policy | as for S3, and key age at the boundary |
| **CloudTrail checks** `checks/cloudtrail.py` (4, regional) | none | describe the trails of a region | a trail that covers a region is seen from it |
| **KMS check** `checks/kms.py` (1, regional) | pages of keys, position | list, describe, filter, read the rotation status | as for S3 |
| **Policy predicates** in `s3.py`, `iam.py` | none | three pure functions of a policy document | agree with what the checks' descriptions say |
| **Command line** `cli.py` | exit status | parse the arguments, `scan`, `checks`, `permissions` | the exit status and stderr tell a gate what happened |
| **Terraform, CI, packaging** | none | static | the role grants what the scanner calls |

**Interactions.** Everything is one thread. `Scanner.run` pulls findings out of
`scan()`, `scan()` out of each `check.run()`; a check calls AWS through the
context's clients. Control comes back in three ways: a finding, the end of the
generator, an exception. What is concurrent is the *account*: other principals
create, delete and reconfigure resources and permissions between any two calls,
and each call may answer, be denied, or fail.

**What is hard.** A check breaking half-way through its findings, in one of
several regions; global and regional checks mixed; a resource that is gone or
has changed between the listing and the read, or between the read and the
region lookup; a denial in the middle of a list; a connection error; permissions
changing during the scan. `PROJECT.json` lists each of these under "hazards" at
the line where it bites, with the properties that watch it.

## Modules

Specifications of what is promised, and the modules that implement them:

```
   Cli  --runs a-->  Scanner  --implements-->  ScanPromise
                        |                       ^   ^
                        | run()     one job of  |   | a job per region
                        v                       |   |
   S3Checks, IamKmsChecks  --implement-->  CheckPromise
   TrailChecks (a regional check under  ------------+
                the scan's region loop)
   Decisions   (what the checks decide about one thing they have read)
```

| module | models | checked by | proofs in |
|---|---|---|---|
| `ScanPromise` | abstract: what a scan promises over an account that may change, as jobs that are settled one by one (`docs/adr/0004`) | `cli`, `trails` | itself |
| `CheckPromise` | abstract: what one run of a check promises the scan, over an account that may change (`registry.py` 48-72) | `s3_checks`, `iam_kms` | itself |
| `Scanner` | `AwsScanner.scan` under `Scanner.run`, every step of the generator | `MCCli`, in the command that runs it | `ScannerProofs` |
| `S3Checks` | one run of one of the six S3 checks over a changing account | `MCS3Checks`: `S3Checks*.cfg` | `S3Proofs` |
| `IamKmsChecks` | one run of one of the six IAM checks or of the KMS check | `MCIamKmsChecks`: `IamKms*.cfg` | `IamKmsProofs` |
| `TrailChecks` | one of the four CloudTrail checks, run region after region | `MCTrailChecks`: `Trails*.cfg` | `TrailProofs` |
| `Decisions` | the three policy predicates, and the loop over a user's keys | `MCDecisions`: `Decisions.cfg` | `DecisionsProofs` |
| `Cli` | registration and the `scan` command, around `Scanner` | `MCCli`: `Cli*.cfg` | `CliProofs` |

Some modules hold variants of an action or of a table entry that `Next` does
not use (`BreakOutOfRegions`, `ReturnAtOnce`, `ErrorsExitTwo`, `StrictMfa`,
...). They are the plausible mistakes each property was tried against; `PROJECT.json` lists them
under "mutants".

### Scanner

The state is the generator's: `ci` and `ti` are the positions of the two loops
(`scanner.py` 53, 56), `errors` the local list, as the set of slots its messages
name. A *slot* `<<i, j>>` is one call of `run()`: the i-th check at its j-th
target. `collected` and `metaErrors` are what `Scanner.run` holds: the findings
received and the content of `metadata.errors`. The inputs - checks, rule filter,
requested and session regions - are chosen in `Init` and never change. The
account does: `seen` are the flaws there have been, `steady` those that have
been there all along.

| action | code |
|---|---|
| `Build`, `BuildFails` | `AwsContext.build` (`client.py` 81-120), called at `scanner.py` 46 |
| `BuildEscapes` | the same, if `basalt_core` lets an `AwsAccessError` through, as `cli.py` 69 expects |
| `YieldFinding` | one finding through `yield from` (58) |
| `PassOver`, `Mistake` | a check goes on without what it cannot read, or takes it for a flaw, and nothing leaves `run()` (`s3.py` 94-98, `cloudtrail.py` 38-40) |
| `CheckReturns`, `CheckRaises` | the end of `run()`, normal or by an exception (56-61) |
| `NextCheck` | the outer loop, unselected checks passed over (50-55) |
| `Finish` | the final `raise RuntimeError`, or exhaustion (63-66) |
| `Interrupt` | `KeyboardInterrupt`, which `except Exception` does not catch |
| `Mend`, `Break` | other principals (external) |

A check may raise at any moment before it returns, also after some of its
findings. It returns when it has yielded what it *owes*: what was wrong all
along and was not passed over. Nothing in the program tells the scan what a
check passes over or mistakes; `skipped` and `mistaken` are history variables
that remember it, so that the properties can say where the loss goes.
Only checks in `Misreading` mistake anything: the TLS check for a bucket that is
gone, `NoTrailConfigured` for a region it cannot read or that another records.

`basalt_core` is not part of the repository, and the repository says two things
about it: `scanner.py` 41-43 and the tests that `Scanner.run` records whatever
leaves `scan()`, `cli.py` 69-71 that an `AwsAccessError` reaches the caller. Both
are in the model, as `BuildFails` and `BuildEscapes`.

### CheckPromise

Three sets, of items a check may deliver: what it *owes* (wrong, and readable,
all along), what is *warranted* (wrong at some moment), and what it has
delivered. The account shrinks the first and grows the second; a check delivers
only what is warranted, and returns only when nothing is owed any more.
`S3Checks` and `IamKmsChecks` implement it, with their history variables in the
place of the first two.

`ScanPromise` has the same three for each of the scan's jobs. A check that keeps
`CheckPromise` is one such job, whatever happens to the account
(`CheckIsAJob`). In `Scanner` a check owes and may yield by the same rules, with
`Owed` and `Warranted` in the place of the two sets: what it passes over leaves
the first (in the check modules, a denial or a swallowed failure does), what it
mistakes enters the second.

### S3Checks

The six checks have one shape and differ in what they do with each answer, so
each is a record of the answers it reports (`flag`) and those it skips (`pass`);
at any other it raises. `Verdict` picks the record of the check that runs. The
answers are: the aspect is `good`, `bad` or not configured (`unset`, an error
code of its own); `denied`, by `is_access_denied`; `gone` (NoSuchBucket);
`fault`, any other ClientError; `lost`, a BotoCoreError.

| action | code |
|---|---|
| `ListBuckets`, `ListDenied`, `ListFails` | `_buckets` (50-56) |
| `ReadFlags`, `ReadPasses`, `ReadRaises` | the read in the loop of `run`, to the yield, to `continue`, or out |
| `Report` | `_ref` with `_bucket_region` (58-73), and the yield |
| `Return` | the end of the loop |
| `DeleteBucket`, `CreateBucket`, `Reconfigure`, `Deny`, `Allow` | other principals, between any two steps (external) |

Three history variables serve the properties only: `seenFlawed` (buckets that
had the defect at some moment of the run), `steady` (those that had it and could
be read at every moment) and `broken` (the calls that failed, with how).

The order in which buckets come out of the listing is left open. What a policy
says is abstracted to `good` or `bad`; how the code decides that is in
`Decisions`. A recreated bucket keeps its region.

### IamKmsChecks

The seven checks list their resources page by page (users, policies, keys - or
nothing, for the three checks about the account itself), may ask with a call of
its own whether the check *applies* to a resource (a login profile, `iam.py`
148; `describe_key`, `kms.py` 49), then *look*, and report each faulty *part*:
one of two access keys of a user, a version of a policy, a setting. `gate` and
`faulty` are the account's parts the check applies to, and the faulty ones;
`noted` is what the check has found out of the first, `pending` of the second.
A policy's default version is noted at the listing and read later, so that it
may have changed or gone by then. A policy the check does not apply to is
detached, and then missing from the listing (`MayBeMissing`, 294), or listed
without a default version and skipped (`SkipUnversioned`, 297-299); it may be
attached or detached between any two steps.

| action | code |
|---|---|
| `ListPage` | one page of `paginate` (`client.py` 137-148), whose marker is the last name of the page |
| `ListPassedOver`, `ListRaises` | a listing that fails; only the KMS check takes a denial for the end |
| `Take`, `SkipUnversioned` | the loop over the resources |
| `GatePassed`, `LookedAt` | the two calls, answered |
| `CallPassedOver`, `CallRaises` | the `except` branches: `continue`, or out; `PassesOver` is the table per check |
| `Yield`, `NextResource`, `Return` | the yields, and the ends of the loops |
| `Delete`, `Create`, `Reconfigure`, `Deny`, `Allow` | other principals (external) |

### TrailChecks

A regional check runs once in each region (`todo`, in any order; `at` is the
run going on), with one DescribeTrails call and then one yield per trail
(`batch`). The loop over the regions is `scanner.py` 56-61, with its `except`
branch (`RunRaises`). `Describe` leaves out the shadow trails, `Trails` takes a
denial for an empty list, `Reports` is what each `run` yields. What is *wrong*
(`Flawed`) does not depend on what a call shows: a region is wrong if no trail
records it, its own or a multi-region one of another region. `covered`,
`refused` and `shadowed` are history variables: the regions recorded all along,
those that denied the call, and those that showed it no trail although one from
elsewhere records them.

As it has the region loop itself, `TrailChecks` implements `ScanPromise`
directly, with a job for each region: `steady` and `seen`, each divided among
the regions by where a trail is at home, are what is owed and what is warranted.
The regions in `refused` and `shadowed` may be reported as regions without a
trail though they have one; in the refinement they count as warranted
(`Misread`), since the code does report them, and two violation runs say that it
should not.

### Decisions

The predicates `_policy_is_public`, `_denies_insecure_transport` and
`_grants_full_admin` are loops over statements (`Continue`, `ReturnTrue`) with
one test each (`PublicAllow`, `TlsDeny`, `AdminAllow`). They are compared with
what a policy *means*: a request is covered by statements, or is not
(`Covers`). A statement is reduced to what either tells apart: who, whether
there are conditions and whether one is about plaintext in a spelling the code
knows, actions, resources. The fourth loop is `AccessKeyStale` over a user's
keys: the cutoff is fixed when the check starts, the age is computed at each
key, and time passes between them while findings are consumed (`Wait`).

### Cli

`Cli` extends `Scanner`: a step is a step of the command, or one of the scan
(`ScanStep`). `CHECKS` is the registry, filled class by class at import;
`stage` is where `main` and `_cmd_scan` are; `result`, `output`, `stderr` and
`exit` are what they have in hand and have said. Whether argparse takes the
arguments is an input (`accepted`).

| action | code |
|---|---|
| `Register`, `RegisterRejects`, `Imported` | `registry.register` (126-143), as `checks/__init__.py` imports the modules |
| `ParseAccepts`, `ParseRejects` | `parse_args` (187-188): go on, or exit with 2 |
| `Filtered`, in `CliInit` | the comprehension over `CHECKS` (62): the n-th check of the result is where the n-th check is that the service filter lets through |
| `NoChecksMatch`, `StartScan` | `cli.py` 62-68 |
| `NotAuthenticated` | 69-71: an `AwsAccessError` out of `run()`, status 2 |
| `ScanReturns` | 68-74, with `deduplicate` (`basalt_core`): of the findings with one fingerprint, one |
| `Write`, `WriteFails` | 76-82 |
| `Report` | 84-92, the errors on stderr |
| `Gate` | 94-100 |
| `ScanInterrupted` | an interrupt goes through the command |

## What the runs check

| run | shows | bounds, and why they are enough |
|---|---|---|
| `s3_checks` | `TypeOK`; `FindingsJustified`; `SteadyFlawsFound`; `DenialNeverRaises`; `FaultsEndTheCheck`; `CheckEnds`; `ImplementsCheckPromise` | two buckets, at home in us-east-1 and elsewhere, each of the six checks, every initial setting and permission, two changes (`MaxDrift`) at any moments: a bucket can be deleted and recreated, fixed and broken again, or both buckets changed, around any call. Two buckets are enough for one to be affected by what happens to the other |
| `iam_kms` | the same properties, with `DenialsContained` (a denial ends a check only in the six places of `EndsAtDenial`) in place of `DenialNeverRaises` | two resources (`N`) of two parts, so one or two pages, and a resource created or deleted behind or before the marker; at the start no permission missing, or the listing, or a call about the first resource; two changes at any moments: enough to change both readings a finding rests on, or to take a permission and give it back |
| `trails` | `TypeOK`; `OneReportPerTrail`; `FindingsJustified`; `SteadyFlawsFound`; `RegionsEnd`; `ImplementsPromise`: the refinement of `ScanPromise` | two regions with a trail at home in each, every check, all initial settings and denials, two changes: a region can have its own trail, be recorded from the other, or not at all. Two trails of one region differ from two of two regions only in coming in one batch; the theorems are for any number |
| `decisions` | `TypeOK`; `YesIsRight` and `NoIsRight`: the predicates agree with the meaning of a policy; `StaleKeysFound`: which keys are reported, with which age, however long the findings are consumed | documents of up to two statements, so that one can stand before or after the decisive one, or be needed with another; up to two keys created an hour to either side of 0, 1 and 2 days (thresholds) and at them; pauses of 1 and 24 hours up to hour 26 (`LastHour`), so that a key passes a threshold while another is reported |
| `cli` | of the scan in the command: `TypeOK`; `Bookkeeping`, the inductive invariant; `FlawsReportedOrExplained`: every steady flaw in scope is reported, or its check and region are named in `metadata.errors`, or its check passed it over; `NoInflatedCounts`: no flaw twice if regions and checks are distinct; `ImplementsPromise`: the refinement of `ScanPromise`. Of the command: `CliTypeOK`; `PassIsExplained`: what a passing gate does not answer for; `StatusMeans`: what status 1 and status 2 say; `DocumentCounts`: the document drops no finding, counts none twice, and without an error on stderr lacks no steady flaw but those a check passed over; `CommandEnds` | packages with a global and a regional check, with the former alone, with one class declared twice, with a malformed one; arguments taken and rejected; every service filter, a rule filter (which also names an unknown rule) or none, every threshold, with and without deduplication; no region, two, one twice; every subset of two flaws of different severity, one of which comes or goes (`MaxDrift`); a scan that breaks, loses or mistakes something at any step. So a slot before and after a broken one, in the same check and in another, occur, and a broken region before one with a flaw, which is all the loops can tell apart |
| `s3_phantom`, `iam_denied`, `trails_shadow`, `trails_denied`, `cli_silent`, `cli_auth`, `decisions_age` | violated, see below | the same instances, restricted to the check in question and, where it suffices, to an account nobody touches |

Deadlock is not checked: a scan, a check or a command that is over stops.

**Fairness.** The liveness properties assume weak fairness of the program's own
steps taken together (`FairSpec`), and in `Cli` of the command's steps and of
the scan's in it. It is one thread that waits for nothing but AWS calls, and
those answer or fail within botocore's timeouts and bounded retries
(`client.py` 29-34). Nothing is assumed of the account, which may change or
not, and a scan may always be killed.

### Where the code and its documents disagree

- `s3_phantom`: `BucketTlsNotEnforced` treats NoSuchBucket as "no policy"
  (`s3.py` 419) and reports a bucket deleted since the listing, although its
  policy may have enforced TLS. `registry.py` 72: "Yield a finding for each
  resource that fails this check."
- `cli_silent`: what a check is denied, or swallows, leaves nothing in
  `metadata.errors`, and so nothing on stderr: the scan hears only of what leaves
  `run()`. `registry.py` 52: "the scanner records access failures in scan
  metadata"; the mitigation of `docs/adr/0004` (39) rests on it. Four S3 checks
  swallow a BotoCoreError as well (`s3.py` 179, 243, 303, 421), which is not even
  an access failure; `docs/adr/0004` 26: "Failures that are not authorisation
  problems are collected across the whole scan and raised once at the end".
- `iam_denied`: `list_mfa_devices` (`iam.py` 158) is outside the `try`, so a
  denial there ends the check. `registry.py` 51: checks "should skip resources
  they cannot read rather than raise"; `docs/adr/0004` says the same.
- `trails_shadow`: shadow trails are left out (`cloudtrail.py` 37), so a region
  recorded by another region's multi-region trail is reported as one without.
  `cloudtrail.py` 4: "a multi-region trail is discoverable from any region,
  which is why :class:`NoTrailConfigured` looks account-wide before reporting".
- `trails_denied`: a denied DescribeTrails is taken for an empty list
  (`cloudtrail.py` 40), so that a region with a trail is reported as one without.
  `registry.py` 51 and `docs/adr/0004` 22: checks skip what they cannot read.
- `cli_auth`: `AwsAccessError` leaves the generator, where `Scanner.run` records
  it like any other exception (`scanner.py` 41-43, `tests/test_scanner.py`
  136-151), and the command ends with status 0. `cli.py` 69-71 answers "could
  not authenticate to AWS" with status 2. In the trace `BuildFails` is the step
  that rests on what the repository says of `basalt_core`; if it let this one
  exception through (`BuildEscapes`), there would be no disagreement here.
- `decisions_age`: a key in its day `max_age` is reported (`iam.py` 222), with
  an observed age of `max_age` days. `iam.py` 235: "exceeding the {max_age} day
  rotation threshold"; 241: expected "<= {max_age}".

### What the properties except

A property that holds names, in its formula, where the code does less than one
might expect. Collected here:

- What a check passes over at a denial or a swallowed failure
  (`Overlooked` in `FlawsReportedOrExplained`, `PassIsExplained` and
  `DocumentCounts`): `cli_silent` shows that nothing is said about it. A
  clean stderr does not mean that the document is complete.
- A bucket lost to a connection error in one of the four checks that swallow it
  (`Swallowed`, `Lost`, and `SteadyFlawsFound` of `S3Checks`).
- What a check mistakes (`mistaken`, in `DocumentCounts`): `s3_phantom`,
  `trails_denied` and `trails_shadow` show how.
- A scan that could not authenticate and was recorded (`BuildError` in
  `PassIsExplained`): `cli_auth`.
- Status 1 is also Python's status for an uncaught exception, as when the
  output cannot be written (`StatusMeans`). Status 2 is also argparse's.
- Denied listings of users and policies and a denied account summary end their
  checks; a denied KMS or S3 listing returns quietly (`EndsAtDenial`,
  `SteadyFlawsFound`).
- A region that denied DescribeTrails, or that only a trail of another region
  records, is reported as one without trails (`Misread` in `FindingsJustified`
  and `ImplementsPromise` of `TrailChecks`).
- The region of an S3 finding is us-east-1 whenever the location call fails
  (`s3.py` 63), although it goes into the URN and the fingerprint, and
  `tests/test_s3.py` 43 expects the bucket's own. No property of a run speaks of
  it; the theorem `SpecLabelledHomeOrFallback` says that it is no third region.
- Readings that a finding of `IamKmsChecks` rests on were each true when they
  were made, in that order, and perhaps never together (`FindingsJustified`).
- A user who is gone when the login profile is read counts as one without
  console access (`FaultsEndTheCheck` of `IamKmsChecks`).
- A wildcard principal in a list with others is not recognised; a Deny of
  plaintext counts whoever and whatever it covers; conditions on a grant of
  everything are not looked at; Deny statements are not weighed against an
  Allow (`IsPlain`, `Meaning`).
- A key in its day `max_age` may be reported or not, as `StaleKeysFound` has it;
  `decisions_age` is about that day.
- A repeated region or check doubles counts in the scan (`IsInjective` in
  `NoInflatedCounts`); in the document only without `--dedupe`
  (`DocumentCounts`).

## What is proved

For all values of the constants that satisfy the named assumptions (types of
the parameters; in `S3Assumption` that us-east-1 is a region; in
`ScannerAssumption` that unknown rules are not checks; in `CliAssumption` that
what a service filter leaves of a package is a list the scan may be given), any
number of checks, regions, resources, statements, keys and changes:

- **Scanner** (`ScannerProofs`). `TypeOK` and `Bookkeeping` are inductive
  together. `Bookkeeping` is needed because the property that matters speaks of
  the last state only: it says of *every* state that a slot the loops have left
  behind is in `errors` or has reported what it owes. At the end no slot is left
  (`LoopsEnd`), which gives `FlawsReportedOrExplained`. `NoInflatedCounts`
  follows because a finding determines its slot. `SpecImplementsPromise` maps
  jobs to slots and the settled jobs to those behind the loops; `SlotEnds` and
  `CheckEnds` say how one step moves them.
- **ScanPromise**. What follows from the abstract specification alone, and so
  for everything that implements it: the promise at the end
  (`SpecKeepsPromise`), its half that does not wait for the end or for the other
  jobs (`SpecSettledHaveDelivered`), and that nothing said is revised
  (`SpecFinal`). `PromiseInv` holds them up. `Scanner` and `Cli` inherit the
  first (`ScanKeepsPromise`, `CommandImplementsPromise`), `TrailChecks` the
  second (`RegionsKeepPromise`).
- **CheckPromise**. `SpecKeepsPromise`; `CheckIsAJob`, the link from checks to
  the scan. `S3Checks` and `IamKmsChecks` inherit both (`CheckKeepsPromise`,
  `CheckIsAJobOfAScan`).
- **S3Checks** (`S3Proofs`). `Table` compares the six records with what the
  checks are for: a setting is reported exactly if it is the defect and never
  ends a check, a denial is skipped, and the failures swallowed are those in
  `Swallowed`. `S3Inv` adds the case `SteadyFlawsFound` needs while the loop
  runs: a steadily flawed bucket is still to be read, or reported, or lost.
  `SpecImplementsCheckPromise` follows step by step from `S3Inv`. Beside it,
  how wrong a label can be: `SpecLabelledHomeOrFallback`.
- **IamKmsChecks** (`IamKmsProofs`). `FindingsJustified` speaks of findings,
  but a finding is made in three steps, so `Read` follows a part through them:
  what is noted did apply, what is pending was faulty after that.
  `SteadyFlawsFound` speaks of the end, so `Reached` says where a steadily
  flawed part can be: behind the marker, listed, noted, pending, reported.
  `Reasons` does the same for the two properties about failures. Together they
  give `SpecImplementsCheckPromise`.
- **TrailChecks** (`TrailProofs`). `OneReportPerTrail`, `FindingsJustified`
  (extended to findings not yet yielded), `SteadyFlawsFound` (`Accounted`: a
  flaw's region raised, or has run, or is still to come). `Regionwise` keeps
  these apart while one region is under way, and with it
  `SpecImplementsPromise`: a change of the account, and a denied call, are
  changes of what is owed and warranted (`ChangeImplements`); each step of the
  check delivers, settles or fails the one region at hand.
- **Decisions** (`DecisionsProofs`). `YesIsRight`, `NoIsRight`,
  `StaleKeysFound`, for documents and key lists of any length: the loops pass
  only indecisive statements (`PassedHolds`), one decisive statement means what
  the predicate says (`DecisiveMeans`), and without one a single request shows
  the contrary (`NoneDecisiveMeans`). Time only makes keys older
  (`AgeIsNoLess`).
- **Cli** (`CliProofs`). `CommandRunsAScan`: a behaviour of the command is one
  of `Scanner`, so everything proved of a scan holds inside it.
  `PassIsExplained` and `StatusMeans` follow from it and from `Stages`, which
  follows what the scan found through the stages after it. `DocumentCounts`
  needs the other end too: `Registered` follows the classes through the
  registry, in which none is twice, and `FilteredIs` says what the service
  filter makes of a list - it keeps it free of duplicates and has the checks of
  the services asked for, all of them and no others. Its lemma `NthIs` counts
  the places kept, by injections between finite sets, where an induction over
  the list would be out of the provers' reach. `FindingsAreInScope` is the
  scan's part in it.
- **Why the loops end**. For each liveness property, its safety half: a natural
  number that every step of the program lowers and no change of the account
  raises. `SpecStepsRunOut` in `ScannerProofs` (findings not yielded, passed over
  or mistaken, slots not settled, checks not passed, changes to come),
  `S3Proofs` (two calls for each bucket left), `IamKmsProofs` (pages to come, then six steps for each resource left),
  `TrailProofs` (a run's steps for each region left, the batch at hand);
  `CliSpecStepsRunOut` adds the classes and the stages. They assume that the
  account is finite - buckets, trails, regions, the flaws that are conceivable -
  and in the check modules nothing of how often it changes: the numbers there do
  not mention `MaxDrift`.

Every safety property of a passing run, refinements included, is stated by one
of these theorems. Only model-checked: that the program never gets stuck before
it is over, which together with the above makes the liveness properties
(liveness under fairness is out of the prover's reach, like anything with
ENABLED); and that the seven violations occur. No module declares a RECURSIVE
operator.

## What is not modelled

- **The client cache and `arn`** (`client.py` 122-135, 150-152). One thread
  uses the cache and nothing observes whether a client is new, so a model of it
  would say nothing; `arn` is formatting. Hence `AwsContext` is "partly".
- **`get_check`, `checks_for_service`, the commands `checks` and
  `permissions`**: they change no state.
- **`examples/scan_local.py`**: prints the findings of a scan of a mocked
  account.
- **Terraform, CI, packaging**: static. The role's statements
  (`terraform/main.tf` 59-78) and `cli.REQUIRED_PERMISSIONS` name the same
  twenty calls, compared by hand.
- Wording of findings, evidence and remediation, risk scores, emitters and
  control catalogues (formatting, or `basalt_core`); botocore's retries (only
  their outcome is visible here); which of several settings makes a password
  policy weak, and which condition takes a KMS key out of scope; the trail
  without an ARN.
- In `TrailChecks`, a region the scan is asked about twice (`Scanner` and `Cli`
  have it, with what it does to counts), and rules that share a run.
- In `Cli`, which arguments argparse rejects, `--help` and `--version`, and a
  `KeyboardInterrupt` outside the scan.
- What a scan of several checks loses to *one* withdrawn permission: in
  `Scanner` each check passes over what it passes over, independently of the
  others; which call was denied is in the check modules.
