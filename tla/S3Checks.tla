------------------------------ MODULE S3Checks -------------------------------
(***************************************************************************)
(* One run of one S3 check (checks/s3.py) over an account that others keep *)
(* changing.  The six checks share a shape: list the buckets, then for     *)
(* each one make one call that reads the aspect of it the check is about,  *)
(* and go on, or report the bucket after asking for its region, or give up *)
(* with an exception.  They differ in what each does with each answer, and *)
(* that is the table at the top.                                           *)
(***************************************************************************)
EXTENDS Integers, FiniteSets

CONSTANTS
  Bucket,
  Region,
  FallbackRegion,   \* "us-east-1"
  NoRegion,         \* a missing LocationConstraint
  Home,             \* the region each bucket lives in
  Listing,          \* the call ListBuckets, where a bucket may stand
  Rules,            \* the checks considered
  MaxDrift          \* how often the account changes during the run

VARIABLES
  (* the account *)
  rule,             \* the check that runs
  buckets,          \* the buckets that exist
  setting,          \* the aspect of each bucket the check reads
  denied,           \* the calls the principal may not make
  drift,            \* changes made so far
  (* the check *)
  pc,               \* "list", "next", "label", "returned" or "raised"
  todo,             \* the buckets listed and not yet dealt with
  cur,              \* the bucket to be reported, once there is one
  findings,
  (* history *)
  seenFlawed,       \* buckets that had the defect at some moment of the run
  steady,           \* buckets that had it, and could be read, at every one
  broken            \* calls that failed, with how

account == <<rule, buckets, setting, denied, drift, seenFlawed>>
vars == <<rule, buckets, setting, denied, drift, pc, todo, cur, findings,
          seenFlawed, steady, broken>>

Rule == {"public-acl", "public-policy", "block-public-access-disabled",
         "encryption-disabled", "versioning-disabled", "tls-not-enforced"}

(* What the reading call may answer: the aspect is as it should be, is not, *)
(* or is not configured at all (an error code of its own); the principal is *)
(* denied; the bucket is gone; S3 fails in another way (any other           *)
(* ClientError), or cannot be reached (a BotoCoreError).                    *)
Setting == {"good", "bad", "unset"}
Failure == {"gone", "fault", "lost"}
Answer == Setting \union {"denied"} \union Failure

ASSUME S3Assumption ==
  /\ Rules \subseteq Rule
  /\ FallbackRegion \in Region
  /\ NoRegion \notin Region
  /\ Home \in [Bucket -> Region]
  /\ Listing \notin Bucket
  /\ MaxDrift \in Nat

-----------------------------------------------------------------------------
(* What each check does with each answer: "flag" it reports, "pass" it     *)
(* skips, at anything else it raises.                                      *)
AclDenialRaises == [flag |-> {"bad"}, pass |-> {"good"}]

BucketPublicAcl == [flag |-> {"bad"}, pass |-> {"good", "denied"}]

BucketPublicPolicy ==
  [flag |-> {"bad"}, pass |-> {"good", "unset", "gone", "denied", "lost"}]

(* No configuration is read as {}, in which all four settings are off. *)
BlockPublicAccessDisabled ==
  [flag |-> {"bad", "unset"}, pass |-> {"good", "denied", "lost"}]

EncryptionDenialFlagged ==
  [flag |-> {"unset", "denied"}, pass |-> {"good", "lost"}]

BucketEncryptionDisabled ==
  [flag |-> {"unset"}, pass |-> {"good", "denied", "lost"}]

VersioningFaultSkipped == [flag |-> {"bad"}, pass |-> {"good", "denied", "fault"}]

BucketVersioningDisabled == [flag |-> {"bad"}, pass |-> {"good", "denied"}]

TlsDenialFlagged ==
  [flag |-> {"bad", "unset", "gone", "denied"}, pass |-> {"good", "lost"}]

(* A bucket without a policy is examined as one with an empty policy, and  *)
(* so is a bucket that is gone.                                            *)
BucketTlsNotEnforced ==
  [flag |-> {"bad", "unset", "gone"}, pass |-> {"good", "denied", "lost"}]

Verdict ==
  CASE rule = "public-acl" -> BucketPublicAcl
    [] rule = "public-policy" -> BucketPublicPolicy
    [] rule = "block-public-access-disabled" -> BlockPublicAccessDisabled
    [] rule = "encryption-disabled" -> BucketEncryptionDisabled
    [] rule = "versioning-disabled" -> BucketVersioningDisabled
    [] rule = "tls-not-enforced" -> BucketTlsNotEnforced

(* Which settings a bucket can have: an ACL and a versioning status are    *)
(* always there to be read (a status that was never set is simply not      *)
(* "Enabled"), and an encryption configuration, if there is one, is good.  *)
Settings(r) ==
  CASE r \in {"public-acl", "versioning-disabled"} -> {"good", "bad"}
    [] r = "encryption-disabled" -> {"good", "unset"}
    [] OTHER -> Setting

(* What the checks are for, by their descriptions: the settings that are   *)
(* the defect.                                                             *)
Defect(r) ==
  CASE r \in {"public-acl", "public-policy", "versioning-disabled"} -> {"bad"}
    [] r = "encryption-disabled" -> {"unset"}
    [] OTHER -> {"bad", "unset"}

Flawed == {b \in buckets : setting[b] \in Defect(rule)}

Over == pc \in {"returned", "raised"}

-----------------------------------------------------------------------------
Init ==
  /\ rule \in Rules
  /\ buckets \in SUBSET Bucket
  /\ setting \in [Bucket -> Settings(rule)]
  /\ denied \in SUBSET (Bucket \union {Listing})
  /\ drift = 0
  /\ pc = "list"
  /\ todo = {}
  /\ cur = Listing
  /\ findings = {}
  /\ seenFlawed = Flawed
  /\ steady = Flawed \ denied
  /\ broken = {}

(* _buckets *)
ListBuckets ==
  /\ pc = "list"
  /\ Listing \notin denied
  /\ todo' = buckets
  /\ pc' = "next"
  /\ UNCHANGED <<account, cur, findings, steady, broken>>

(* is_access_denied: the check goes through an empty list and returns.  An *)
(* account that cannot be listed is promised nothing.                      *)
ListDenied ==
  /\ pc = "list"
  /\ Listing \in denied
  /\ pc' = "returned"
  /\ steady' = {}
  /\ UNCHANGED <<account, todo, cur, findings, broken>>

ListFails(a) ==
  /\ pc = "list"
  /\ broken' = broken \union {<<Listing, a>>}
  /\ pc' = "raised"
  /\ UNCHANGED <<account, todo, cur, findings, steady>>

(* What S3 may answer about the bucket now. *)
Answers(b) ==
  {"fault", "lost"} \union
    (IF b \notin buckets THEN {"gone"}
     ELSE IF b \in denied THEN {"denied"} ELSE {setting[b]})

(* The failures among the answers are remembered. *)
Remember(b, a) == broken' = IF a \in Failure THEN broken \union {<<b, a>>} ELSE broken

ReadFlags(b) ==
  /\ pc = "next"
  /\ b \in todo
  /\ \E a \in Answers(b) \intersect Verdict.flag : Remember(b, a)
  /\ cur' = b
  /\ pc' = "label"
  /\ UNCHANGED <<account, todo, findings, steady>>

ReadBreaks(b) ==
  /\ pc = "next"
  /\ b \in todo
  /\ \E a \in Answers(b) \intersect Verdict.pass : Remember(b, a)
  /\ todo' = {}
  /\ UNCHANGED <<account, pc, cur, findings, steady>>

ReadPasses(b) ==
  /\ pc = "next"
  /\ b \in todo
  /\ \E a \in Answers(b) \intersect Verdict.pass : Remember(b, a)
  /\ todo' = todo \ {b}
  /\ UNCHANGED <<account, pc, cur, findings, steady>>

ReadRaises(b) ==
  /\ pc = "next"
  /\ b \in todo
  /\ \E a \in Answers(b) \ (Verdict.flag \union Verdict.pass) : Remember(b, a)
  /\ pc' = "raised"
  /\ UNCHANGED <<account, todo, cur, findings, steady>>

(* LocationConstraint is absent for a bucket in us-east-1. *)
LocationConstraint(b) == IF Home[b] = FallbackRegion THEN NoRegion ELSE Home[b]

RawRegion(b) ==
  (IF b \in buckets THEN {LocationConstraint(b)} ELSE {}) \union {FallbackRegion}

(* _bucket_region: what the call says, with us-east-1 for none; and        *)
(* us-east-1 again if the call fails, for whatever reason.                 *)
BucketRegion(b) ==
  (IF b \in buckets
   THEN {IF LocationConstraint(b) # NoRegion THEN LocationConstraint(b) ELSE FallbackRegion}
   ELSE {})
  \union {FallbackRegion}

ReportAgain ==
  /\ pc = "label"
  /\ \E r \in BucketRegion(cur) :
       findings' = findings \union {[bucket |-> cur, region |-> r]}
  /\ pc' = "next"
  /\ UNCHANGED <<account, todo, cur, steady, broken>>

(* _ref and the yield *)
Report ==
  /\ pc = "label"
  /\ \E r \in BucketRegion(cur) :
       findings' = findings \union {[bucket |-> cur, region |-> r]}
  /\ todo' = todo \ {cur}
  /\ pc' = "next"
  /\ UNCHANGED <<account, cur, steady, broken>>

Return ==
  /\ pc = "next"
  /\ todo = {}
  /\ pc' = "returned"
  /\ UNCHANGED <<account, todo, cur, findings, steady, broken>>

CheckStep ==
  \/ ListBuckets
  \/ ListDenied
  \/ \E a \in {"fault", "lost"} : ListFails(a)
  \/ \E b \in Bucket : ReadFlags(b) \/ ReadPasses(b) \/ ReadRaises(b)
  \/ Report
  \/ Return

-----------------------------------------------------------------------------
(* Somebody else changes the account while the check runs. *)
Drifts ==
  /\ ~Over
  /\ drift < MaxDrift
  /\ drift' = drift + 1
  /\ UNCHANGED <<rule, pc, todo, cur, findings, broken>>
  /\ seenFlawed' = seenFlawed \union Flawed'
  /\ steady' = steady \intersect (Flawed' \ denied')

DeleteBucket(b) ==
  /\ b \in buckets
  /\ buckets' = buckets \ {b}
  /\ UNCHANGED <<setting, denied>>
  /\ Drifts

CreateBucket(b, s) ==
  /\ b \notin buckets
  /\ buckets' = buckets \union {b}
  /\ setting' = [setting EXCEPT ![b] = s]
  /\ UNCHANGED denied
  /\ Drifts

Reconfigure(b, s) ==
  /\ b \in buckets
  /\ setting[b] # s
  /\ setting' = [setting EXCEPT ![b] = s]
  /\ UNCHANGED <<buckets, denied>>
  /\ Drifts

Deny(c) ==
  /\ c \notin denied
  /\ denied' = denied \union {c}
  /\ UNCHANGED <<buckets, setting>>
  /\ Drifts

Allow(c) ==
  /\ c \in denied
  /\ denied' = denied \ {c}
  /\ UNCHANGED <<buckets, setting>>
  /\ Drifts

AccountStep ==
  \/ \E b \in Bucket : DeleteBucket(b)
  \/ \E b \in Bucket, s \in Settings(rule) : CreateBucket(b, s) \/ Reconfigure(b, s)
  \/ \E c \in Bucket \union {Listing} : Deny(c) \/ Allow(c)

Next == CheckStep \/ AccountStep

Spec == Init /\ [][Next]_vars

(* botocore's connect and read timeouts and its bounded retries            *)
(* (client.py 29-34) make every call answer, one way or the other.         *)
FairSpec == Spec /\ WF_vars(CheckStep)

-----------------------------------------------------------------------------
TypeOK ==
  /\ rule \in Rules
  /\ buckets \subseteq Bucket
  /\ setting \in [Bucket -> Settings(rule)]
  /\ denied \subseteq Bucket \union {Listing}
  /\ drift \in 0 .. MaxDrift
  /\ pc \in {"list", "next", "label", "returned", "raised"}
  /\ todo \subseteq Bucket
  /\ cur \in Bucket \union {Listing}
  /\ pc = "label" => cur \in todo
  /\ findings \subseteq [bucket : Bucket, region : Region]
  /\ seenFlawed \subseteq Bucket
  /\ steady \subseteq Bucket
  /\ broken \subseteq (Bucket \union {Listing}) \X Failure

(* A finding is about a bucket that had the defect at some moment of the   *)
(* run, however the account changed between the listing, the reading and   *)
(* the labelling - or, from the TLS check alone, about one that was gone   *)
(* when it was read.                                                       *)
FindingsJustified ==
  \A f \in findings :
    \/ f.bucket \in seenFlawed
    \/ rule = "tls-not-enforced" /\ <<f.bucket, "gone">> \in broken

(* A check that returns has reported every bucket that had the defect, and *)
(* could be read, all along: neither a denial met at another bucket nor    *)
(* the deletion of one costs it (docs/adr/0004).  It may have lost the     *)
(* bucket to a connection error.                                           *)
SteadyFlawsFound ==
  pc = "returned" =>
    \A b \in steady : (\E f \in findings : f.bucket = b) \/ <<b, "lost">> \in broken

(* A denial never ends a check: if it raises, some call failed in another  *)
(* way.                                                                    *)
DenialNeverRaises == pc = "raised" => broken # {}

(* What a check swallows without a word: a connection error, in the four   *)
(* checks that say `except BotoCoreError: continue`, and in the two that   *)
(* read the policy a bucket that is gone.  Any other failure ends the      *)
(* check, so that the scan hears of it.                                    *)
Swallowed == {<<r, "lost">> : r \in Rule \ {"public-acl", "versioning-disabled"}}
               \union {<<"public-policy", "gone">>, <<"tls-not-enforced", "gone">>}

FaultsEndTheCheck ==
  pc = "returned" => \A c \in broken : <<rule, c[2]>> \in Swallowed

(* However the account changes, the check ends. *)
CheckEnds == <>Over

-----------------------------------------------------------------------------
(* A run of a check keeps CheckPromise, with the exceptions its properties *)
(* name: a bucket lost to a connection error is no longer owed, and to the *)
(* TLS check one that is gone is warranted.                                *)
Lost == {b \in Bucket : <<rule, "lost">> \in Swallowed /\ <<b, "lost">> \in broken}
Gone == {b \in Bucket : rule = "tls-not-enforced" /\ <<b, "gone">> \in broken}

Promise == INSTANCE CheckPromise WITH
  Item <- Bucket,
  owed <- steady \ Lost,
  warranted <- seenFlawed \union Gone,
  delivered <- {f.bucket : f \in findings},
  verdict <- IF Over THEN pc ELSE "running"

(* Every step of a check is one that a check may take (registry.py 71-72): *)
(* it delivers a bucket at a time, and none after it has returned or       *)
(* raised; it never takes one back; and at each moment, not just when the  *)
(* run is over, it has delivered nothing that was not yet warranted.       *)
ImplementsCheckPromise == Promise!Spec

-----------------------------------------------------------------------------
(* What registry.py says of run(): a finding is about a resource that      *)
(* fails the check.                                                        *)
OnlyFailingBuckets == \A f \in findings : f.bucket \in seenFlawed
=============================================================================
