---------------------------- MODULE IamKmsChecks ----------------------------
(***************************************************************************)
(* One run of one IAM check (checks/iam.py) or of the KMS check            *)
(* (checks/kms.py) over an account that others keep changing.  All seven   *)
(* have one shape: list the resources page by page (three of them examine  *)
(* the account itself and list nothing), then for each one ask whether the *)
(* check applies to it (two of them make a call of its own for that), look *)
(* at what it is about, and yield a finding for each faulty part.          *)
(***************************************************************************)
EXTENDS Integers

CONSTANTS
  N,          \* the names a listing can give are 1 .. N, and come in that order
  Rules,      \* the checks considered
  Denials,    \* what the principal may be denied when the run starts
  MaxDrift    \* how often the account changes during the run

VARIABLES
  (* the account *)
  rule,       \* the check that runs
  existing,   \* the resources that exist
  gate,       \* the parts of each resource the check applies to
  faulty,     \* the parts that are not as they should be
  denied,     \* the calls the principal may not make
  drift,      \* changes made so far
  (* the check *)
  pc,         \* "list", "next", "gate", "look", "yield", "returned", "raised"
  marker,     \* the last name on the pages fetched so far
  todo,       \* the resources listed and not yet dealt with
  noted,      \* the parts of each resource the check found to apply to
  cur,        \* the resource at hand
  pending,    \* its faulty parts, read and not yet reported
  findings,
  (* history *)
  half,       \* parts the check applied to at some moment of the run
  whole,      \* and that were faulty at that moment or at a later one
  steady,     \* parts that were both, and could be read, at every moment
  met         \* calls that were denied or failed, with how

account == <<rule, existing, gate, faulty, denied, drift, half, whole, steady>>
vars == <<rule, existing, gate, faulty, denied, drift, pc, marker, todo, noted,
          cur, pending, findings, half, whole, steady, met>>

Resource == 1 .. N

AccountRules == {"root-mfa-missing", "root-access-key-present", "password-policy-weak"}
GateRules == {"user-mfa-missing", "key-rotation-disabled"}
Rule == AccountRules \union GateRules \union {"access-key-stale", "admin-policy-attached"}

(* The parts of a resource: a user's two access keys, the versions of a    *)
(* policy; of the password policy, that it is short (1) or absent (2);     *)
(* otherwise part 1 stands for the whole.                                  *)
Part == {1, 2}
Item == Resource \X Part

Failure == {"gone", "fault", "lost"}
Call == {<<"list", 0>>} \union ({"gate", "look"} \X Resource)

ASSUME IamKmsAssumption ==
  /\ N \in Nat \ {0}
  /\ Rules \subseteq Rule
  /\ Denials \subseteq SUBSET Call
  /\ MaxDrift \in Nat

-----------------------------------------------------------------------------
(* The answers each check passes over, to go on with the next resource; at *)
(* any other but "yes" it raises.  A KMS listing that is denied ends the   *)
(* check quietly.                                                          *)
RootSummary == [list |-> {}, gate |-> {}, look |-> {}]

StrictMfa == [list |-> {}, gate |-> {"no", "gone"}, look |-> {}]

(* NoSuchEntity: a user who cannot use the console - or who is gone. *)
UserMfaMissing == [list |-> {}, gate |-> {"no", "gone", "denied"}, look |-> {}]

KeysLost == [list |-> {}, gate |-> {}, look |-> {"denied", "lost"}]

AccessKeyStale == [list |-> {}, gate |-> {}, look |-> {"denied"}]

AdminPolicyAttached == [list |-> {}, gate |-> {}, look |-> {"denied"}]

PasswordPolicyWeak == [list |-> {}, gate |-> {}, look |-> {"denied"}]

KeyRotationDisabled == [list |-> {"denied"}, gate |-> {"no", "denied"}, look |-> {"denied"}]

PassesOver ==
  CASE rule \in {"root-mfa-missing", "root-access-key-present"} -> RootSummary
    [] rule = "user-mfa-missing" -> UserMfaMissing
    [] rule = "access-key-stale" -> AccessKeyStale
    [] rule = "admin-policy-attached" -> AdminPolicyAttached
    [] rule = "password-policy-weak" -> PasswordPolicyWeak
    [] rule = "key-rotation-disabled" -> KeyRotationDisabled

(* What a check applies to: a user with a login profile; an enabled,       *)
(* symmetric, customer-managed key with material of AWS; the default       *)
(* version of a policy that is attached, if the listing names it; both     *)
(* keys of a user; the account.                                            *)
Gates(r) ==
  CASE r \in GateRules -> {{}, {1}}
    [] r = "admin-policy-attached" -> {{}, {1}, {2}}
    [] OTHER -> {Part}

(* What can be wrong: no MFA device, no rotation; an active key created    *)
(* before the cutoff, a version that grants everything; the settings of    *)
(* the account.                                                            *)
Faults(r) ==
  CASE r \in {"access-key-stale", "admin-policy-attached"} -> SUBSET Part
    [] r = "password-policy-weak" -> {{}, {1}, {2}}
    [] OTHER -> {{}, {1}}

(* A resource that does not exist has no parts. *)
Shape == \A r \in Resource :
  IF r \in existing THEN gate[r] \in Gates(rule) ELSE gate[r] = {} /\ faulty[r] = {}

Applies == {x \in Item : x[2] \in gate[x[1]]}
Faulty == {x \in Item : x[2] \in faulty[x[1]]}

Readable(r) == denied \intersect {<<"list", 0>>, <<"gate", r>>, <<"look", r>>} = {}
Plain == {x \in Applies \intersect Faulty : Readable(x[1])}

Over == pc \in {"returned", "raised"}

-----------------------------------------------------------------------------
Init ==
  /\ rule \in Rules
  /\ existing \in IF rule \in AccountRules THEN {{1}} ELSE SUBSET Resource
  /\ gate \in [Resource -> Gates(rule) \union {{}}]
  /\ faulty \in [Resource -> Faults(rule)]
  /\ Shape
  /\ denied \in Denials
  /\ drift = 0
  /\ pc = IF rule \in AccountRules THEN "next" ELSE "list"
  /\ marker = 0
  /\ todo = IF rule \in AccountRules THEN {1} ELSE {}
  /\ noted = [r \in Resource |-> IF rule \in AccountRules THEN Part ELSE {}]
  /\ cur = 1
  /\ pending = {}
  /\ findings = {}
  /\ half = Applies
  /\ whole = Applies \intersect Faulty
  /\ steady = Plain
  /\ met = {}

LastPageOnly(m) ==
  /\ pc = "list"
  /\ marker < m
  /\ <<"list", 0>> \notin denied
  /\ todo' = {r \in existing : marker < r /\ r <= m}
  /\ noted' = [r \in Resource |-> gate[r]]
  /\ marker' = m
  /\ pc' = IF m = N THEN "next" ELSE "list"
  /\ UNCHANGED <<account, cur, pending, findings, met>>

(* Only attached policies are listed: one that the check does not apply to *)
(* may be missing, or it is there without a default version.               *)
MayBeMissing ==
  {r \in existing : rule = "admin-policy-attached" /\ gate[r] = {}}

(* client.paginate fetches every page before the check looks at any; a     *)
(* page goes on after the last name of the one before.  The listing of     *)
(* policies says which version of each is the default.                     *)
ListPage(m) ==
  /\ pc = "list"
  /\ marker < m
  /\ <<"list", 0>> \notin denied
  /\ \E missing \in SUBSET MayBeMissing :
       LET page == {r \in existing \ missing : marker < r /\ r <= m}
       IN /\ todo' = todo \union page
          /\ noted' = [r \in Resource |->
               IF r \in page /\ rule \notin GateRules THEN gate[r] ELSE noted[r]]
  /\ marker' = m
  /\ pc' = IF m = N THEN "next" ELSE "list"
  /\ UNCHANGED <<account, cur, pending, findings, met>>

ListAnswers == {"fault", "lost"} \union IF <<"list", 0>> \in denied THEN {"denied"} ELSE {}

ListPassedOver ==
  /\ pc = "list"
  /\ \E a \in ListAnswers \intersect PassesOver.list :
       met' = met \union {<<"list", 0, a>>}
  /\ pc' = "returned"
  /\ UNCHANGED <<account, marker, todo, noted, cur, pending, findings>>

ListRaises ==
  /\ pc = "list"
  /\ \E a \in ListAnswers \ PassesOver.list : met' = met \union {<<"list", 0, a>>}
  /\ pc' = "raised"
  /\ UNCHANGED <<account, marker, todo, noted, cur, pending, findings>>

Unversioned(r) == rule = "admin-policy-attached" /\ noted[r] = {}

(* `if not version_id: continue`. *)
SkipUnversioned(r) ==
  /\ pc = "next"
  /\ r \in todo
  /\ Unversioned(r)
  /\ todo' = todo \ {r}
  /\ UNCHANGED <<account, pc, marker, noted, cur, pending, findings, met>>

Take(r) ==
  /\ pc = "next"
  /\ r \in todo
  /\ ~Unversioned(r)
  /\ cur' = r
  /\ pc' = IF rule \in GateRules THEN "gate" ELSE "look"
  /\ UNCHANGED <<account, marker, todo, noted, pending, findings, met>>

(* What AWS may answer now.  The version of a policy that was the default  *)
(* may be deleted once it no longer is.  A policy that is no longer        *)
(* attached can still be read.                                             *)
Answers ==
  {"fault", "lost"} \union
    (IF cur \notin existing THEN {"gone"}
     ELSE IF <<pc, cur>> \in denied THEN {"denied"}
     ELSE IF pc = "gate" /\ gate[cur] = {} THEN {"no"}
     ELSE {"yes"} \union
       IF rule = "admin-policy-attached" /\ noted[cur] # gate[cur] THEN {"gone"} ELSE {})

Remember(a) == met' = IF a = "no" THEN met ELSE met \union {<<pc, cur, a>>}

GatePassed ==
  /\ pc = "gate"
  /\ "yes" \in Answers
  /\ noted' = [noted EXCEPT ![cur] = gate[cur]]
  /\ pc' = "look"
  /\ UNCHANGED <<account, marker, todo, cur, pending, findings, met>>

LookedAtAllParts ==
  /\ pc = "look"
  /\ "yes" \in Answers
  /\ pending' = faulty[cur]
  /\ pc' = "yield"
  /\ UNCHANGED <<account, marker, todo, noted, cur, findings, met>>

LookedAt ==
  /\ pc = "look"
  /\ "yes" \in Answers
  /\ pending' = faulty[cur] \intersect noted[cur]
  /\ pc' = "yield"
  /\ UNCHANGED <<account, marker, todo, noted, cur, findings, met>>

CallPassedOverForGood ==
  /\ pc \in {"gate", "look"}
  /\ \E a \in Answers \intersect PassesOver[pc] : Remember(a)
  /\ pc' = "returned"
  /\ UNCHANGED <<account, marker, todo, noted, cur, pending, findings>>

CallPassedOver ==
  /\ pc \in {"gate", "look"}
  /\ \E a \in Answers \intersect PassesOver[pc] : Remember(a)
  /\ todo' = todo \ {cur}
  /\ pc' = "next"
  /\ UNCHANGED <<account, marker, noted, cur, pending, findings>>

CallRaises ==
  /\ pc \in {"gate", "look"}
  /\ \E a \in Answers \ (PassesOver[pc] \union {"yes"}) : Remember(a)
  /\ pc' = "raised"
  /\ UNCHANGED <<account, marker, todo, noted, cur, pending, findings>>

Yield(p) ==
  /\ pc = "yield"
  /\ p \in pending
  /\ findings' = findings \union {<<cur, p>>}
  /\ pending' = pending \ {p}
  /\ UNCHANGED <<account, pc, marker, todo, noted, cur, met>>

StillYielding ==
  /\ pc = "yield"
  /\ pending = {}
  /\ todo' = todo \ {cur}
  /\ UNCHANGED <<account, pc, marker, noted, cur, pending, findings, met>>

SameResource ==
  /\ pc = "yield"
  /\ pending = {}
  /\ pc' = "next"
  /\ UNCHANGED <<account, marker, todo, noted, cur, pending, findings, met>>

NextResource ==
  /\ pc = "yield"
  /\ pending = {}
  /\ todo' = todo \ {cur}
  /\ pc' = "next"
  /\ UNCHANGED <<account, marker, noted, cur, pending, findings, met>>

Return ==
  /\ pc = "next"
  /\ todo = {}
  /\ pc' = "returned"
  /\ UNCHANGED <<account, marker, todo, noted, cur, pending, findings, met>>

CheckStep ==
  \/ \E m \in Resource : ListPage(m)
  \/ ListPassedOver
  \/ ListRaises
  \/ \E r \in Resource : SkipUnversioned(r) \/ Take(r)
  \/ GatePassed
  \/ LookedAt
  \/ CallPassedOver
  \/ CallRaises
  \/ \E p \in Part : Yield(p)
  \/ NextResource
  \/ Return

-----------------------------------------------------------------------------
(* Somebody else changes the account while the check runs. *)
Drifts ==
  /\ ~Over
  /\ drift < MaxDrift
  /\ drift' = drift + 1
  /\ UNCHANGED <<rule, pc, marker, todo, noted, cur, pending, findings, met>>
  /\ half' = half \union Applies'
  /\ whole' = whole \union (half' \intersect Faulty')
  /\ steady' = steady \intersect Plain'

Delete(r) ==
  /\ rule \notin AccountRules
  /\ r \in existing
  /\ existing' = existing \ {r}
  /\ gate' = [gate EXCEPT ![r] = {}]
  /\ faulty' = [faulty EXCEPT ![r] = {}]
  /\ UNCHANGED denied
  /\ Drifts

Create(r, g, f) ==
  /\ r \notin existing
  /\ rule \notin AccountRules
  /\ existing' = existing \union {r}
  /\ gate' = [gate EXCEPT ![r] = g]
  /\ faulty' = [faulty EXCEPT ![r] = f]
  /\ UNCHANGED denied
  /\ Drifts

(* A login profile, a device, a key, a default version, a setting is       *)
(* changed, a policy is attached or detached - or several at once: a KMS   *)
(* key whose deletion is scheduled is no longer enabled and no longer      *)
(* rotates.  The document of a policy version never changes.               *)
Reconfigure(r, g, f) ==
  /\ r \in existing
  /\ g # gate[r] \/ f # faulty[r]
  /\ rule = "admin-policy-attached" => f = faulty[r]
  /\ gate' = [gate EXCEPT ![r] = g]
  /\ faulty' = [faulty EXCEPT ![r] = f]
  /\ UNCHANGED <<existing, denied>>
  /\ Drifts

Deny(c) ==
  /\ c \notin denied
  /\ denied' = denied \union {c}
  /\ UNCHANGED <<existing, gate, faulty>>
  /\ Drifts

Allow(c) ==
  /\ c \in denied
  /\ denied' = denied \ {c}
  /\ UNCHANGED <<existing, gate, faulty>>
  /\ Drifts

AccountStep ==
  \/ \E r \in Resource : Delete(r)
  \/ \E r \in Resource, g \in Gates(rule), f \in Faults(rule) :
       Create(r, g, f) \/ Reconfigure(r, g, f)
  \/ \E c \in Call : Deny(c) \/ Allow(c)

Next == CheckStep \/ AccountStep

Spec == Init /\ [][Next]_vars

(* As for S3Checks: botocore makes every call answer. *)
FairSpec == Spec /\ WF_vars(CheckStep)

-----------------------------------------------------------------------------
TypeOK ==
  /\ rule \in Rules
  /\ existing \subseteq Resource
  /\ gate \in [Resource -> Gates(rule) \union {{}}]
  /\ faulty \in [Resource -> Faults(rule)]
  /\ Shape
  /\ denied \subseteq Call
  /\ drift \in 0 .. MaxDrift
  /\ pc \in {"list", "next", "gate", "look", "yield", "returned", "raised"}
  /\ marker \in 0 .. N
  /\ todo \subseteq Resource
  /\ noted \in [Resource -> SUBSET Part]
  /\ cur \in Resource
  /\ pc \in {"gate", "look", "yield"} => cur \in todo
  /\ pending \subseteq Part
  /\ findings \subseteq Item
  /\ half \subseteq Item /\ whole \subseteq Item /\ steady \subseteq Item
  /\ met \subseteq {"list", "gate", "look"} \X (0 .. N) \X (Failure \union {"denied"})

(* A finding rests on readings made at different moments - the listing of  *)
(* a policy and its document, a login profile and the devices, a key's     *)
(* state and its rotation.  Each was true when it was made, in that order  *)
(* (iam.py 145-181, 203-255, 292-340; kms.py 48-97).  That they were true  *)
(* together is more than the code promises.                                *)
FindingsJustified == findings \subseteq whole

(* A check that returns has reported everything that was wrong, and could  *)
(* be read, all along: no page, no key of a user, no resource after one    *)
(* that was denied or deleted is lost (client.py 137-148).                 *)
SteadyFlawsFound == pc = "returned" => steady \subseteq findings

(* Where a denial ends the check although others are merely skipped: the   *)
(* IAM listings, the account summary, and list_mfa_devices, which stands   *)
(* outside the try block (iam.py 158).                                     *)
EndsAtDenial ==
  {<<"root-mfa-missing", "look">>, <<"root-access-key-present", "look">>,
   <<"user-mfa-missing", "look">>, <<"user-mfa-missing", "list">>,
   <<"access-key-stale", "list">>, <<"admin-policy-attached", "list">>}

(* A check raises only at a failure, or at a denial in one of these.       *)
DenialsContained ==
  pc = "raised" =>
    \E c \in met : c[3] \in Failure \/ <<rule, c[1]>> \in EndsAtDenial

(* A failure is never swallowed - the scan hears of it - with one          *)
(* exception: a user who is gone when the login profile is read.           *)
FaultsEndTheCheck ==
  pc = "returned" =>
    \A c \in met : \/ c[3] = "denied"
                   \/ rule = "user-mfa-missing" /\ c[1] = "gate" /\ c[3] = "gone"

(* However the account changes, the check ends. *)
CheckEnds == <>Over

-----------------------------------------------------------------------------
(* A run of a check keeps CheckPromise, without exceptions: what is wrong  *)
(* at the moments it is read is warranted.                                 *)
Promise == INSTANCE CheckPromise WITH
  Item <- Item,
  owed <- steady,
  warranted <- whole,
  delivered <- findings,
  verdict <- IF Over THEN pc ELSE "running"

(* Every step of a check is one that a check may take (registry.py 71-72): *)
(* it delivers an item at a time, and none after it has returned or        *)
(* raised; it never takes one back; and at each moment, not just when the  *)
(* run is over, it has delivered nothing that was not yet warranted.       *)
ImplementsCheckPromise == Promise!Spec

-----------------------------------------------------------------------------
(* What docs/adr/0004 says: at a denial a check goes on with the next      *)
(* resource.                                                               *)
DenialNeverRaises == pc = "raised" => \E c \in met : c[3] \in Failure
=============================================================================
