------------------------------ MODULE Decisions ------------------------------
(***************************************************************************)
(* What the checks decide about what they have read, in the loops that     *)
(* S3Checks and IamKmsChecks abstract to good and bad: the predicates on   *)
(* policy documents (_policy_is_public and _denies_insecure_transport in   *)
(* s3.py, _grants_full_admin in iam.py), and the loop of AccessKeyStale    *)
(* over a user's keys, in which time passes.                               *)
(***************************************************************************)
EXTENDS Integers, Sequences

CONSTANTS
  Documents,   \* for each predicate, the statement lists considered
  KeyLists,    \* the lists of access keys considered
  MaxAges,     \* the rotation thresholds, in days
  Pauses,      \* how long, in hours, a consumer may keep the loop waiting
  LastHour     \* bound on the clock

VARIABLES
  kind,        \* the loop that runs: "public", "tls", "admin" or "stale"
  items,       \* the statements or the keys
  i,           \* the one examined next
  answer,      \* what a predicate has returned, once it has
  maxAge,
  now,         \* hours since the check started
  stale        \* the keys reported, each with the age in days observed

inputs == <<kind, items, maxAge>>
vars == <<kind, items, i, answer, maxAge, now, stale>>

Predicate == {"public", "tls", "admin"}
Day == 24

(* A statement, as far as the predicates and their purpose tell statements *)
(* apart: the AWS principals, and the conditions - that the request is     *)
(* plaintext, in a spelling the code knows or in an odd one (a value like  *)
(* "FALSE", another operator), and that the caller is trusted, by          *)
(* organisation or network.  Who a statement of an identity policy speaks  *)
(* of is not written in it: it is everyone the policy is attached to.      *)
Statement == [effect : {"Allow", "Deny"},
              who : SUBSET {"*", "acct"},
              conditions : SUBSET {"plaintext", "odd-plaintext", "trusted"},
              actions : (SUBSET {"*", "read"}) \ {{}},
              resources : (SUBSET {"*", "bucket"}) \ {{}}]

Key == [active : BOOLEAN, created : Int]

ASSUME DecisionsAssumption ==
  /\ Documents \in [Predicate -> SUBSET Seq(Statement)]
  /\ KeyLists \subseteq Seq(Key)
  /\ MaxAges \subseteq Nat
  /\ Pauses \subseteq Nat \ {0}
  /\ LastHour \in Nat

-----------------------------------------------------------------------------
AnyWildcardAllow(s) == s.effect = "Allow" /\ s.who = {"*"}

(* _policy_is_public: principal "*", or AWS being "*" or ["*"]. *)
PublicAllow(s) ==
  /\ s.effect = "Allow"
  /\ s.who = {"*"}
  /\ s.conditions = {}

(* _denies_insecure_transport *)
TlsDeny(s) == s.effect = "Deny" /\ "plaintext" \in s.conditions

WildcardAction(s) == s.effect = "Allow" /\ "*" \in s.actions

(* _grants_full_admin *)
AdminAllow(s) ==
  /\ s.effect = "Allow"
  /\ "*" \in s.actions
  /\ "*" \in s.resources

Decisive(s) ==
  CASE kind = "public" -> PublicAllow(s)
    [] kind = "tls" -> TlsDeny(s)
    [] kind = "admin" -> AdminAllow(s)

(* cutoff = now - timedelta(days=max_age), when the check starts at 0. *)
Cutoff == 0 - maxAge * Day

(* The cutoff taken anew for every key. *)
OldByNow(k) == k.active /\ ~(k.created > now - maxAge * Day)

IsStale(k) == k.active /\ ~(k.created > Cutoff)

(* (now - created).days, which Python rounds down. *)
AgeDays(k) == (now - k.created) \div Day

-----------------------------------------------------------------------------
Init ==
  /\ kind \in Predicate \union {"stale"}
  /\ items \in IF kind = "stale" THEN KeyLists ELSE Documents[kind]
  /\ maxAge \in IF kind = "stale" THEN MaxAges ELSE {0}
  /\ i = 1
  /\ answer = FALSE
  /\ now = 0
  /\ stale = {}

ReturnTrue ==
  /\ kind \in Predicate
  /\ i <= Len(items)
  /\ Decisive(items[i])
  /\ answer' = TRUE
  /\ i' = Len(items) + 1
  /\ UNCHANGED <<inputs, now, stale>>

SkipNext ==
  /\ kind \in Predicate
  /\ i <= Len(items)
  /\ ~Decisive(items[i])
  /\ i' = i + 2
  /\ UNCHANGED <<inputs, answer, now, stale>>

FirstStatementDecides ==
  /\ kind \in Predicate
  /\ i <= Len(items)
  /\ ~Decisive(items[i])
  /\ i' = Len(items) + 1
  /\ UNCHANGED <<inputs, answer, now, stale>>

Continue ==
  /\ kind \in Predicate
  /\ i <= Len(items)
  /\ ~Decisive(items[i])
  /\ i' = i + 1
  /\ UNCHANGED <<inputs, answer, now, stale>>

ExamineKey ==
  /\ kind = "stale"
  /\ i <= Len(items)
  /\ stale' = IF IsStale(items[i]) THEN stale \union {<<i, AgeDays(items[i])>>} ELSE stale
  /\ i' = i + 1
  /\ UNCHANGED <<inputs, answer, now>>

(* While a finding is being consumed, the check waits. *)
Wait(hours) ==
  /\ kind = "stale"
  /\ i <= Len(items)
  /\ now + hours <= LastHour
  /\ now' = now + hours
  /\ UNCHANGED <<inputs, i, answer, stale>>

Next ==
  \/ ReturnTrue
  \/ Continue
  \/ ExamineKey
  \/ \E hours \in Pauses : Wait(hours)

Spec == Init /\ [][Next]_vars

Over == i > Len(items)

-----------------------------------------------------------------------------
(* The meaning of a policy.  A request is made by the account or by        *)
(* somebody else, for an action and on a resource that a statement may     *)
(* name or may not, over TLS or not, from a trusted place or not.          *)
Request == [who : {"acct", "other"}, action : {"read", "other"},
            resource : {"bucket", "other"}, tls : BOOLEAN, trusted : BOOLEAN]

Covers(s, q) ==
  /\ {"*", q.who} \intersect s.who # {}
  /\ {"*", q.action} \intersect s.actions # {}
  /\ {"*", q.resource} \intersect s.resources # {}
  /\ {"plaintext", "odd-plaintext"} \intersect s.conditions # {} => ~q.tls
  /\ "trusted" \in s.conditions => q.trusted

Said(effect, q) == \E j \in DOMAIN items : items[j].effect = effect /\ Covers(items[j], q)

(* Anybody, from anywhere, is allowed something by a statement (s3.py       *)
(* 158-161; neither that check nor AdminPolicyAttached weighs the Deny     *)
(* statements that may take it back).                                      *)
IsPublic ==
  \E a \in {"read", "other"}, r \in {"bucket", "other"} :
    \A q \in Request :
      q.who = "other" /\ q.action = a /\ q.resource = r => Said("Allow", q)

(* No plaintext request gets through (s3.py 397-400). *)
EnforcesTls == \A q \in Request : ~q.tls => Said("Deny", q)

(* Everything is allowed on everything (iam.py 279-283). *)
GrantsEverything == \A q \in Request : Said("Allow", q)

Meaning ==
  CASE kind = "public" -> IsPublic
    [] kind = "tls" -> EnforcesTls
    [] kind = "admin" -> GrantsEverything

(* The policies whose meaning the predicates see: without a wildcard among *)
(* other principals; with plaintext denied to everyone, in everything,     *)
(* under no further condition, in a known spelling; with unconditional     *)
(* grants.                                                                 *)
IsPlain(s) ==
  CASE kind = "public" -> "*" \in s.who => s.who = {"*"}
    [] kind = "tls" -> s.effect = "Deny" =>
         /\ "*" \in s.who /\ "*" \in s.actions /\ "*" \in s.resources
         /\ s.conditions = {"plaintext"}
    [] kind = "admin" -> s.who = {"*"} /\ s.conditions = {}

PlainDocument == \A j \in DOMAIN items : IsPlain(items[j])

TypeOK ==
  /\ kind \in Predicate \union {"stale"}
  /\ items \in IF kind = "stale" THEN KeyLists ELSE Documents[kind]
  /\ i \in 1 .. Len(items) + 1
  /\ answer \in BOOLEAN
  /\ maxAge \in Nat
  /\ now \in 0 .. LastHour
  /\ stale \subseteq (1 .. i - 1) \X Int

(* A predicate that says yes about a plain document is right: the bucket   *)
(* is open, plaintext is denied, the policy grants everything (s3.py       *)
(* 136-151, 378-390, iam.py 258-272).                                      *)
YesIsRight == kind \in Predicate /\ Over /\ answer /\ PlainDocument => Meaning

(* And if it says no it is right too: whatever statements come before or   *)
(* after the decisive one, it is not missed.                               *)
NoIsRight ==
  kind \in Predicate /\ Over /\ ~answer /\ PlainDocument => ~Meaning

AgeAtStart(k) == (0 - k.created) \div Day

(* However long the findings are consumed - the clock is read again for    *)
(* each age, the cutoff is not -, the keys reported do not depend on it:   *)
(* every active key whose age in days exceeded max_age when the check      *)
(* started is reported; a reported one is active and had been there for    *)
(* max_age full days then; and the age observed is its age at some moment  *)
(* of the check (iam.py 206-224).                                          *)
StaleKeysFound ==
  /\ \A j \in DOMAIN items :
       kind = "stale" /\ j < i /\ items[j].active /\ AgeAtStart(items[j]) > maxAge =>
         \E x \in stale : x[1] = j
  /\ \A x \in stale : LET k == items[x[1]] IN
       /\ k.active /\ 0 - k.created >= maxAge * Day
       /\ AgeAtStart(k) <= x[2] /\ x[2] <= AgeDays(k)

(* What iam.py says of a key it reports: that its age exceeds the rotation *)
(* threshold (235), and is expected to be at most the threshold (241).     *)
ReportedAgesExceed == \A x \in stale : x[2] > maxAge
=============================================================================
