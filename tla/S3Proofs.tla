------------------------------ MODULE S3Proofs -------------------------------
(***************************************************************************)
(* The S3 checks in every account, under every sequence of changes to it.  *)
(* Everything a check returns with is settled bucket by bucket, so the     *)
(* invariant says what is already certain about each of them: a bucket     *)
(* that has been flawed all along is still to be read, or reported, or     *)
(* lost to a connection error.                                             *)
(***************************************************************************)
EXTENDS S3Checks, FiniteSetTheorems, TLAPS

Reported(b) == \E f \in findings : f.bucket = b

S3Inv ==
  /\ TypeOK
  /\ Flawed \subseteq seenFlawed
  /\ steady \subseteq Flawed \ denied
  /\ pc \in {"next", "label", "returned"} =>
       \A b \in steady : b \in todo \/ Reported(b) \/ <<b, "lost">> \in broken
  /\ pc \in {"list", "returned"} => todo = {}
  /\ pc = "label" =>
       cur \in seenFlawed \/ (rule = "tls-not-enforced" /\ <<cur, "gone">> \in broken)
  /\ FindingsJustified
  /\ DenialNeverRaises
  /\ pc # "raised" => \A c \in broken : <<rule, c[2]>> \in Swallowed

(* The table of checks against what the checks are for: a setting is       *)
(* reported exactly if it is the defect and never ends the check, a denial *)
(* is skipped, and of the failures the checks swallow those in Swallowed.  *)
LEMMA Table ==
  ASSUME rule \in Rule
  PROVE  /\ \A a \in Settings(rule) : /\ a \in Verdict.flag <=> a \in Defect(rule)
                                      /\ a \in Verdict.pass <=> a \notin Defect(rule)
         /\ Settings(rule) \subseteq Setting
         /\ "denied" \in Verdict.pass /\ "denied" \notin Verdict.flag
         /\ \A a \in Failure : a \in Verdict.flag \union Verdict.pass
                                 <=> <<rule, a>> \in Swallowed
         /\ \A a \in Failure : a \in Verdict.flag => a = "gone" /\ rule = "tls-not-enforced"
<1> USE DEF Settings, Setting, Defect, Failure, Swallowed, Verdict
<1>1. CASE rule = "public-acl"
  BY <1>1 DEF BucketPublicAcl, Rule
<1>2. CASE rule = "public-policy"
  BY <1>2 DEF BucketPublicPolicy, Rule
<1>3. CASE rule = "block-public-access-disabled"
  BY <1>3 DEF BlockPublicAccessDisabled, Rule
<1>4. CASE rule = "encryption-disabled"
  BY <1>4 DEF BucketEncryptionDisabled, Rule
<1>5. CASE rule = "versioning-disabled"
  BY <1>5 DEF BucketVersioningDisabled, Rule
<1>6. CASE rule = "tls-not-enforced"
  BY <1>6 DEF BucketTlsNotEnforced, Rule
<1> QED
  BY <1>1, <1>2, <1>3, <1>4, <1>5, <1>6 DEF Rule

LEMMA InitS3Inv == Init => S3Inv
<1> SUFFICES ASSUME Init PROVE S3Inv
  OBVIOUS
<1>1. TypeOK
  BY S3Assumption DEF Init, TypeOK, Flawed
<1> QED
  BY <1>1 DEF Init, S3Inv, FindingsJustified, DenialNeverRaises

(* What an answer that is not a failure says: it is the setting of a       *)
(* bucket that is there, or the denial of one that is denied.              *)
LEMMA AnswersSay ==
  ASSUME NEW b, NEW a \in Answers(b)
  PROVE  \/ a \in Failure
         \/ a = "denied" /\ b \in buckets /\ b \in denied
         \/ a = setting[b] /\ b \in buckets /\ b \notin denied
  BY DEF Answers, Failure

(* The account's steps. *)
LEMMA DriftS3Inv ==
  ASSUME S3Inv, Drifts, TypeOK'
  PROVE  S3Inv'
<1>1. /\ Flawed' \subseteq seenFlawed' /\ seenFlawed \subseteq seenFlawed'
      /\ steady' \subseteq Flawed' \ denied' /\ steady' \subseteq steady
      /\ UNCHANGED <<rule, pc, todo, cur, findings, broken>>
  BY DEF Drifts
<1>2. \A b : Reported(b)' <=> Reported(b)
  BY <1>1 DEF Reported
<1>3. Swallowed' = Swallowed
  BY DEF Swallowed
<1> QED
  BY <1>1, <1>2, <1>3 DEF S3Inv, FindingsJustified, DenialNeverRaises

LEMMA AccountS3Inv == S3Inv /\ AccountStep => S3Inv'
<1> SUFFICES ASSUME S3Inv, AccountStep PROVE S3Inv'
  OBVIOUS
<1>1. TypeOK
  BY DEF S3Inv
<1> DEFINE DriftsWithin ==
             /\ Drifts
             /\ buckets' \subseteq Bucket
             /\ setting' \in [Bucket -> Settings(rule)]
             /\ denied' \subseteq Bucket \union {Listing}
<1>2. DriftsWithin
  <2>1. ASSUME NEW b \in Bucket, DeleteBucket(b) PROVE DriftsWithin
    BY <1>1, <2>1 DEF DeleteBucket, TypeOK
  <2>2. ASSUME NEW b \in Bucket, NEW s \in Settings(rule), CreateBucket(b, s) PROVE DriftsWithin
    BY <1>1, <2>2 DEF CreateBucket, TypeOK
  <2>3. ASSUME NEW b \in Bucket, NEW s \in Settings(rule), Reconfigure(b, s) PROVE DriftsWithin
    BY <1>1, <2>3 DEF Reconfigure, TypeOK
  <2>4. ASSUME NEW c \in Bucket \union {Listing}, Deny(c) PROVE DriftsWithin
    BY <1>1, <2>4 DEF Deny, TypeOK
  <2>5. ASSUME NEW c \in Bucket \union {Listing}, Allow(c) PROVE DriftsWithin
    BY <1>1, <2>5 DEF Allow, TypeOK
  <2> QED
    BY <2>1, <2>2, <2>3, <2>4, <2>5 DEF AccountStep
<1>3. TypeOK'
  <2>1. drift' \in 0 .. MaxDrift /\ UNCHANGED <<rule, pc, todo, cur, findings, broken>>
    BY <1>1, <1>2, S3Assumption DEF Drifts, TypeOK
  <2>2. Flawed' \subseteq Bucket
    BY <1>2 DEF Flawed
  <2>3. seenFlawed' \subseteq Bucket /\ steady' \subseteq Bucket
    BY <1>1, <1>2, <2>2 DEF Drifts, TypeOK
  <2>4. setting' \in [Bucket -> Settings(rule')]
    BY <1>2, <2>1
  <2> QED
    BY <1>1, <1>2, <2>1, <2>3, <2>4 DEF TypeOK
<1> QED
  BY <1>2, <1>3, DriftS3Inv

(* The check's own steps. *)
LEMMA CheckS3Inv == S3Inv /\ CheckStep => S3Inv'
<1> SUFFICES ASSUME S3Inv, CheckStep PROVE S3Inv'
  OBVIOUS
<1>1. TypeOK /\ rule \in Rule
  BY S3Assumption DEF S3Inv, TypeOK
<1>2. UNCHANGED account /\ Flawed' = Flawed /\ Swallowed' = Swallowed
  BY DEF CheckStep, ListBuckets, ListDenied, ListFails, ReadFlags, ReadPasses, ReadRaises,
         Report, Return, account, Flawed, Swallowed
<1>3. \A b \in steady : /\ b \in buckets /\ b \notin denied
                        /\ setting[b] \in Defect(rule) /\ setting[b] \in Settings(rule)
  BY <1>1 DEF S3Inv, Flawed, TypeOK
<1> USE DEF account
<1>4. CASE ListBuckets
  <2>1. steady \subseteq buckets
    BY <1>3
  <2> QED
    BY <1>1, <1>2, <1>4, <2>1
       DEF ListBuckets, S3Inv, TypeOK, FindingsJustified, DenialNeverRaises, Reported
<1>5. CASE ListDenied
  BY <1>1, <1>2, <1>5
     DEF ListDenied, S3Inv, TypeOK, FindingsJustified, DenialNeverRaises, Reported
<1>6. ASSUME NEW a \in {"fault", "lost"}, ListFails(a) PROVE S3Inv'
  <2>1. pc' = "raised" /\ broken' = broken \union {<<Listing, a>>}
    BY <1>6 DEF ListFails
  <2>2. UNCHANGED <<rule, buckets, setting, denied, drift, todo, cur, findings, seenFlawed, steady>>
    BY <1>6 DEF ListFails
  <2>3. TypeOK'
    BY <1>1, <2>1, <2>2 DEF TypeOK, Failure
  <2>4. FindingsJustified' /\ DenialNeverRaises'
    BY <2>1, <2>2 DEF S3Inv, FindingsJustified, DenialNeverRaises
  <2> QED
    BY <1>2, <2>1, <2>2, <2>3, <2>4 DEF S3Inv
<1>7. ASSUME NEW b \in Bucket, ReadFlags(b) PROVE S3Inv'
  <2>1. PICK a \in Answers(b) : a \in Verdict.flag /\ Remember(b, a)
    BY <1>7 DEF ReadFlags
  <2>2. \/ a = "gone" /\ rule = "tls-not-enforced"
        \/ a \notin Failure /\ b \in Flawed
    <3>1. CASE a \in Failure
      BY <1>1, <2>1, <3>1, Table
    <3>2. CASE a \notin Failure
      <4>1. a = setting[b] /\ b \in buckets
        BY <1>1, <2>1, <3>2, AnswersSay, Table
      <4>2. a \in Defect(rule)
        BY <1>1, <2>1, <4>1, Table DEF TypeOK
      <4> QED
        BY <3>2, <4>1, <4>2 DEF Flawed
    <3> QED
      BY <3>1, <3>2
  <2>3. /\ broken \subseteq broken'
        /\ broken' \subseteq (Bucket \union {Listing}) \X Failure
        /\ \A c \in broken' : <<rule, c[2]>> \in Swallowed
        /\ a = "gone" => <<b, "gone">> \in broken'
    BY <1>1, <1>7, <2>1, <2>2 DEF ReadFlags, Remember, S3Inv, TypeOK, Failure, Swallowed
  <2> QED
    BY <1>1, <1>2, <1>7, <2>2, <2>3
       DEF ReadFlags, S3Inv, TypeOK, FindingsJustified, DenialNeverRaises, Reported
<1>8. ASSUME NEW b \in Bucket, ReadPasses(b) PROVE S3Inv'
  <2>1. PICK a \in Answers(b) : a \in Verdict.pass /\ Remember(b, a)
    BY <1>8 DEF ReadPasses
  <2>2. a \in Failure => <<rule, a>> \in Swallowed
    BY <1>1, <2>1, Table
  <2>3. /\ broken \subseteq broken'
        /\ broken' \subseteq (Bucket \union {Listing}) \X Failure
        /\ \A c \in broken' : <<rule, c[2]>> \in Swallowed
    BY <1>1, <1>8, <2>1, <2>2 DEF ReadPasses, Remember, S3Inv, TypeOK
  (* A bucket that is steadily flawed is not passed over, unless lost.     *)
  <2>4. b \in steady => <<b, "lost">> \in broken'
    <3> SUFFICES ASSUME b \in steady PROVE <<b, "lost">> \in broken'
      OBVIOUS
    <3>1. a # setting[b]
      BY <1>1, <1>3, <2>1, Table
    <3>2. a \in Failure /\ a # "gone"
      BY <1>3, <3>1, AnswersSay DEF Answers
    <3>3. a = "lost"
      BY <2>2, <3>2 DEF Failure, Swallowed
    <3> QED
      BY <2>1, <3>2, <3>3 DEF Remember
  <2> QED
    BY <1>1, <1>2, <1>8, <2>3, <2>4
       DEF ReadPasses, S3Inv, TypeOK, FindingsJustified, DenialNeverRaises, Reported
<1>9. ASSUME NEW b \in Bucket, ReadRaises(b) PROVE S3Inv'
  <2>1. PICK a \in Answers(b) : a \notin Verdict.flag \union Verdict.pass /\ Remember(b, a)
    BY <1>9 DEF ReadRaises
  <2>2. a \in Failure
    BY <1>1, <2>1, AnswersSay, Table DEF TypeOK
  <2>3. broken' = broken \union {<<b, a>>}
    BY <2>1, <2>2 DEF Remember
  <2>4. /\ UNCHANGED <<rule, buckets, setting, denied, drift, todo, cur, findings, seenFlawed, steady>>
        /\ pc' = "raised"
    BY <1>9 DEF ReadRaises
  <2>5. TypeOK'
    BY <1>1, <2>2, <2>3, <2>4 DEF TypeOK
  <2>6. FindingsJustified' /\ DenialNeverRaises'
    BY <2>3, <2>4 DEF S3Inv, FindingsJustified, DenialNeverRaises
  <2> QED
    BY <1>2, <2>4, <2>5, <2>6 DEF S3Inv
<1>10. CASE Report
  <2>1. PICK r \in BucketRegion(cur) :
          findings' = findings \union {[bucket |-> cur, region |-> r]}
    BY <1>10 DEF Report
  <2>2. cur \in Bucket /\ cur \in todo
    BY <1>1, <1>10 DEF Report, TypeOK
  <2>3. r \in Region
    BY <1>1, <2>2, S3Assumption DEF BucketRegion, LocationConstraint
  <2>4. TypeOK'
    BY <1>1, <1>2, <1>10, <2>1, <2>2, <2>3 DEF Report, TypeOK
  <2>5. /\ UNCHANGED <<rule, seenFlawed, steady, broken>>
        /\ pc = "label" /\ todo' = todo \ {cur}
    BY <1>10 DEF Report
  <2>6. FindingsJustified'
    <3>1. cur \in seenFlawed \/ (rule = "tls-not-enforced" /\ <<cur, "gone">> \in broken)
      BY <2>5 DEF S3Inv
    <3>2. \A f \in findings' : f \in findings \/ f.bucket = cur
      BY <2>1
    <3> QED
      BY <2>5, <3>1, <3>2 DEF S3Inv, FindingsJustified
  <2>7. \A b \in steady : b \in todo' \/ Reported(b)' \/ <<b, "lost">> \in broken'
    <3>1. Reported(cur)'
      <4> DEFINE f == [bucket |-> cur, region |-> r]
      <4>1. f \in findings' /\ f.bucket = cur
        BY <2>1
      <4>2. cur' = cur
        BY <1>10 DEF Report
      <4> QED
        BY <4>1, <4>2 DEF Reported
    <3>2. \A b : Reported(b) => Reported(b)'
      BY <2>1 DEF Reported
    <3>3. cur' = cur
      BY <1>10 DEF Report
    <3>4. \A b : b = cur => Reported(b)'
      BY <3>1, <3>3 DEF Reported
    <3> QED
      BY <2>5, <3>2, <3>4 DEF S3Inv
  <2> QED
    BY <1>2, <1>10, <2>4, <2>6, <2>7 DEF Report, S3Inv, DenialNeverRaises
<1>11. CASE Return
  BY <1>1, <1>2, <1>11
     DEF Return, S3Inv, TypeOK, FindingsJustified, DenialNeverRaises, Reported
<1> QED
  BY <1>4, <1>5, <1>6, <1>7, <1>8, <1>9, <1>10, <1>11 DEF CheckStep

LEMMA NextS3Inv == S3Inv /\ [Next]_vars => S3Inv'
<1> SUFFICES ASSUME S3Inv, UNCHANGED vars PROVE S3Inv'
  BY AccountS3Inv, CheckS3Inv DEF Next
<1> QED
  BY DEF vars, S3Inv, TypeOK, Flawed, Reported, FindingsJustified, DenialNeverRaises, Swallowed

THEOREM SpecS3Inv == Spec => []S3Inv
  BY InitS3Inv, NextS3Inv, PTL DEF Spec

(* The state of a check and of its account stay in their types.            *)
THEOREM SpecTypeOK == Spec => []TypeOK
<1>1. S3Inv => TypeOK
  BY DEF S3Inv
<1> QED
  BY <1>1, SpecS3Inv, PTL

(* No S3 check reports a bucket that was right all along, except the TLS   *)
(* check, which reports one that has been deleted.                         *)
THEOREM SpecFindingsJustified == Spec => []FindingsJustified
<1>1. S3Inv => FindingsJustified
  BY DEF S3Inv
<1> QED
  BY <1>1, SpecS3Inv, PTL

(* A check that returns has reported every bucket that was flawed and      *)
(* readable all along, whatever happened to the others.                    *)
THEOREM SpecSteadyFlawsFound == Spec => []SteadyFlawsFound
<1>1. S3Inv => SteadyFlawsFound
  BY DEF S3Inv, SteadyFlawsFound, Reported
<1> QED
  BY <1>1, SpecS3Inv, PTL

(* A denied call never ends a check with an exception.                     *)
THEOREM SpecDenialNeverRaises == Spec => []DenialNeverRaises
<1>1. S3Inv => DenialNeverRaises
  BY DEF S3Inv
<1> QED
  BY <1>1, SpecS3Inv, PTL

(* A check that returns has met no failure but those it swallows.          *)
THEOREM SpecFaultsEndTheCheck == Spec => []FaultsEndTheCheck
<1>1. S3Inv => FaultsEndTheCheck
  BY DEF S3Inv, FaultsEndTheCheck
<1> QED
  BY <1>1, SpecS3Inv, PTL

-----------------------------------------------------------------------------
(* What the account and the reads change of owed and warranted goes the    *)
(* way CheckPromise lets it go.                                            *)
LEMMA ChangeStep ==
  ASSUME ~Over, pc' \in {"list", "next", "label"}, TypeOK',
         UNCHANGED <<rule, findings>>,
         seenFlawed \subseteq seenFlawed', steady' \subseteq steady, broken \subseteq broken'
  PROVE  Promise!Change
<1>1. ~Over'
  BY DEF Over
<1>2. Lost \subseteq Lost' /\ Gone \subseteq Gone' /\ Gone' \subseteq Bucket
  BY DEF Lost, Gone, Swallowed
<1>3. seenFlawed' \subseteq Bucket
  BY DEF TypeOK
<1> QED
  BY <1>1, <1>2, <1>3 DEF Promise!Change

LEMMA StepKeepsPromise ==
  ASSUME S3Inv, S3Inv', Next
  PROVE  [Promise!Next]_(Promise!checkVars)
<1>1. TypeOK /\ TypeOK' /\ rule \in Rule
  BY S3Assumption DEF S3Inv, TypeOK
<1>2. CASE AccountStep
  <2>1. Drifts
    BY <1>2 DEF AccountStep, DeleteBucket, CreateBucket, Reconfigure, Deny, Allow
  <2>2. ~Over /\ UNCHANGED <<rule, pc, findings, broken>>
    BY <2>1 DEF Drifts
  <2>3. pc' \in {"list", "next", "label"}
    BY <1>1, <2>2 DEF Over, TypeOK
  <2>4. seenFlawed \subseteq seenFlawed' /\ steady' \subseteq steady
    BY <2>1 DEF Drifts
  <2> QED
    BY <1>1, <2>2, <2>3, <2>4, ChangeStep DEF Promise!Next
<1>3. CASE ListBuckets
  BY <1>3 DEF ListBuckets, account, Promise!checkVars, Lost, Gone, Over, Swallowed
<1>4. CASE ListDenied
  <2>1. Promise!Return
    BY <1>4 DEF ListDenied, account, Promise!Return, Gone, Over
  <2> QED
    BY <2>1 DEF Promise!Next
<1>5. ASSUME NEW a \in {"fault", "lost"}, ListFails(a) PROVE [Promise!Next]_(Promise!checkVars)
  <2>1. UNCHANGED <<rule, findings, seenFlawed, steady>> /\ ~Over
        /\ broken' = broken \union {<<Listing, a>>} /\ pc' = "raised"
    BY <1>5 DEF ListFails, account, Over
  <2>2. Lost' = Lost /\ Gone' = Gone
    BY <2>1, S3Assumption DEF Lost, Gone, Swallowed
  <2>3. Promise!Raise
    BY <2>1, <2>2 DEF Promise!Raise, Over
  <2> QED
    BY <2>3 DEF Promise!Next
<1>6. ASSUME NEW b \in Bucket, ReadFlags(b) \/ ReadPasses(b)
      PROVE  [Promise!Next]_(Promise!checkVars)
  <2>1. ~Over /\ UNCHANGED <<rule, findings, seenFlawed, steady>>
    BY <1>6 DEF ReadFlags, ReadPasses, account, Over
  <2>2. pc' \in {"next", "label"}
    BY <1>6 DEF ReadFlags, ReadPasses
  <2>3. broken \subseteq broken'
    BY <1>6 DEF ReadFlags, ReadPasses, Remember
  <2> QED
    BY <1>1, <2>1, <2>2, <2>3, ChangeStep DEF Promise!Next
<1>7. ASSUME NEW b \in Bucket, ReadRaises(b) PROVE [Promise!Next]_(Promise!checkVars)
  <2>1. PICK a \in Answers(b) : a \notin Verdict.flag \union Verdict.pass /\ Remember(b, a)
    BY <1>7 DEF ReadRaises
  <2>2. UNCHANGED <<rule, findings, seenFlawed, steady>> /\ ~Over /\ pc' = "raised"
    BY <1>7 DEF ReadRaises, account, Over
  (* A failure that ends the check is not one of those it swallows.        *)
  <2>3. a \in Failure => <<rule, a>> \notin Swallowed
    BY <1>1, <2>1, Table
  <2>4. Lost' = Lost /\ Gone' = Gone
    BY <1>1, <2>1, <2>2, <2>3 DEF Remember, Lost, Gone, Swallowed, Failure
  <2>5. Promise!Raise
    BY <2>2, <2>4 DEF Promise!Raise, Over
  <2> QED
    BY <2>5 DEF Promise!Next
<1>8. CASE Report
  <2>1. UNCHANGED <<rule, seenFlawed, steady, broken>> /\ pc = "label" /\ pc' = "next"
    BY <1>8 DEF Report, account
  <2>2. Lost' = Lost /\ Gone' = Gone
    BY <2>1 DEF Lost, Gone, Swallowed
  <2>3. cur \in seenFlawed \union Gone
    BY <1>1, <2>1 DEF S3Inv, TypeOK, Gone
  <2>4. {f.bucket : f \in findings'} = {f.bucket : f \in findings} \union {cur}
    <3>1. PICK r \in BucketRegion(cur) :
            findings' = findings \union {[bucket |-> cur, region |-> r]}
      BY <1>8 DEF Report
    <3> DEFINE new == [bucket |-> cur, region |-> r]
    <3>2. new.bucket = cur /\ findings' = findings \union {new}
      BY <3>1
    <3> HIDE DEF new
    <3> QED
      BY <3>2
  <2>5. \E x \in seenFlawed \union Gone : Promise!Deliver(x)
    BY <2>1, <2>2, <2>3, <2>4 DEF Promise!Deliver, Over
  <2> QED
    BY <2>5 DEF Promise!Next
<1>9. CASE Return
  <2>1. UNCHANGED <<rule, todo, findings, seenFlawed, steady, broken>>
        /\ pc = "next" /\ pc' = "returned" /\ todo = {}
    BY <1>9 DEF Return, account
  <2>2. \A b \in steady : Reported(b) \/ <<b, "lost">> \in broken
    BY <2>1 DEF S3Inv
  (* What was lost was swallowed: the check has not raised.                *)
  <2>3. \A c \in broken : <<rule, c[2]>> \in Swallowed
    BY <2>1 DEF S3Inv
  <2>4. steady \ Lost \subseteq {f.bucket : f \in findings}
    BY <1>1, <2>2, <2>3 DEF Lost, Reported, TypeOK
  <2>5. Lost' = Lost /\ Gone' = Gone
    BY <2>1 DEF Lost, Gone, Swallowed
  <2>6. Promise!Return
    BY <2>1, <2>4, <2>5 DEF Promise!Return, Over
  <2> QED
    BY <2>6 DEF Promise!Next
<1> QED
  BY <1>2, <1>3, <1>4, <1>5, <1>6, <1>7, <1>8, <1>9 DEF Next, CheckStep

(* Each S3 check keeps CheckPromise at every step, whatever happens to the *)
(* account and to its calls.                                               *)
THEOREM SpecImplementsCheckPromise == Spec => ImplementsCheckPromise
<1>1. Init => Promise!Init
  BY S3Assumption DEF Init, Promise!Init, Over, Flawed, Gone
<1>2. S3Inv /\ S3Inv' /\ [Next]_vars => [Promise!Next]_(Promise!checkVars)
  <2>1. ASSUME UNCHANGED vars PROVE UNCHANGED Promise!checkVars
    BY <2>1 DEF vars, Promise!checkVars, Lost, Gone, Over, Swallowed
  <2> QED
    BY <2>1, StepKeepsPromise
<1> QED
  BY <1>1, <1>2, SpecS3Inv, PTL DEF Spec, ImplementsCheckPromise, Promise!Spec

-----------------------------------------------------------------------------
(* The steps a check can still take: two for each bucket left in the       *)
(* listing - a read and perhaps a report - and one to return.              *)
StepsLeft ==
  CASE pc = "list" -> 2 * Cardinality(Bucket) + 2
    [] pc = "next" -> 2 * Cardinality(todo) + 1
    [] pc = "label" -> 2 * Cardinality(todo)
    [] OTHER -> 0

StepsRunOut ==
  /\ StepsLeft \in Nat
  /\ CheckStep => StepsLeft' < StepsLeft
  /\ ~CheckStep => StepsLeft' = StepsLeft

LEMMA StepTakesOne ==
  ASSUME IsFiniteSet(Bucket), TypeOK, TypeOK', Next
  PROVE  StepsRunOut
<1>1. ASSUME NEW T \in SUBSET Bucket
      PROVE  /\ Cardinality(T) \in Nat /\ Cardinality(T) <= Cardinality(Bucket)
             /\ \A b \in T : /\ Cardinality(T \ {b}) = Cardinality(T) - 1
                             /\ Cardinality(T) # 0
  BY FS_Subset, FS_CardinalityType, FS_RemoveElement, FS_EmptySet
<1>2. /\ Cardinality(Bucket) \in Nat
      /\ Cardinality(todo) \in Nat /\ Cardinality(todo) <= Cardinality(Bucket)
      /\ Cardinality(todo') \in Nat /\ Cardinality(todo') <= Cardinality(Bucket)
      /\ pc = "label" => cur \in todo
  BY <1>1, FS_CardinalityType DEF TypeOK
<1>3. ASSUME NEW b \in todo PROVE Cardinality(todo \ {b}) = Cardinality(todo) - 1
  BY <1>1 DEF TypeOK
<1>4. StepsLeft \in Nat
  BY <1>2 DEF StepsLeft
<1>5. ASSUME CheckStep PROVE StepsLeft' < StepsLeft
  <2>1. CASE ListBuckets \/ ListDenied \/ \E a \in {"fault", "lost"} : ListFails(a)
    BY <1>2, <2>1 DEF ListBuckets, ListDenied, ListFails, StepsLeft
  <2>2. ASSUME NEW b \in Bucket, ReadFlags(b) PROVE StepsLeft' < StepsLeft
    BY <1>2, <2>2 DEF ReadFlags, StepsLeft
  <2>3. ASSUME NEW b \in Bucket, ReadPasses(b) PROVE StepsLeft' < StepsLeft
    BY <1>2, <1>3, <2>3 DEF ReadPasses, StepsLeft
  <2>4. ASSUME NEW b \in Bucket, ReadRaises(b) PROVE StepsLeft' < StepsLeft
    BY <1>2, <2>4 DEF ReadRaises, StepsLeft
  <2>5. CASE Report
    BY <1>2, <1>3, <2>5 DEF Report, StepsLeft
  <2>6. CASE Return
    BY <1>2, <2>6 DEF Return, StepsLeft
  <2> QED
    BY <1>5, <2>1, <2>2, <2>3, <2>4, <2>5, <2>6 DEF CheckStep
<1>6. ASSUME ~CheckStep PROVE StepsLeft' = StepsLeft
  <2>1. pc' = pc /\ todo' = todo
    BY <1>6 DEF Next, AccountStep, DeleteBucket, CreateBucket, Reconfigure, Deny, Allow, Drifts
  <2> QED
    BY <2>1 DEF StepsLeft
<1> QED
  BY <1>4, <1>5, <1>6 DEF StepsRunOut

(* A check of an account with finitely many buckets ends: each of its      *)
(* steps uses up one of the two calls it may still make for each bucket    *)
(* left, and nothing that happens to the account meanwhile gives it more   *)
(* to do - a bucket that appears after the listing is not visited (s3.py   *)
(* 50-56, 92).                                                             *)
THEOREM SpecStepsRunOut == IsFiniteSet(Bucket) => (Spec => [][StepsRunOut]_vars)
<1>1. SUFFICES ASSUME IsFiniteSet(Bucket) PROVE Spec => [][StepsRunOut]_vars
  OBVIOUS
<1>2. TypeOK /\ TypeOK' /\ [Next]_vars => [StepsRunOut]_vars
  BY <1>1, StepTakesOne
<1> QED
  BY <1>2, SpecTypeOK, PTL DEF Spec

(* A wrong label is never another bucket's region.  It is us-east-1, which *)
(* is all that a failed location call can make of one; what is labelled    *)
(* with another region lies there (s3.py 58-64).                           *)
LabelledHomeOrFallback == \A f \in findings : f.region \in {Home[f.bucket], FallbackRegion}

THEOREM SpecLabelledHomeOrFallback == Spec => []LabelledHomeOrFallback
<1>1. Init => LabelledHomeOrFallback
  BY DEF Init, LabelledHomeOrFallback
<1>2. LabelledHomeOrFallback /\ [Next]_vars => LabelledHomeOrFallback'
  <2> SUFFICES ASSUME LabelledHomeOrFallback, [Next]_vars PROVE LabelledHomeOrFallback'
    OBVIOUS
  <2>1. CASE Report
    <3>1. PICK r \in BucketRegion(cur) :
            findings' = findings \union {[bucket |-> cur, region |-> r]}
      BY <2>1 DEF Report
    <3>2. r \in {Home[cur], FallbackRegion}
      BY <3>1 DEF BucketRegion, LocationConstraint
    <3> QED
      BY <3>1, <3>2 DEF LabelledHomeOrFallback
  <2>2. CASE UNCHANGED findings
    BY <2>2 DEF LabelledHomeOrFallback
  <2> QED
    BY <2>1, <2>2 DEF Next, CheckStep, AccountStep, vars, ListBuckets, ListDenied, ListFails,
       ReadFlags, ReadPasses, ReadRaises, Return,
       DeleteBucket, CreateBucket, Reconfigure, Deny, Allow, Drifts
<1> QED
  BY <1>1, <1>2, PTL DEF Spec

-----------------------------------------------------------------------------
(* So what CheckPromise proves of any check that keeps it holds of these:  *)
(* the promise as an invariant, and that to the scan a run is one job of   *)
(* ScanPromise, over an account that changes (scanner.py 56-61).           *)
THEOREM CheckKeepsPromise == Spec => []Promise!PromiseKept
  BY SpecImplementsCheckPromise, Promise!SpecKeepsPromise, PTL DEF ImplementsCheckPromise

THEOREM CheckIsAJobOfAScan == Spec => Promise!Job!Spec
  BY SpecImplementsCheckPromise, Promise!CheckIsAJob, PTL DEF ImplementsCheckPromise
=============================================================================
