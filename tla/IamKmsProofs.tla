----------------------------- MODULE IamKmsProofs -----------------------------
(***************************************************************************)
(* The IAM and KMS checks for any number of resources and changes.         *)
(*                                                                         *)
(* A finding is made in up to three steps - what the listing said, whether *)
(* the check applies, what is wrong - and the account may change between   *)
(* any two of them.  Soundness follows a part through the steps (Read):    *)
(* what is noted did apply, what is pending was wrong after that.          *)
(* Completeness follows a part that was wrong all along through the run    *)
(* (Reached): to come, listed, noted, pending, reported.                   *)
(***************************************************************************)
EXTENDS IamKmsChecks, FiniteSetTheorems, TLAPS

(* The answers the checks pass over. *)
LEMMA PassesOverAre ==
  ASSUME rule \in Rule
  PROVE  /\ PassesOver.list \subseteq {"denied"}
         /\ PassesOver["gate"] \subseteq {"no", "gone", "denied"}
         /\ PassesOver["look"] \subseteq {"denied"}
         /\ "gone" \in PassesOver["gate"] => rule = "user-mfa-missing"
         /\ rule \in GateRules => {"no", "denied"} \subseteq PassesOver["gate"]
         /\ \/ rule \in AccountRules \/ "denied" \in PassesOver.list
            \/ <<rule, "list">> \in EndsAtDenial
         /\ "denied" \in PassesOver["look"] \/ <<rule, "look">> \in EndsAtDenial
<1>1. CASE rule \in {"root-mfa-missing", "root-access-key-present"}
  <2>1. PassesOver = RootSummary
    BY <1>1 DEF PassesOver
  <2> QED
    BY <1>1, <2>1 DEF RootSummary, EndsAtDenial, AccountRules, GateRules
<1>2. CASE rule = "user-mfa-missing"
  <2>1. PassesOver = UserMfaMissing
    BY <1>2 DEF PassesOver
  <2> QED
    BY <1>2, <2>1 DEF UserMfaMissing, EndsAtDenial, AccountRules, GateRules
<1>3. CASE rule = "access-key-stale"
  <2>1. PassesOver = AccessKeyStale
    BY <1>3 DEF PassesOver
  <2> QED
    BY <1>3, <2>1 DEF AccessKeyStale, EndsAtDenial, AccountRules, GateRules
<1>4. CASE rule = "admin-policy-attached"
  <2>1. PassesOver = AdminPolicyAttached
    BY <1>4 DEF PassesOver
  <2> QED
    BY <1>4, <2>1 DEF AdminPolicyAttached, EndsAtDenial, AccountRules, GateRules
<1>5. CASE rule = "password-policy-weak"
  <2>1. PassesOver = PasswordPolicyWeak
    BY <1>5 DEF PassesOver
  <2> QED
    BY <1>5, <2>1 DEF PasswordPolicyWeak, EndsAtDenial, AccountRules, GateRules
<1>6. CASE rule = "key-rotation-disabled"
  <2>1. PassesOver = KeyRotationDisabled
    BY <1>6 DEF PassesOver
  <2> QED
    BY <1>6, <2>1 DEF KeyRotationDisabled, EndsAtDenial, AccountRules, GateRules
<1> QED
  BY <1>1, <1>2, <1>3, <1>4, <1>5, <1>6 DEF Rule, AccountRules, GateRules

LEMMA PartsAreParts ==
  /\ \A r : Gates(r) \subseteq SUBSET Part
  /\ \A r : Faults(r) \subseteq SUBSET Part
  /\ \A r : {} \in Faults(r)
<1>1. \A r : Gates(r) \in {{{}, {1}}, {{}, {1}, {2}}, {Part}}
  BY Zenon DEF Gates
<1>2. \A r : Faults(r) \in {SUBSET Part, {{}, {1}, {2}}, {{}, {1}}}
  BY Zenon DEF Faults
<1> QED
  BY <1>1, <1>2 DEF Part

(* What a change of the account is, as far as a check cares. *)
LEMMA AccountStepDrifts ==
  ASSUME TypeOK, AccountStep
  PROVE  /\ Drifts
         /\ existing' \subseteq Resource
         /\ gate' \in [Resource -> Gates(rule) \union {{}}]
         /\ faulty' \in [Resource -> Faults(rule)]
         /\ Shape'
         /\ denied' \subseteq Call
<1>1. ASSUME NEW r \in Resource, Delete(r)
      PROVE  /\ Drifts
             /\ existing' \subseteq Resource
             /\ gate' \in [Resource -> Gates(rule) \union {{}}]
             /\ faulty' \in [Resource -> Faults(rule)]
             /\ Shape'
             /\ denied' \subseteq Call
  <2>1. Drifts /\ rule' = rule
    BY <1>1 DEF Delete, Drifts
  <2>2. gate' \in [Resource -> Gates(rule) \union {{}}]
    BY <1>1 DEF Delete, TypeOK
  <2>3. faulty' \in [Resource -> Faults(rule)]
    BY <1>1, PartsAreParts DEF Delete, TypeOK
  <2>4. Shape'
    BY <1>1, <2>1 DEF Delete, TypeOK, Shape
  <2> QED
    BY <1>1, <2>1, <2>2, <2>3, <2>4 DEF Delete, TypeOK
<1>2. ASSUME NEW r \in Resource, NEW g \in Gates(rule), NEW f \in Faults(rule),
             Create(r, g, f) \/ Reconfigure(r, g, f)
      PROVE  /\ Drifts
             /\ existing' \subseteq Resource
             /\ gate' \in [Resource -> Gates(rule) \union {{}}]
             /\ faulty' \in [Resource -> Faults(rule)]
             /\ Shape'
             /\ denied' \subseteq Call
  <2>1. /\ Drifts /\ rule' = rule
        /\ gate' = [gate EXCEPT ![r] = g] /\ faulty' = [faulty EXCEPT ![r] = f]
        /\ r \in existing' /\ existing' \subseteq existing \union {r}
        /\ existing \subseteq existing'
        /\ denied' = denied
    BY <1>2 DEF Create, Reconfigure, Drifts
  <2>2. gate' \in [Resource -> Gates(rule) \union {{}}]
    BY <2>1 DEF TypeOK
  <2>3. faulty' \in [Resource -> Faults(rule)]
    BY <2>1 DEF TypeOK
  <2>4. Shape'
    BY <2>1 DEF TypeOK, Shape
  <2> QED
    BY <2>1, <2>2, <2>3, <2>4 DEF TypeOK
<1>3. ASSUME NEW c \in Call, Deny(c) \/ Allow(c)
      PROVE  /\ Drifts
             /\ existing' \subseteq Resource
             /\ gate' \in [Resource -> Gates(rule) \union {{}}]
             /\ faulty' \in [Resource -> Faults(rule)]
             /\ Shape'
             /\ denied' \subseteq Call
  <2>1. /\ Drifts /\ rule' = rule
        /\ UNCHANGED <<existing, gate, faulty>>
        /\ denied' \subseteq denied \union {c}
    BY <1>3 DEF Deny, Allow, Drifts
  <2>2. Shape'
    BY <2>1 DEF TypeOK, Shape
  <2> QED
    BY <2>1, <2>2 DEF TypeOK
<1> QED
  BY <1>1, <1>2, <1>3 DEF AccountStep

(* The check's own steps leave the account alone, and all that is said of  *)
(* it.                                                                     *)
LEMMA CheckStepsKeepAccount ==
  ASSUME CheckStep
  PROVE  UNCHANGED account
BY DEF CheckStep, ListPage, ListPassedOver, ListRaises, SkipUnversioned, Take, GatePassed, LookedAt,
       CallPassedOver, CallRaises, Yield, NextResource, Return

LEMMA AccountKeeps ==
  ASSUME UNCHANGED account
  PROVE  Applies' = Applies /\ Faulty' = Faulty /\ Plain' = Plain /\ Shape' = Shape
BY DEF account, Applies, Faulty, Plain, Readable, Shape

-----------------------------------------------------------------------------
(* Type correctness, for any resources and number of changes. *)
LEMMA InitTypeOK == Init => TypeOK
<1> SUFFICES ASSUME Init PROVE TypeOK
  OBVIOUS
<1>1. 1 \in Resource /\ 0 \in 0 .. N /\ 0 \in 0 .. MaxDrift
  BY IamKmsAssumption DEF Resource
<1>2. existing \subseteq Resource
  BY <1>1 DEF Init
<1>3. denied \subseteq Call
  BY IamKmsAssumption DEF Init
<1>4. noted \in [Resource -> SUBSET Part]
  BY DEF Init
<1>5. half \subseteq Item /\ whole \subseteq Item /\ steady \subseteq Item
  BY DEF Init, Applies, Faulty, Plain
<1>6. pc \in {"list", "next"}
  BY DEF Init
<1> QED
  BY <1>1, <1>2, <1>3, <1>4, <1>5, <1>6 DEF Init, TypeOK

LEMMA NextTypeOK == TypeOK /\ [Next]_vars => TypeOK'
<1> SUFFICES ASSUME TypeOK, [Next]_vars PROVE TypeOK'
  OBVIOUS
<1> DEFINE AccountOK == /\ rule \in Rules
                        /\ existing \subseteq Resource
                        /\ gate \in [Resource -> Gates(rule) \union {{}}]
                        /\ faulty \in [Resource -> Faults(rule)]
                        /\ Shape
                        /\ denied \subseteq Call
                        /\ drift \in 0 .. MaxDrift
                        /\ half \subseteq Item /\ whole \subseteq Item /\ steady \subseteq Item
           CheckOK == /\ pc \in {"list", "next", "gate", "look", "yield", "returned", "raised"}
                      /\ marker \in 0 .. N
                      /\ todo \subseteq Resource
                      /\ noted \in [Resource -> SUBSET Part]
                      /\ cur \in Resource
                      /\ pc \in {"gate", "look", "yield"} => cur \in todo
                      /\ pending \subseteq Part
                      /\ findings \subseteq Item
                      /\ met \subseteq {"list", "gate", "look"} \X (0 .. N)
                                         \X (Failure \union {"denied"})
<1>1. AccountOK /\ CheckOK
  BY DEF TypeOK
<1>2. CASE CheckStep
  <2>1. AccountOK'
    BY <1>1, <1>2, CheckStepsKeepAccount, AccountKeeps DEF account
  <2>2. gate \in [Resource -> SUBSET Part] /\ faulty \in [Resource -> SUBSET Part]
    BY PartsAreParts DEF TypeOK
  <2>3. Resource \subseteq 0 .. N /\ 0 \in 0 .. N
    BY IamKmsAssumption DEF Resource
  <2>4. ASSUME NEW m \in Resource, ListPage(m) PROVE CheckOK'
    <3>1. marker' \in 0 .. N /\ pc' \in {"next", "list"}
      BY <2>3, <2>4 DEF ListPage
    <3>2. todo' \subseteq Resource
      BY <1>1, <2>4 DEF ListPage, TypeOK
    <3>3. noted' \in [Resource -> SUBSET Part]
      BY <1>1, <2>2, <2>4 DEF ListPage
    <3> QED
      BY <1>1, <2>4, <3>1, <3>2, <3>3 DEF ListPage, account
  <2>5. ASSUME ListPassedOver \/ ListRaises PROVE CheckOK'
    <3>1. PICK a \in ListAnswers : met' = met \union {<<"list", 0, a>>}
      BY <2>5 DEF ListPassedOver, ListRaises
    <3>2. a \in Failure \union {"denied"}
      BY DEF ListAnswers, Failure
    <3>3. met' \subseteq {"list", "gate", "look"} \X (0 .. N) \X (Failure \union {"denied"})
      BY <1>1, <2>3, <3>1, <3>2
    <3>4. /\ pc' \in {"returned", "raised"}
          /\ UNCHANGED <<marker, todo, noted, cur, pending, findings>>
      BY <2>5 DEF ListPassedOver, ListRaises
    <3> QED
      BY <1>1, <3>3, <3>4
  <2>6. ASSUME NEW r \in Resource, SkipUnversioned(r) \/ Take(r) PROVE CheckOK'
    BY <1>1, <2>6 DEF SkipUnversioned, Take, account
  <2>7. ASSUME GatePassed PROVE CheckOK'
    BY <1>1, <2>2, <2>7 DEF GatePassed, account
  <2>8. ASSUME LookedAt PROVE CheckOK'
    BY <1>1, <2>2, <2>8 DEF LookedAt, account
  <2>9. ASSUME CallPassedOver \/ CallRaises PROVE CheckOK'
    <3>1. PICK a \in Answers : a # "yes" /\ Remember(a)
      <4>1. CASE CallPassedOver
        <5>1. rule \in Rule
          BY <1>1, IamKmsAssumption
        <5>2. pc \in {"gate", "look"}
          BY <4>1 DEF CallPassedOver
        <5>3. "yes" \notin PassesOver[pc]
          BY <5>1, <5>2, PassesOverAre
        <5> QED
          BY <4>1, <5>3 DEF CallPassedOver
      <4>2. CASE CallRaises
        BY <4>2 DEF CallRaises
      <4> QED
        BY <2>9, <4>1, <4>2
    <3>2. pc \in {"gate", "look"}
      BY <2>9 DEF CallPassedOver, CallRaises
    <3>3. a = "no" \/ a \in Failure \union {"denied"}
      BY <3>1 DEF Answers, Failure
    <3>4. met' \subseteq {"list", "gate", "look"} \X (0 .. N) \X (Failure \union {"denied"})
      BY <1>1, <2>3, <3>1, <3>2, <3>3 DEF Remember
    <3>5. /\ pc' \in {"next", "raised"} /\ todo' \subseteq todo
          /\ UNCHANGED <<marker, noted, cur, pending, findings>>
      BY <2>9 DEF CallPassedOver, CallRaises
    <3> QED
      BY <1>1, <3>4, <3>5
  <2>10. ASSUME NEW p \in Part, Yield(p) PROVE CheckOK'
    BY <1>1, <2>10 DEF Yield, account, Item
  <2>11. ASSUME NextResource PROVE CheckOK'
    BY <1>1, <2>11 DEF NextResource, account
  <2>12. ASSUME Return PROVE CheckOK'
    BY <1>1, <2>12 DEF Return, account
  <2>13. CheckOK'
    BY <1>2, <2>4, <2>5, <2>6, <2>7, <2>8, <2>9, <2>10, <2>11, <2>12 DEF CheckStep
  <2> QED
    BY <2>1, <2>13 DEF TypeOK
<1>3. CASE AccountStep
  <2>1. /\ Drifts
        /\ existing' \subseteq Resource
        /\ gate' \in [Resource -> Gates(rule) \union {{}}]
        /\ faulty' \in [Resource -> Faults(rule)]
        /\ Shape'
        /\ denied' \subseteq Call
    BY <1>3, AccountStepDrifts
  <2>2. drift' \in 0 .. MaxDrift /\ rule' = rule
    BY <1>1, <2>1, IamKmsAssumption DEF Drifts
  <2>3. (Applies \subseteq Item)' /\ (Faulty \subseteq Item)'
    BY DEF Applies, Faulty
  <2>4. half' \subseteq Item /\ whole' \subseteq Item /\ steady' \subseteq Item
    BY <1>1, <2>1, <2>3 DEF Drifts
  <2>5. AccountOK'
    BY <1>1, <2>1, <2>2, <2>4
  <2>6. CheckOK'
    BY <1>1, <2>1 DEF Drifts
  <2> QED
    BY <2>5, <2>6 DEF TypeOK
<1>4. CASE UNCHANGED vars
  <2>1. UNCHANGED account
    BY <1>4 DEF vars, account
  <2>2. Shape' = Shape
    BY <2>1, AccountKeeps
  <2> QED
    BY <1>4, <2>2 DEF vars, TypeOK
<1> QED
  BY <1>2, <1>3, <1>4 DEF Next

THEOREM SpecTypeOK == Spec => []TypeOK
<1> QED
  BY InitTypeOK, NextTypeOK, PTL DEF Spec

-----------------------------------------------------------------------------
(* What every state says of the account now, and of where the check is. *)
Background ==
  /\ Applies \subseteq half
  /\ half \intersect Faulty \subseteq whole
  /\ steady \subseteq Plain
  /\ pc = "list" => rule \notin AccountRules
  /\ pc = "gate" => rule \in GateRules

LEMMA BackgroundHolds == Spec => []Background
<1>1. Init => Background
  BY DEF Init, Background, Applies, Faulty
<1>2. TypeOK /\ Background /\ [Next]_vars => Background'
  <2> SUFFICES ASSUME TypeOK, Background, [Next]_vars PROVE Background'
    OBVIOUS
  <2>1. CASE CheckStep
    <3>1. UNCHANGED account /\ Applies' = Applies /\ Faulty' = Faulty /\ Plain' = Plain
      BY <2>1, CheckStepsKeepAccount, AccountKeeps
    <3>2. pc' = "list" => pc = "list"
      BY <2>1 DEF CheckStep, ListPage, ListPassedOver, ListRaises, SkipUnversioned, Take, GatePassed, LookedAt,
        CallPassedOver, CallRaises, Yield, NextResource, Return
    <3>3. pc' = "gate" => pc = "gate" \/ rule \in GateRules
      BY <2>1 DEF CheckStep, ListPage, ListPassedOver, ListRaises, SkipUnversioned, Take, GatePassed, LookedAt,
        CallPassedOver, CallRaises, Yield, NextResource, Return
    <3> QED
      BY <3>1, <3>2, <3>3 DEF Background, account
  <2>2. CASE AccountStep
    <3>1. Drifts
      BY <2>2, AccountStepDrifts
    <3> QED
      BY <3>1 DEF Drifts, Background
  <2>3. CASE UNCHANGED vars
    <3>1. UNCHANGED account /\ Applies' = Applies /\ Faulty' = Faulty /\ Plain' = Plain
      BY <2>3, AccountKeeps DEF vars, account
    <3> QED
      BY <2>3, <3>1 DEF vars, account, Background
  <2> QED
    BY <2>1, <2>2, <2>3 DEF Next
<1> QED
  BY <1>1, <1>2, SpecTypeOK, PTL DEF Spec

-----------------------------------------------------------------------------
(* What the check holds in its variables was true when it was read: what   *)
(* is noted of a resource still to be dealt with did apply, and what is    *)
(* pending was wrong after that.                                           *)
Read ==
  /\ \A r \in Resource : r \in todo \/ pc = "list" =>
       \A p \in noted[r] : <<r, p>> \in half
  /\ pc = "yield" => \A p \in pending : <<cur, p>> \in whole
  /\ findings \subseteq whole

LEMMA ReadInit == Init => Read
<1> SUFFICES ASSUME Init PROVE Read
  OBVIOUS
<1>1. CASE rule \in AccountRules
  <2>1. todo = {1} /\ existing = {1} /\ pc = "next" /\ findings = {}
    BY <1>1 DEF Init
  <2>2. 1 \in Resource
    BY IamKmsAssumption DEF Resource
  <2>3. gate[1] \in Gates(rule)
    BY <2>1, <2>2 DEF Init, Shape
  <2>4. Gates(rule) = {Part}
    BY <1>1, Zenon DEF Gates, GateRules, AccountRules
  <2>5. gate[1] = Part
    BY <2>3, <2>4
  <2>6. \A p \in Part : <<1, p>> \in Applies
    BY <2>2, <2>5 DEF Applies, Item
  <2>7. \A p \in noted[1] : <<1, p>> \in half
    BY <2>2, <2>6, <1>1 DEF Init
  <2> QED
    BY <2>1, <2>7 DEF Read
<1>2. CASE rule \notin AccountRules
  <2>1. pc = "list" /\ findings = {} /\ noted = [r \in Resource |-> {}]
    BY <1>2 DEF Init
  <2> QED
    BY <2>1 DEF Read
<1> QED
  BY <1>1, <1>2

LEMMA ReadNext == TypeOK /\ Background /\ Read /\ [Next]_vars => Read'
<1> SUFFICES ASSUME TypeOK, Background, Read, [Next]_vars PROVE Read'
  OBVIOUS
<1>0. /\ gate \in [Resource -> SUBSET Part] /\ faulty \in [Resource -> SUBSET Part]
      /\ noted \in [Resource -> SUBSET Part] /\ cur \in Resource
  BY PartsAreParts DEF TypeOK
<1>1. \A r \in Resource : \A p \in gate[r] : <<r, p>> \in half
  BY <1>0 DEF Background, Applies, Item
<1>2. CASE CheckStep
  <2>1. half' = half /\ whole' = whole
    BY <1>2, CheckStepsKeepAccount DEF account
  <2>2. ASSUME NEW m \in Resource, ListPage(m) PROVE Read'
    <3>1. \A r \in Resource : noted'[r] \in {gate[r], noted[r]}
      BY <2>2 DEF ListPage
    <3>2. \A r \in Resource : \A p \in noted'[r] : <<r, p>> \in half
      BY <1>1, <2>2, <3>1 DEF ListPage, Read
    <3>3. pc' # "yield" /\ findings' = findings
      BY <2>2 DEF ListPage
    <3> QED
      BY <2>1, <3>2, <3>3 DEF Read
  <2>3. ASSUME ListPassedOver \/ ListRaises PROVE Read'
    BY <2>1, <2>3 DEF ListPassedOver, ListRaises, Read
  <2>4. ASSUME NEW r \in Resource, SkipUnversioned(r) \/ Take(r) PROVE Read'
    BY <2>1, <2>4 DEF SkipUnversioned, Take, Read
  <2>5. ASSUME GatePassed PROVE Read'
    <3>1. \A r \in Resource : noted'[r] = IF r = cur THEN gate[r] ELSE noted[r]
      BY <1>0, <2>5 DEF GatePassed
    <3> QED
      BY <1>1, <2>1, <2>5, <3>1 DEF GatePassed, Read
  <2>6. ASSUME LookedAt PROVE Read'
    <3>1. \A p \in pending' : p \in Part /\ p \in faulty[cur] /\ p \in noted[cur]
      BY <1>0, <2>6 DEF LookedAt
    <3>2. cur \in todo
      BY <2>6 DEF LookedAt, TypeOK
    <3>3. \A p \in pending' : <<cur, p>> \in half /\ <<cur, p>> \in Faulty
      BY <1>0, <3>1, <3>2 DEF Read, Faulty, Item
    <3>4. \A p \in pending' : <<cur, p>> \in whole
      BY <3>3 DEF Background
    <3> QED
      BY <2>1, <2>6, <3>4 DEF LookedAt, Read
  <2>7. ASSUME CallPassedOver \/ CallRaises PROVE Read'
    BY <2>1, <2>7 DEF CallPassedOver, CallRaises, Read
  <2>8. ASSUME NEW p \in Part, Yield(p) PROVE Read'
    BY <2>1, <2>8 DEF Yield, Read
  <2>9. ASSUME NextResource \/ Return PROVE Read'
    BY <2>1, <2>9 DEF NextResource, Return, Read
  <2> QED
    BY <1>2, <2>2, <2>3, <2>4, <2>5, <2>6, <2>7, <2>8, <2>9 DEF CheckStep
<1>3. CASE AccountStep
  <2>1. Drifts
    BY <1>3, AccountStepDrifts
  <2>2. half \subseteq half' /\ whole \subseteq whole'
    BY <2>1 DEF Drifts
  <2> QED
    BY <2>1, <2>2 DEF Drifts, Read
<1>4. CASE UNCHANGED vars
  BY <1>4 DEF vars, Read
<1> QED
  BY <1>2, <1>3, <1>4 DEF Next

(* A finding's readings were true when they were made, in that order,      *)
(* however the account changes between them.                               *)
THEOREM SpecFindingsJustified == Spec => []FindingsJustified
<1>1. Read => FindingsJustified
  BY DEF Read, FindingsJustified
<1> QED
  BY <1>1, ReadInit, ReadNext, SpecTypeOK, BackgroundHolds, PTL DEF Spec

-----------------------------------------------------------------------------
(* Where a part that was wrong, and could be read, all along can be. *)
Reached ==
  /\ \A x \in steady :
       \/ x \in findings \/ pc = "raised"
       \/ x[1] \in todo /\ pc # "returned"
       \/ pc = "list" /\ marker < x[1]
  /\ rule \notin GateRules =>
       \A x \in steady : x[1] \in todo => x[2] \in noted[x[1]]
  /\ pc = "look" => \A x \in steady : x[1] = cur => x[2] \in noted[cur]
  /\ pc = "yield" => \A x \in steady : x[1] = cur => x \in findings \/ x[2] \in pending

LEMMA SteadyIs ==
  ASSUME TypeOK, Background
  PROVE  \A x \in steady :
           /\ x \in Item /\ x = <<x[1], x[2]>> /\ x[1] \in Resource /\ x[1] \in existing
           /\ x[2] \in gate[x[1]] /\ x[2] \in faulty[x[1]]
           /\ <<"list", 0>> \notin denied
           /\ <<"gate", x[1]>> \notin denied /\ <<"look", x[1]>> \notin denied
<1> SUFFICES ASSUME NEW x \in steady
             PROVE  /\ x \in Item /\ x = <<x[1], x[2]>>
                    /\ x[1] \in Resource /\ x[1] \in existing
                    /\ x[2] \in gate[x[1]] /\ x[2] \in faulty[x[1]]
                    /\ <<"list", 0>> \notin denied
                    /\ <<"gate", x[1]>> \notin denied /\ <<"look", x[1]>> \notin denied
  OBVIOUS
<1>1. x \in Applies /\ x \in Faulty /\ Readable(x[1])
  BY DEF Background, Plain
<1>2. x \in Item /\ x[2] \in gate[x[1]] /\ x[2] \in faulty[x[1]]
  BY <1>1 DEF Applies, Faulty
<1>3. x = <<x[1], x[2]>> /\ x[1] \in Resource
  BY <1>2 DEF Item
<1>4. x[1] \in existing
  BY <1>2, <1>3 DEF TypeOK, Shape
<1>5. <<"list", 0>> \notin denied /\ <<"gate", x[1]>> \notin denied /\ <<"look", x[1]>> \notin denied
  BY <1>1 DEF Readable
<1> QED
  BY <1>2, <1>3, <1>4, <1>5

LEMMA ReachedInit == Init => Reached
<1> SUFFICES ASSUME Init PROVE Reached
  OBVIOUS
<1>1. TypeOK /\ Background
  <2>1. Background
    BY DEF Init, Background, Applies, Faulty
  <2> QED
    BY <2>1, InitTypeOK
<1>2. pc \notin {"look", "yield", "returned"}
  BY DEF Init
<1>3. CASE rule \in AccountRules
  <2>1. todo = {1} /\ existing = {1} /\ noted = [r \in Resource |-> Part]
    BY <1>3 DEF Init
  <2>2. \A x \in steady : x[1] = 1 /\ x[2] \in noted[x[1]]
    BY <1>1, <2>1, SteadyIs DEF Item
  <2> QED
    BY <1>2, <2>1, <2>2 DEF Reached
<1>4. CASE rule \notin AccountRules
  <2>1. todo = {} /\ marker = 0 /\ pc = "list"
    BY <1>4 DEF Init
  <2>2. \A x \in steady : 0 < x[1]
    <3>1. \A r \in Resource : 0 < r
      BY IamKmsAssumption DEF Resource
    <3> QED
      BY <1>1, <3>1, SteadyIs
  <2> QED
    BY <2>1, <2>2 DEF Reached
<1> QED
  BY <1>3, <1>4

LEMMA ReachedNext == TypeOK /\ Background /\ Reached /\ [Next]_vars => Reached'
<1> SUFFICES ASSUME TypeOK, Background, Reached, [Next]_vars PROVE Reached'
  OBVIOUS
<1>0. /\ gate \in [Resource -> SUBSET Part] /\ faulty \in [Resource -> SUBSET Part]
      /\ noted \in [Resource -> SUBSET Part] /\ cur \in Resource /\ rule \in Rule
      /\ N \in Nat /\ Resource = 1 .. N /\ marker \in 0 .. N
  BY PartsAreParts, IamKmsAssumption DEF TypeOK, Resource
<1>1. CASE CheckStep
  <2>1. steady' = steady /\ rule' = rule
    BY <1>1, CheckStepsKeepAccount DEF account
  <2>2. ASSUME NEW m \in Resource, ListPage(m) PROVE Reached'
    <3>0. PICK missing \in SUBSET MayBeMissing :
            LET page == {r \in existing \ missing : marker < r /\ r <= m}
            IN /\ todo' = todo \union page
               /\ noted' = [r \in Resource |->
                    IF r \in page /\ rule \notin GateRules THEN gate[r] ELSE noted[r]]
      BY <2>2 DEF ListPage
    <3> DEFINE page == {r \in existing \ missing : marker < r /\ r <= m}
    <3>1. todo' = todo \union page /\ findings' = findings /\ marker' = m /\ pc' \in {"next", "list"}
      BY <2>2, <3>0 DEF ListPage
    <3>2. ASSUME NEW x \in steady
          PROVE  \/ x \in findings'
                 \/ x[1] \in todo' /\ pc' # "returned"
                 \/ pc' = "list" /\ marker' < x[1]
      <4>1. x[1] \in 1 .. N /\ x[1] \in existing \ missing
        BY <1>0, SteadyIs DEF MayBeMissing
      <4>2. CASE marker < x[1] /\ x[1] <= m
        BY <3>1, <4>1, <4>2
      <4>3. CASE m < x[1]
        <5>1. m # N
          BY <1>0, <4>1, <4>3
        <5> QED
          BY <2>2, <3>1, <4>3, <5>1 DEF ListPage
      <4>4. CASE ~(marker < x[1])
        <5>1. pc = "list"
          BY <2>2 DEF ListPage
        <5> QED
          BY <3>1, <4>4, <5>1 DEF Reached
      <4> QED
        BY <1>0, <4>1, <4>2, <4>3, <4>4
    <3>3. ASSUME rule \notin GateRules, NEW x \in steady, x[1] \in todo'
          PROVE  x[2] \in noted'[x[1]]
      <4>1. noted'[x[1]] = IF x[1] \in page THEN gate[x[1]] ELSE noted[x[1]]
        BY <3>0, <3>3, SteadyIs
      <4>2. CASE x[1] \in page
        BY <4>1, <4>2, SteadyIs
      <4>3. CASE x[1] \notin page
        BY <3>1, <3>3, <4>1, <4>3 DEF Reached
      <4> QED
        BY <4>2, <4>3
    <3> QED
      BY <2>1, <3>1, <3>2, <3>3 DEF Reached
  <2>3. ASSUME ListPassedOver PROVE Reached'
    <3>1. \E a : a \in ListAnswers /\ a \in PassesOver.list
      BY <2>3 DEF ListPassedOver
    <3>2. <<"list", 0>> \in denied
      BY <1>0, <3>1, PassesOverAre DEF ListAnswers
    <3>3. steady = {}
      BY <3>2, SteadyIs
    <3> QED
      BY <2>1, <3>3 DEF Reached
  <2>4. ASSUME ListRaises PROVE Reached'
    BY <2>1, <2>4 DEF ListRaises, Reached
  <2>5. ASSUME NEW r \in Resource, Take(r) PROVE Reached'
    <3>1. pc' = "look" => rule \notin GateRules
      BY <2>5 DEF Take
    <3>2. /\ r \in todo /\ cur' = r /\ pc = "next" /\ pc' \in {"look", "gate"}
          /\ UNCHANGED <<todo, noted, findings>>
      BY <2>5 DEF Take
    <3> QED
      BY <2>1, <3>1, <3>2 DEF Reached
  <2>6. ASSUME GatePassed PROVE Reached'
    <3>1. /\ noted' = [noted EXCEPT ![cur] = gate[cur]] /\ pc = "gate" /\ pc' = "look"
          /\ UNCHANGED <<todo, findings, cur>> /\ rule \in GateRules
      BY <2>6 DEF GatePassed, Background
    <3>2. noted'[cur] = gate[cur]
      BY <1>0, <3>1
    <3> QED
      BY <2>1, <3>1, <3>2, SteadyIs DEF Reached
  <2>7. ASSUME LookedAt PROVE Reached'
    <3>1. /\ pending' = faulty[cur] \intersect noted[cur] /\ pc = "look" /\ pc' = "yield"
          /\ UNCHANGED <<todo, findings, cur, noted>>
      BY <2>7 DEF LookedAt
    <3>2. \A x \in steady : x[1] = cur => x[2] \in pending'
      BY <3>1, SteadyIs DEF Reached
    <3> QED
      BY <2>1, <3>1, <3>2 DEF Reached
  <2>8. ASSUME CallPassedOver PROVE Reached'
    <3>1. PICK a : a \in Answers /\ a \in PassesOver[pc] /\ pc \in {"gate", "look"}
      BY <2>8 DEF CallPassedOver
    <3>2. a \in {"no", "gone", "denied"} /\ (a = "no" \/ a = "gone" => pc = "gate")
      BY <1>0, <3>1, PassesOverAre
    <3>3. ASSUME NEW x \in steady, x[1] = cur PROVE FALSE
      <4>1. cur \in existing /\ gate[cur] # {} /\ <<pc, cur>> \notin denied
        BY <3>1, <3>3, SteadyIs
      <4>2. a = "gone"
        BY <3>1, <3>2, <4>1 DEF Answers
      <4>3. rule = "user-mfa-missing"
        BY <1>0, <3>1, <3>2, <4>2, PassesOverAre
      <4>4. rule # "admin-policy-attached"
        BY <4>3
      <4> QED
        BY <3>1, <4>1, <4>2, <4>4 DEF Answers
    <3>4. /\ todo' = todo \ {cur} /\ pc' = "next"
          /\ UNCHANGED <<noted, findings>>
      BY <2>8 DEF CallPassedOver
    <3> QED
      BY <2>1, <3>1, <3>3, <3>4 DEF Reached
  <2>9. ASSUME CallRaises PROVE Reached'
    BY <2>1, <2>9 DEF CallRaises, Reached
  <2>10. ASSUME NEW p \in Part, Yield(p) PROVE Reached'
    <3>1. /\ findings' = findings \union {<<cur, p>>} /\ pending' = pending \ {p}
          /\ pc = "yield" /\ UNCHANGED <<pc, todo, noted, cur, marker>>
      BY <2>10 DEF Yield
    <3>2. ASSUME NEW x \in steady, x[1] = cur PROVE x \in findings' \/ x[2] \in pending'
      <4>1. x = <<cur, x[2]>>
        BY <3>2, SteadyIs
      <4>2. x \in findings \/ x[2] \in pending
        BY <3>1, <3>2 DEF Reached
      <4> QED
        BY <3>1, <4>1, <4>2
    <3> QED
      BY <2>1, <3>1, <3>2 DEF Reached
  <2>11. ASSUME NextResource PROVE Reached'
    <3>1. /\ pc = "yield" /\ pending = {} /\ todo' = todo \ {cur} /\ pc' = "next"
          /\ UNCHANGED <<noted, findings>>
      BY <2>11 DEF NextResource
    <3>2. \A x \in steady : x[1] = cur => x \in findings
      BY <3>1 DEF Reached
    <3> QED
      BY <2>1, <3>1, <3>2 DEF Reached
  <2>12. ASSUME Return PROVE Reached'
    <3>1. /\ pc = "next" /\ todo = {} /\ pc' = "returned"
          /\ UNCHANGED <<noted, findings, todo>>
      BY <2>12 DEF Return
    <3>2. \A x \in steady : x \in findings
      BY <3>1 DEF Reached
    <3> QED
      BY <2>1, <3>1, <3>2 DEF Reached
  <2>13. ASSUME NEW r \in Resource, SkipUnversioned(r) PROVE Reached'
    <3>1. /\ pc = "next" /\ todo' = todo \ {r} /\ UNCHANGED <<pc, noted, findings>>
          /\ noted[r] = {} /\ rule \notin GateRules
      BY <2>13 DEF SkipUnversioned, Unversioned, GateRules
    <3>2. \A x \in steady : x[1] \in todo => x[1] # r
      BY <3>1 DEF Reached
    <3> QED
      BY <2>1, <3>1, <3>2 DEF Reached
  <2> QED
    BY <1>1, <2>2, <2>3, <2>4, <2>5, <2>6, <2>7, <2>8, <2>9, <2>10, <2>11, <2>12, <2>13 DEF CheckStep
<1>2. CASE AccountStep
  <2>1. Drifts
    BY <1>2, AccountStepDrifts
  <2>2. steady' \subseteq steady
    BY <2>1 DEF Drifts
  <2> QED
    BY <2>1, <2>2 DEF Drifts, Reached
<1>3. CASE UNCHANGED vars
  BY <1>3 DEF vars, Reached
<1> QED
  BY <1>1, <1>2, <1>3 DEF Next

(* A check that returns has reported every part that was wrong, and could  *)
(* be read, all along.                                                     *)
THEOREM SpecSteadyFlawsFound == Spec => []SteadyFlawsFound
<1>1. Reached => SteadyFlawsFound
  BY DEF Reached, SteadyFlawsFound
<1> QED
  BY <1>1, ReachedInit, ReachedNext, SpecTypeOK, BackgroundHolds, PTL DEF Spec

-----------------------------------------------------------------------------
(* Why a check has ended, or has not: the two properties about failures,   *)
(* the second made inductive.                                              *)
Reasons ==
  /\ DenialsContained
  /\ pc # "raised" =>
       \A c \in met : \/ c[3] = "denied"
                      \/ rule = "user-mfa-missing" /\ c[1] = "gate" /\ c[3] = "gone"

LEMMA ReasonsNext == TypeOK /\ Background /\ Reasons /\ [Next]_vars => Reasons'
<1> SUFFICES ASSUME TypeOK, Background, Reasons, [Next]_vars PROVE Reasons'
  OBVIOUS
<1>0. rule \in Rule
  BY IamKmsAssumption DEF TypeOK
<1>1. CASE CheckStep
  <2>1. rule' = rule
    BY <1>1, CheckStepsKeepAccount DEF account
  <2>2. ASSUME met' = met, pc # "raised", pc' # "raised" PROVE Reasons'
    BY <2>1, <2>2 DEF Reasons, DenialsContained
  <2>3. ASSUME ListPassedOver PROVE Reasons'
    <3>1. PICK a \in ListAnswers \intersect PassesOver.list : met' = met \union {<<"list", 0, a>>}
      BY <2>3 DEF ListPassedOver
    <3>2. a = "denied"
      BY <1>0, <3>1, PassesOverAre
    <3>3. pc = "list" /\ pc' = "returned"
      BY <2>3 DEF ListPassedOver
    <3> QED
      BY <2>1, <3>1, <3>2, <3>3 DEF Reasons, DenialsContained
  <2>4. ASSUME ListRaises PROVE Reasons'
    <3>1. PICK a \in ListAnswers \ PassesOver.list : met' = met \union {<<"list", 0, a>>}
      BY <2>4 DEF ListRaises
    <3>2. pc = "list" /\ pc' = "raised" /\ rule \notin AccountRules
      BY <2>4 DEF ListRaises, Background
    <3>3. a \in Failure \/ (a = "denied" /\ <<rule, "list">> \in EndsAtDenial)
      BY <1>0, <3>1, <3>2, PassesOverAre DEF ListAnswers, Failure
    <3>4. \E c \in met' : c[3] \in Failure \/ <<rule, c[1]>> \in EndsAtDenial
      <4>1. <<"list", 0, a>> \in met'
        BY <3>1
      <4> QED
        BY <3>3, <4>1
    <3> QED
      BY <2>1, <3>2, <3>4 DEF Reasons, DenialsContained
  <2>5. ASSUME CallPassedOver PROVE Reasons'
    <3>1. PICK a \in Answers \intersect PassesOver[pc] : Remember(a)
      BY <2>5 DEF CallPassedOver
    <3>2. pc \in {"gate", "look"} /\ pc' = "next"
      BY <2>5 DEF CallPassedOver
    <3>3. a = "no" \/ a = "denied" \/ (a = "gone" /\ pc = "gate" /\ rule = "user-mfa-missing")
      BY <1>0, <3>1, <3>2, PassesOverAre
    <3>4. met' = met \/ (met' = met \union {<<pc, cur, a>>} /\ a # "no")
      BY <3>1 DEF Remember
    <3> QED
      BY <2>1, <3>2, <3>3, <3>4 DEF Reasons, DenialsContained
  <2>6. ASSUME CallRaises PROVE Reasons'
    <3>1. PICK a \in Answers \ (PassesOver[pc] \union {"yes"}) : Remember(a)
      BY <2>6 DEF CallRaises
    <3>2. pc \in {"gate", "look"} /\ pc' = "raised"
      BY <2>6 DEF CallRaises
    <3>3. pc = "gate" => rule \in GateRules
      BY DEF Background
    <3>4. a # "no"
      BY <1>0, <3>1, <3>2, <3>3, PassesOverAre DEF Answers
    <3>5. a \in Failure \/ (a = "denied" /\ <<rule, pc>> \in EndsAtDenial)
      BY <1>0, <3>1, <3>2, <3>3, <3>4, PassesOverAre DEF Answers, Failure
    <3>6. <<pc, cur, a>> \in met'
      BY <3>1, <3>4 DEF Remember
    <3>7. \E c \in met' : c[3] \in Failure \/ <<rule, c[1]>> \in EndsAtDenial
      BY <3>5, <3>6
    <3> QED
      BY <2>1, <3>2, <3>7 DEF Reasons, DenialsContained
  <2>7. CASE \E m \in Resource : ListPage(m)
    BY <2>2, <2>7 DEF ListPage
  <2>8. CASE \E r \in Resource : SkipUnversioned(r) \/ Take(r)
    BY <2>2, <2>8 DEF SkipUnversioned, Take
  <2>9. CASE GatePassed \/ LookedAt \/ NextResource \/ Return
    BY <2>2, <2>9 DEF GatePassed, LookedAt, NextResource, Return
  <2>10. CASE \E p \in Part : Yield(p)
    BY <2>2, <2>10 DEF Yield
  <2> QED
    BY <1>1, <2>3, <2>4, <2>5, <2>6, <2>7, <2>8, <2>9, <2>10 DEF CheckStep
<1>2. CASE AccountStep
  <2>1. Drifts
    BY <1>2, AccountStepDrifts
  <2> QED
    BY <2>1 DEF Drifts, Reasons, DenialsContained
<1>3. CASE UNCHANGED vars
  BY <1>3 DEF vars, Reasons, DenialsContained
<1> QED
  BY <1>1, <1>2, <1>3 DEF Next

LEMMA ReasonsHold == Spec => []Reasons
<1>1. Init => Reasons
  BY DEF Init, Reasons, DenialsContained
<1> QED
  BY <1>1, ReasonsNext, SpecTypeOK, BackgroundHolds, PTL DEF Spec

(* A denial ends a check only where the code has no way round it. *)
THEOREM SpecDenialsContained == Spec => []DenialsContained
<1>1. Reasons => DenialsContained
  BY DEF Reasons
<1> QED
  BY <1>1, ReasonsHold, PTL

(* No failure is swallowed, but for the user who is gone when the login    *)
(* profile is read.                                                        *)
THEOREM SpecFaultsEndTheCheck == Spec => []FaultsEndTheCheck
<1>1. Reasons => FaultsEndTheCheck
  BY DEF Reasons, FaultsEndTheCheck
<1> QED
  BY <1>1, ReasonsHold, PTL

-----------------------------------------------------------------------------
(* The check takes the steps of CheckPromise: what it yields has been read *)
(* (Read), and when it returns nothing is left to come (Reached).          *)
LEMMA StepKeepsPromise ==
  ASSUME TypeOK', Read, Reached', [Next]_vars
  PROVE  [Promise!Next]_(Promise!checkVars)
<1>1. CASE AccountStep
  <2>1. Drifts
    BY <1>1 DEF AccountStep, Delete, Create, Reconfigure, Deny, Allow
  <2>2. ~Over /\ ~Over' /\ UNCHANGED findings
    BY <2>1 DEF Drifts, Over
  <2>3. whole \subseteq whole' /\ whole' \subseteq Item /\ steady' \subseteq steady
    BY <2>1 DEF Drifts, TypeOK
  <2>4. Promise!Change
    BY <2>2, <2>3 DEF Promise!Change
  <2> QED
    BY <2>4 DEF Promise!Next
<1>2. CASE CheckStep
  <2>1. whole' = whole /\ steady' = steady
    BY <1>2, CheckStepsKeepAccount DEF account
  <2>2. ASSUME ~Over, ~Over', UNCHANGED findings PROVE UNCHANGED Promise!checkVars
    BY <2>1, <2>2 DEF Promise!checkVars
  <2>3. ASSUME ~Over, pc' = "returned", UNCHANGED findings PROVE Promise!Return
    <3>1. steady \subseteq findings
      BY <2>1, <2>3 DEF Reached
    <3> QED
      BY <2>1, <2>3, <3>1 DEF Promise!Return, Over
  <2>4. ASSUME ~Over, pc' = "raised", UNCHANGED findings PROVE Promise!Raise
    BY <2>1, <2>4 DEF Promise!Raise, Over
  <2>5. ASSUME NEW p \in Part, Yield(p) PROVE \E x \in whole : Promise!Deliver(x)
    <3>1. <<cur, p>> \in whole /\ ~Over /\ ~Over' /\ findings' = findings \union {<<cur, p>>}
      BY <2>5 DEF Yield, Read, Over
    <3> QED
      BY <2>1, <3>1 DEF Promise!Deliver
  <2>6. CASE \E p \in Part : Yield(p)
    BY <2>5, <2>6 DEF Promise!Next
  <2>7. CASE ListPassedOver \/ Return
    BY <2>3, <2>7 DEF ListPassedOver, Return, Over, Promise!Next
  <2>8. CASE ListRaises \/ CallRaises
    BY <2>4, <2>8 DEF ListRaises, CallRaises, Over, Promise!Next
  <2>9. CASE \/ \E m \in Resource : ListPage(m)
             \/ \E r \in Resource : SkipUnversioned(r) \/ Take(r)
    BY <2>2, <2>9 DEF ListPage, SkipUnversioned, Take, Over
  <2>10. CASE GatePassed \/ LookedAt \/ CallPassedOver \/ NextResource
    BY <2>2, <2>10 DEF GatePassed, LookedAt, CallPassedOver, NextResource, Over
  <2> QED
    BY <1>2, <2>6, <2>7, <2>8, <2>9, <2>10 DEF CheckStep
<1>3. CASE UNCHANGED vars
  BY <1>3 DEF vars, Promise!checkVars, Over
<1> QED
  BY <1>1, <1>2, <1>3 DEF Next

(* Each IAM check and the KMS check keeps CheckPromise at every step.      *)
THEOREM SpecImplementsCheckPromise == Spec => ImplementsCheckPromise
<1>1. Init => Promise!Init
  BY DEF Init, Promise!Init, Over, Plain, Applies
<1>2. TypeOK' /\ Read /\ Reached' /\ [Next]_vars => [Promise!Next]_(Promise!checkVars)
  BY StepKeepsPromise
<1> QED
  BY <1>1, <1>2, ReadInit, ReadNext, ReachedInit, ReachedNext, SpecTypeOK, BackgroundHolds, PTL
     DEF Spec, ImplementsCheckPromise, Promise!Spec

-----------------------------------------------------------------------------
(* The steps a check can still take, at most: while it lists, a page for   *)
(* each name to come; then for each resource the two calls, its parts, and *)
(* the way on to the next; and one to return.                              *)
StepsLeft ==
  CASE pc = "list" -> 6 * N + 2 + (N - marker)
    [] pc = "next" -> 6 * Cardinality(todo) + 1
    [] pc = "gate" -> 6 * Cardinality(todo)
    [] pc = "look" -> 6 * Cardinality(todo) - 1
    [] pc = "yield" -> 6 * Cardinality(todo) - 4 + Cardinality(pending)
    [] OTHER -> 0

StepsRunOut ==
  /\ StepsLeft \in Nat
  /\ CheckStep => StepsLeft' < StepsLeft
  /\ ~CheckStep => StepsLeft' = StepsLeft

LEMMA ResourcesAreFinite ==
  ASSUME NEW T \in SUBSET Resource
  PROVE  /\ Cardinality(T) \in Nat /\ Cardinality(T) <= N
         /\ \A r \in T : /\ Cardinality(T \ {r}) = Cardinality(T) - 1
                         /\ Cardinality(T) # 0
<1>1. IsFiniteSet(Resource) /\ Cardinality(Resource) = N
  BY FS_Interval, IamKmsAssumption DEF Resource
<1>2. IsFiniteSet(T) /\ Cardinality(T) <= N
  BY <1>1, FS_Subset
<1> QED
  BY <1>2, FS_CardinalityType, FS_RemoveElement, FS_EmptySet

LEMMA PartsAreFinite ==
  ASSUME NEW T \in SUBSET Part
  PROVE  /\ Cardinality(T) \in Nat /\ Cardinality(T) <= 2
         /\ \A p \in T : Cardinality(T \ {p}) = Cardinality(T) - 1
<1>1. IsFiniteSet({1}) /\ Cardinality({1}) = 1
  BY FS_Singleton
<1>2. IsFiniteSet({1} \union {2}) /\ Cardinality({1} \union {2}) = 2
  BY <1>1, FS_AddElement
<1>3. T \in SUBSET ({1} \union {2})
  BY DEF Part
<1>4. IsFiniteSet(T) /\ Cardinality(T) <= Cardinality({1} \union {2})
  BY <1>2, <1>3, FS_Subset
<1> QED
  BY <1>2, <1>4, FS_CardinalityType, FS_RemoveElement

LEMMA StepTakesOne ==
  ASSUME TypeOK, TypeOK', Next
  PROVE  StepsRunOut
<1>1. /\ Cardinality(todo) \in Nat /\ Cardinality(todo) <= N
      /\ Cardinality(todo') \in Nat /\ Cardinality(todo') <= N
      /\ Cardinality(pending) \in Nat /\ Cardinality(pending) <= 2
      /\ Cardinality(pending') \in Nat /\ Cardinality(pending') <= 2
      /\ N \in Nat /\ marker \in 0 .. N /\ marker' \in 0 .. N
  BY ResourcesAreFinite, PartsAreFinite, IamKmsAssumption DEF TypeOK
<1>2. pc \in {"gate", "look", "yield"} =>
        Cardinality(todo \ {cur}) = Cardinality(todo) - 1 /\ Cardinality(todo) # 0
  BY ResourcesAreFinite DEF TypeOK
<1>3. \A p \in pending : Cardinality(pending \ {p}) = Cardinality(pending) - 1
  BY PartsAreFinite DEF TypeOK
<1>4. StepsLeft \in Nat
  BY <1>1, <1>2 DEF StepsLeft
<1>5. ASSUME CheckStep PROVE StepsLeft' < StepsLeft
  <2>1. ASSUME NEW m \in Resource, ListPage(m) PROVE StepsLeft' < StepsLeft
    <3>1. pc = "list" /\ marker < m /\ marker' = m /\ pc' \in {"list", "next"}
      BY <2>1 DEF ListPage
    <3> QED
      BY <1>1, <3>1 DEF StepsLeft
  <2>2. CASE ListPassedOver \/ ListRaises
    BY <1>1, <2>2 DEF ListPassedOver, ListRaises, StepsLeft
  <2>3. ASSUME NEW r \in Resource, Take(r) PROVE StepsLeft' < StepsLeft
    <3>1. pc = "next" /\ todo' = todo /\ pc' \in {"gate", "look"}
      BY <2>3 DEF Take
    <3> QED
      BY <1>1, <3>1 DEF StepsLeft
  <2>11. ASSUME NEW r \in Resource, SkipUnversioned(r) PROVE StepsLeft' < StepsLeft
    <3>1. pc = "next" /\ pc' = "next" /\ r \in todo /\ todo' = todo \ {r}
      BY <2>11 DEF SkipUnversioned
    <3>2. Cardinality(todo') = Cardinality(todo) - 1
      BY <3>1, ResourcesAreFinite DEF TypeOK
    <3> QED
      BY <1>1, <3>1, <3>2 DEF StepsLeft
  <2>4. CASE GatePassed
    BY <1>1, <1>2, <2>4 DEF GatePassed, StepsLeft
  <2>5. CASE LookedAt
    <3>1. pc = "look" /\ pc' = "yield" /\ todo' = todo
      BY <2>5 DEF LookedAt
    <3> QED
      BY <1>1, <1>2, <3>1 DEF StepsLeft
  <2>6. CASE CallPassedOver
    <3>1. pc \in {"gate", "look"} /\ pc' = "next" /\ todo' = todo \ {cur}
      BY <2>6 DEF CallPassedOver
    <3> QED
      BY <1>1, <1>2, <3>1 DEF StepsLeft
  <2>7. CASE CallRaises
    <3>1. pc \in {"gate", "look"} /\ pc' = "raised"
      BY <2>7 DEF CallRaises
    <3> QED
      BY <1>1, <1>2, <3>1 DEF StepsLeft
  <2>8. ASSUME NEW p \in Part, Yield(p) PROVE StepsLeft' < StepsLeft
    BY <1>1, <1>2, <1>3, <2>8 DEF Yield, StepsLeft
  <2>9. CASE NextResource
    BY <1>1, <1>2, <2>9 DEF NextResource, StepsLeft
  <2>10. CASE Return
    BY <1>1, <2>10 DEF Return, StepsLeft
  <2> QED
    BY <1>5, <2>1, <2>2, <2>3, <2>4, <2>5, <2>6, <2>7, <2>8, <2>9, <2>10, <2>11 DEF CheckStep
<1>6. ASSUME ~CheckStep PROVE StepsLeft' = StepsLeft
  <2>1. UNCHANGED <<pc, marker, todo, pending>>
    BY <1>6 DEF Next, AccountStep, Delete, Create, Reconfigure, Deny, Allow, Drifts
  <2> QED
    BY <2>1 DEF StepsLeft
<1> QED
  BY <1>4, <1>5, <1>6 DEF StepsRunOut

(* A check ends after at most 7N + 2 steps of its own, whatever happens to *)
(* the account meanwhile: a page goes on after the last name of the one    *)
(* before, so that what is created during the listing cannot keep it going *)
(* (client.py 137-148), and a resource is dealt with once (iam.py 207).    *)
THEOREM SpecStepsRunOut == Spec => [][StepsRunOut]_vars
<1>1. TypeOK /\ TypeOK' /\ [Next]_vars => [StepsRunOut]_vars
  BY StepTakesOne
<1> QED
  BY <1>1, SpecTypeOK, PTL DEF Spec

-----------------------------------------------------------------------------
(* So what CheckPromise proves of any check that keeps it holds of these:  *)
(* the promise as an invariant, and that to the scan a run is one job of   *)
(* ScanPromise, over an account that changes (scanner.py 56-61).           *)
THEOREM CheckKeepsPromise == Spec => []Promise!PromiseKept
  BY SpecImplementsCheckPromise, Promise!SpecKeepsPromise, PTL DEF ImplementsCheckPromise

THEOREM CheckIsAJobOfAScan == Spec => Promise!Job!Spec
  BY SpecImplementsCheckPromise, Promise!CheckIsAJob, PTL DEF ImplementsCheckPromise
=============================================================================
