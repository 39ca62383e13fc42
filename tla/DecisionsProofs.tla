--------------------------- MODULE DecisionsProofs ---------------------------
(***************************************************************************)
(* The decisions are right for every list of documents and keys: what TLC  *)
(* checks for two statements holds for any number of them.                 *)
(*                                                                         *)
(* The loops are captured by two facts about the statements passed so far: *)
(* none of them was decisive, unless the answer is yes, and then one of    *)
(* the list is.  The rest is what one decisive statement means.            *)
(***************************************************************************)
EXTENDS Decisions, TLAPS

LEMMA ItemsAre ==
  ASSUME TypeOK
  PROVE  /\ kind \in Predicate => items \in Seq(Statement)
         /\ kind = "stale" => items \in Seq(Key)
         /\ Len(items) \in Nat
         /\ DOMAIN items = 1 .. Len(items)
<1>1. kind \in Predicate => items \in Seq(Statement)
  BY DecisionsAssumption DEF TypeOK, Predicate
<1>2. kind = "stale" => items \in Seq(Key)
  BY DecisionsAssumption DEF TypeOK
<1>3. kind \in Predicate \/ kind = "stale"
  BY DEF TypeOK
<1> QED
  BY <1>1, <1>2, <1>3

-----------------------------------------------------------------------------
(* Type correctness, for any documents, keys, thresholds and pauses: in    *)
(* particular a key is reported only once the loop has passed it.          *)
LEMMA InitTypeOK == Init => TypeOK
<1> SUFFICES ASSUME Init PROVE TypeOK
  OBVIOUS
<1>1. kind \in Predicate => items \in Seq(Statement)
  BY DecisionsAssumption DEF Init, Predicate
<1>2. kind = "stale" => items \in Seq(Key)
  BY DecisionsAssumption DEF Init
<1>3. Len(items) \in Nat
  BY <1>1, <1>2 DEF Init
<1>4. i \in 1 .. Len(items) + 1
  BY <1>3 DEF Init
<1>5. maxAge \in Nat /\ now \in 0 .. LastHour
  BY DecisionsAssumption DEF Init
<1> QED
  BY <1>4, <1>5 DEF Init, TypeOK

LEMMA NextTypeOK == TypeOK /\ [Next]_vars => TypeOK'
<1> SUFFICES ASSUME TypeOK, [Next]_vars PROVE TypeOK'
  OBVIOUS
<1> USE ItemsAre
<1>1. CASE ReturnTrue
  BY <1>1 DEF ReturnTrue, TypeOK, inputs
<1>2. CASE Continue
  BY <1>2 DEF Continue, TypeOK, inputs
<1>3. CASE ExamineKey
  <2>1. i' \in 1 .. Len(items') + 1 /\ i' = i + 1
    BY <1>3 DEF ExamineKey, TypeOK, inputs
  <2>2. items[i] \in Key
    BY <1>3 DEF ExamineKey, TypeOK
  <2>3. AgeDays(items[i]) \in Int
    BY <2>2, DecisionsAssumption DEF AgeDays, Day, Key, TypeOK
  <2>4. <<i, AgeDays(items[i])>> \in (1 .. i' - 1) \X Int
    BY <2>1, <2>3 DEF TypeOK
  <2>5. stale \subseteq (1 .. i' - 1) \X Int
    BY <2>1 DEF TypeOK
  <2>6. stale' \subseteq (1 .. i' - 1) \X Int
    BY <1>3, <2>4, <2>5 DEF ExamineKey
  <2> QED
    BY <1>3, <2>1, <2>6 DEF ExamineKey, TypeOK, inputs
<1>4. CASE \E hours \in Pauses : Wait(hours)
  <2>1. PICK hours \in Pauses : Wait(hours)
    BY <1>4
  <2>2. hours \in Nat /\ LastHour \in Nat
    BY DecisionsAssumption
  <2>3. now' \in 0 .. LastHour
    BY <2>1, <2>2 DEF Wait, TypeOK
  <2> QED
    BY <2>1, <2>3 DEF Wait, TypeOK, inputs
<1>5. CASE UNCHANGED vars
  BY <1>5 DEF vars, TypeOK
<1> QED
  BY <1>1, <1>2, <1>3, <1>4, <1>5 DEF Next

THEOREM SpecTypeOK == Spec => []TypeOK
<1> QED
  BY InitTypeOK, NextTypeOK, PTL DEF Spec

-----------------------------------------------------------------------------
(* The loop over statements. *)
Passed ==
  kind \in Predicate =>
    IF answer THEN \E j \in DOMAIN items : Decisive(items[j])
    ELSE \A j \in DOMAIN items : j < i => ~Decisive(items[j])

LEMMA PassedHolds == Spec => []Passed
<1>1. Init => Passed
  <2> SUFFICES ASSUME Init PROVE Passed
    OBVIOUS
  <2>1. TypeOK
    BY InitTypeOK
  <2> QED
    BY <2>1, ItemsAre DEF Init, Passed
<1>2. TypeOK /\ Passed /\ [Next]_vars => Passed'
  <2> SUFFICES ASSUME TypeOK, Passed, [Next]_vars PROVE Passed'
    OBVIOUS
  <2>0. UNCHANGED inputs => \A s : Decisive(s)' = Decisive(s)
    BY DEF inputs, Decisive, PublicAllow, TlsDeny, AdminAllow
  <2>1. CASE ReturnTrue
    <3>1. i \in DOMAIN items
      BY <2>1, ItemsAre DEF ReturnTrue, TypeOK
    <3> QED
      BY <2>0, <2>1, <3>1 DEF ReturnTrue, Passed, inputs
  <2>2. CASE Continue
    <3>1. \A j \in DOMAIN items : j < i + 1 => j < i \/ j = i
      BY ItemsAre DEF TypeOK
    <3> QED
      BY <2>0, <2>2, <3>1 DEF Continue, Passed, inputs
  <2>3. CASE ExamineKey
    BY <2>3 DEF ExamineKey, Passed, Predicate, inputs
  <2>4. CASE \E hours \in Pauses : Wait(hours)
    BY <2>4 DEF Wait, Passed, Predicate, inputs
  <2>5. CASE UNCHANGED vars
    <3>1. UNCHANGED inputs
      BY <2>5 DEF vars, inputs
    <3> QED
      BY <2>0, <2>5, <3>1 DEF vars, Passed
  <2> QED
    BY <2>1, <2>2, <2>3, <2>4, <2>5 DEF Next
<1> QED
  BY <1>1, <1>2, SpecTypeOK, PTL DEF Spec

-----------------------------------------------------------------------------
(* What one statement means. *)
LEMMA DecisiveMeans ==
  ASSUME TypeOK, kind \in Predicate, PlainDocument,
         NEW j \in DOMAIN items, Decisive(items[j])
  PROVE  Meaning
<1> DEFINE s == items[j]
<1>1. s \in Statement /\ IsPlain(s)
  BY ItemsAre DEF PlainDocument
<1>2. CASE kind = "public"
  <2>1. PublicAllow(s)
    BY <1>2 DEF Decisive
  <2>2. PICK a \in {"read", "other"} : {"*", a} \intersect s.actions # {}
    BY <1>1 DEF Statement
  <2>3. PICK r \in {"bucket", "other"} : {"*", r} \intersect s.resources # {}
    BY <1>1 DEF Statement
  <2>4. ASSUME NEW q \in Request, q.who = "other", q.action = a, q.resource = r
        PROVE  Said("Allow", q)
    <3>1. Covers(s, q)
      BY <2>1, <2>2, <2>3, <2>4 DEF Covers, PublicAllow
    <3> QED
      BY <2>1, <3>1 DEF Said, PublicAllow
  <2> QED
    BY <1>2, <2>4 DEF Meaning, IsPublic
<1>3. CASE kind = "tls"
  <2>1. s.effect = "Deny"
    BY <1>3 DEF Decisive, TlsDeny
  <2>2. /\ "*" \in s.who /\ "*" \in s.actions /\ "*" \in s.resources
        /\ s.conditions = {"plaintext"}
    BY <1>1, <1>3, <2>1 DEF IsPlain
  <2>3. \A q \in Request : ~q.tls => Covers(s, q)
    BY <2>2 DEF Covers
  <2>4. EnforcesTls
    BY <2>1, <2>3 DEF EnforcesTls, Said
  <2> QED
    BY <1>3, <2>4 DEF Meaning
<1>4. CASE kind = "admin"
  <2>1. s.effect = "Allow" /\ "*" \in s.actions /\ "*" \in s.resources
    BY <1>4 DEF Decisive, AdminAllow
  <2>2. s.who = {"*"} /\ s.conditions = {}
    BY <1>1, <1>4 DEF IsPlain
  <2>3. \A q \in Request : Covers(s, q)
    BY <2>1, <2>2 DEF Covers
  <2>4. GrantsEverything
    BY <2>1, <2>3 DEF GrantsEverything, Said
  <2> QED
    BY <1>4, <2>4 DEF Meaning
<1> QED
  BY <1>2, <1>3, <1>4 DEF Predicate

(* And what it means that there is none: a request that shows it. *)
LEMMA NoneDecisiveMeans ==
  ASSUME TypeOK, kind \in Predicate, PlainDocument,
         \A j \in DOMAIN items : ~Decisive(items[j])
  PROVE  ~Meaning
<1>1. \A j \in DOMAIN items : items[j] \in Statement /\ IsPlain(items[j])
  BY ItemsAre DEF PlainDocument
<1>2. CASE kind = "public"
  <2>1. ASSUME NEW a \in {"read", "other"}, NEW r \in {"bucket", "other"}
        PROVE  \E q \in Request :
                 q.who = "other" /\ q.action = a /\ q.resource = r /\ ~Said("Allow", q)
    <3> DEFINE q == [who |-> "other", action |-> a, resource |-> r,
                     tls |-> TRUE, trusted |-> FALSE]
    <3>1. q \in Request
      BY DEF Request
    <3>2. ASSUME NEW j \in DOMAIN items, items[j].effect = "Allow", Covers(items[j], q)
          PROVE  FALSE
      <4> DEFINE s == items[j]
      <4>1. s \in Statement /\ IsPlain(s) /\ ~PublicAllow(s)
        BY <1>1, <1>2 DEF Decisive
      <4>2. {"*", "other"} \intersect s.who # {}
        BY <3>2 DEF Covers
      <4>3. s.who = {"*"}
        BY <1>2, <4>1, <4>2 DEF IsPlain, Statement
      <4>4. "trusted" \notin s.conditions
        BY <3>2 DEF Covers
      <4>5. "plaintext" \notin s.conditions /\ "odd-plaintext" \notin s.conditions
        BY <3>2 DEF Covers
      <4>6. s.conditions = {}
        BY <4>1, <4>4, <4>5 DEF Statement
      <4> QED
        BY <3>2, <4>1, <4>3, <4>6 DEF PublicAllow
    <3>3. ~Said("Allow", q)
      BY <3>2 DEF Said
    <3> QED
      BY <3>1, <3>3
  <2> QED
    BY <1>2, <2>1 DEF Meaning, IsPublic
<1>3. CASE kind = "tls"
  <2>1. \A j \in DOMAIN items : items[j].effect # "Deny"
    BY <1>1, <1>3 DEF IsPlain, Decisive, TlsDeny
  <2> DEFINE q == [who |-> "other", action |-> "other", resource |-> "other",
                   tls |-> FALSE, trusted |-> FALSE]
  <2>2. q \in Request /\ ~q.tls
    BY DEF Request
  <2>3. ~Said("Deny", q)
    BY <2>1 DEF Said
  <2> QED
    BY <1>3, <2>2, <2>3 DEF Meaning, EnforcesTls
<1>4. CASE kind = "admin"
  <2> DEFINE q == [who |-> "other", action |-> "other", resource |-> "other",
                   tls |-> TRUE, trusted |-> FALSE]
  <2>1. q \in Request
    BY DEF Request
  <2>2. ASSUME NEW j \in DOMAIN items, items[j].effect = "Allow", Covers(items[j], q)
        PROVE  FALSE
    <3>1. items[j] \in Statement /\ ~AdminAllow(items[j])
      BY <1>1, <1>4 DEF Decisive
    <3>2. "*" \in items[j].actions /\ "*" \in items[j].resources
      BY <2>2, <3>1 DEF Covers, Statement
    <3> QED
      BY <2>2, <3>1, <3>2 DEF AdminAllow
  <2>3. ~Said("Allow", q)
    BY <2>2 DEF Said
  <2> QED
    BY <1>4, <2>1, <2>3 DEF Meaning, GrantsEverything
<1> QED
  BY <1>2, <1>3, <1>4 DEF Predicate

(* A yes about a document of any length is right, if the document is plain *)
(* (_policy_is_public, _denies_insecure_transport, _grants_full_admin).    *)
THEOREM SpecYesIsRight == Spec => []YesIsRight
<1>1. TypeOK /\ Passed => YesIsRight
  BY DecisiveMeans DEF Passed, YesIsRight
<1> QED
  BY <1>1, SpecTypeOK, PassedHolds, PTL

(* And so is a no: no statement is missed, wherever it stands. *)
THEOREM SpecNoIsRight == Spec => []NoIsRight
<1>1. TypeOK /\ Passed => NoIsRight
  <2> SUFFICES ASSUME TypeOK, Passed, kind \in Predicate, Over, ~answer, PlainDocument
               PROVE  ~Meaning
    BY DEF NoIsRight
  <2>1. \A j \in DOMAIN items : j < i
    BY ItemsAre DEF Over, TypeOK
  <2> QED
    BY <2>1, NoneDecisiveMeans DEF Passed
<1> QED
  BY <1>1, SpecTypeOK, PassedHolds, PTL

-----------------------------------------------------------------------------
(* The two roundings - of the threshold, to an instant, and of the age, to *)
(* days - against each other.  The clock only goes forward.                *)
LEMMA AgesCompare ==
  ASSUME NEW k \in Key, maxAge \in Nat, now \in Nat
  PROVE  /\ IsStale(k) <=> k.active /\ 0 - k.created >= maxAge * Day
         /\ k.active /\ AgeAtStart(k) > maxAge => IsStale(k)
         /\ AgeAtStart(k) <= AgeDays(k)
<1>1. k.created \in Int
  BY DEF Key
<1>2. IsStale(k) <=> k.active /\ 0 - k.created >= maxAge * Day
  BY <1>1 DEF IsStale, Cutoff, Day
<1>3. AgeAtStart(k) > maxAge => 0 - k.created >= maxAge * 24
  BY <1>1 DEF AgeAtStart, Day
<1>4. AgeAtStart(k) <= AgeDays(k)
  BY <1>1 DEF AgeAtStart, AgeDays, Day
<1> QED
  BY <1>2, <1>3, <1>4 DEF Day

(* However long the findings are consumed, the keys reported are those     *)
(* that were old enough when the check started, with an age they have had. *)
THEOREM SpecStaleKeysFound == Spec => []StaleKeysFound
<1>1. Init => StaleKeysFound
  <2> SUFFICES ASSUME Init PROVE StaleKeysFound
    OBVIOUS
  <2>1. DOMAIN items = 1 .. Len(items) /\ Len(items) \in Nat
    BY InitTypeOK, ItemsAre
  <2> QED
    BY <2>1 DEF Init, StaleKeysFound
<1>2. TypeOK /\ StaleKeysFound /\ [Next]_vars => StaleKeysFound'
  <2> SUFFICES ASSUME TypeOK, StaleKeysFound, [Next]_vars PROVE StaleKeysFound'
    OBVIOUS
  <2>1. CASE ReturnTrue
    BY <2>1 DEF ReturnTrue, StaleKeysFound, AgeDays, Predicate, inputs
  <2>2. CASE Continue
    BY <2>2 DEF Continue, StaleKeysFound, AgeDays, Predicate, inputs
  <2>3. CASE ExamineKey
    <3> DEFINE k == items[i]
    <3>1. k \in Key /\ i \in DOMAIN items /\ maxAge \in Nat /\ now \in Nat
      BY <2>3, ItemsAre DEF ExamineKey, TypeOK
    <3>2. UNCHANGED <<items, maxAge, now, kind>> /\ i' = i + 1
      BY <2>3 DEF ExamineKey, inputs
    <3>3. CASE ~IsStale(k)
      <4>1. stale' = stale
        BY <2>3, <3>3 DEF ExamineKey
      <4>2. ASSUME NEW j \in DOMAIN items, j < i + 1, items[j].active, AgeAtStart(items[j]) > maxAge
            PROVE  j < i
        BY <3>1, <3>3, <4>2, AgesCompare, ItemsAre
      <4> QED
        BY <2>3, <3>2, <4>1, <4>2 DEF StaleKeysFound, AgeDays, AgeAtStart, ExamineKey
    <3>4. CASE IsStale(k)
      <4>1. stale' = stale \union {<<i, AgeDays(k)>>}
        BY <2>3, <3>4 DEF ExamineKey
      <4>2. /\ k.active /\ 0 - k.created >= maxAge * Day
            /\ AgeAtStart(k) <= AgeDays(k)
        BY <3>1, <3>4, AgesCompare
      <4>3. AgeDays(k) <= AgeDays(k)
        BY <3>1 DEF AgeDays, Key, Day
      <4>4. ASSUME NEW j \in DOMAIN items, j < i + 1, ~(j < i) PROVE j = i
        BY <3>1, <4>4, ItemsAre
      <4>5. \A x \in stale' : LET key == items[x[1]] IN
              /\ key.active /\ 0 - key.created >= maxAge * Day
              /\ AgeAtStart(key) <= x[2] /\ x[2] <= AgeDays(key)
        BY <4>1, <4>2, <4>3 DEF StaleKeysFound
      <4>6. \A j \in DOMAIN items :
              kind = "stale" /\ j < i + 1 /\ items[j].active /\ AgeAtStart(items[j]) > maxAge =>
                \E x \in stale' : x[1] = j
        <5> SUFFICES ASSUME NEW j \in DOMAIN items, kind = "stale", j < i + 1,
                            items[j].active, AgeAtStart(items[j]) > maxAge
                     PROVE  \E x \in stale' : x[1] = j
          OBVIOUS
        <5>1. CASE j < i
          <6>1. PICK x \in stale : x[1] = j
            BY <5>1 DEF StaleKeysFound
          <6> QED
            BY <4>1, <6>1
        <5>2. CASE j = i
          <6>1. <<i, AgeDays(k)>> \in stale' /\ <<i, AgeDays(k)>>[1] = i
            BY <4>1
          <6> QED
            BY <5>2, <6>1
        <5> QED
          BY <4>4, <5>1, <5>2
      <4> QED
        BY <3>2, <4>5, <4>6 DEF StaleKeysFound, AgeDays, AgeAtStart
    <3> QED
      BY <3>3, <3>4
  <2>4. ASSUME NEW hours \in Pauses, Wait(hours) PROVE StaleKeysFound'
    <3>1. UNCHANGED <<items, maxAge, i, stale, kind>> /\ now' = now + hours
      BY <2>4 DEF Wait, inputs
    <3>2. now \in Nat /\ hours \in Nat
      BY DecisionsAssumption DEF TypeOK
    <3>3. ASSUME NEW x \in stale PROVE x[2] <= (now' - items[x[1]].created) \div Day
      <4>1. items[x[1]] \in Key
        <5>1. kind = "stale"
          BY <2>4 DEF Wait
        <5>2. x[1] \in 1 .. i - 1 /\ i - 1 <= Len(items)
          BY ItemsAre DEF TypeOK
        <5>3. i \in Int /\ Len(items) \in Nat
          BY ItemsAre DEF TypeOK
        <5>4. x[1] \in 1 .. Len(items)
          BY <5>2, <5>3
        <5>5. items \in Seq(Key)
          BY <5>1, ItemsAre
        <5> QED
          BY <5>4, <5>5
      <4>2. items[x[1]].created \in Int
        BY <4>1 DEF Key
      <4>3. x[2] \in Int /\ x[2] <= (now - items[x[1]].created) \div Day
        BY DEF StaleKeysFound, AgeDays, TypeOK
      <4> QED
        BY <3>1, <3>2, <4>2, <4>3 DEF Day
    <3> QED
      BY <3>1, <3>3 DEF StaleKeysFound, AgeAtStart, AgeDays
  <2>5. CASE UNCHANGED vars
    BY <2>5 DEF vars, StaleKeysFound, AgeDays
  <2> QED
    BY <2>1, <2>2, <2>3, <2>4, <2>5 DEF Next
<1> QED
  BY <1>1, <1>2, SpecTypeOK, PTL DEF Spec
=============================================================================
