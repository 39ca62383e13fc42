---------------------------- MODULE CheckPromise ----------------------------
(***************************************************************************)
(* What one run of a check promises the scan that called it                *)
(* (registry.py, Check.run), while the account it looks at may change.  At *)
(* every moment some items are owed - they have been wrong, and could be   *)
(* seen, all along - and some are warranted - they have been wrong at some *)
(* moment.  Only what is warranted is delivered; and a check that returns  *)
(* has delivered all it still owes.  A check that raises owes nothing.     *)
(***************************************************************************)
EXTENDS TLAPS

CONSTANT Item   \* everything a check may deliver

VARIABLES
  owed,
  warranted,
  delivered,
  verdict     \* "running", "returned", "raised"

checkVars == <<owed, warranted, delivered, verdict>>

Init ==
  /\ warranted \subseteq Item
  /\ owed \subseteq warranted
  /\ delivered = {}
  /\ verdict = "running"

(* Somebody mends or breaks something, or hides it from the check, while   *)
(* the check runs or when it is over.                                      *)
Change ==
  /\ warranted \subseteq warranted' /\ warranted' \subseteq Item
  /\ owed' \subseteq owed
  /\ UNCHANGED <<delivered, verdict>>

Deliver(x) ==
  /\ verdict = "running"
  /\ x \in warranted
  /\ delivered' = delivered \union {x}
  /\ UNCHANGED <<owed, warranted, verdict>>

(* What the check finds it may not even list is no longer owed. *)
Return ==
  /\ verdict = "running"
  /\ owed' \subseteq owed \intersect delivered
  /\ verdict' = "returned"
  /\ UNCHANGED <<warranted, delivered>>

Raise ==
  /\ verdict = "running"
  /\ verdict' = "raised"
  /\ UNCHANGED <<owed, warranted, delivered>>

Next ==
  \/ Change
  \/ \E x \in warranted : Deliver(x)
  \/ Return
  \/ Raise

Spec == Init /\ [][Next]_checkVars

-----------------------------------------------------------------------------
(* The promise as an invariant, the first part at every moment: a finding  *)
(* is never ahead of what it is about (registry.py 71-72).                 *)
PromiseKept ==
  /\ delivered \subseteq warranted
  /\ verdict = "returned" => owed \subseteq delivered

(* A check that works as CheckPromise says keeps it. *)
THEOREM SpecKeepsPromise == Spec => []PromiseKept
<1>1. Init => PromiseKept
  BY DEF Init, PromiseKept
<1>2. PromiseKept /\ [Next]_checkVars => PromiseKept'
  BY DEF PromiseKept, Next, Change, Deliver, Return, Raise, checkVars
<1> QED
  BY <1>1, <1>2, PTL DEF Spec

-----------------------------------------------------------------------------
(* To a scan the run is one job, of some slot. *)
Slot == <<1, 1>>

Job == INSTANCE ScanPromise WITH
  Job <- {Slot},
  work <- {Slot},
  owed <- [j \in {Slot} |-> owed],
  warranted <- [j \in {Slot} |-> warranted],
  delivered <- {Slot} \X delivered,
  failed <- IF verdict = "raised" THEN {Slot} ELSE {},
  settled <- IF verdict = "running" THEN {} ELSE {Slot},
  verdict <- "running"

(* What ScanPromise lets a job do is all that a check which keeps its      *)
(* promise does, whatever happens to the account meanwhile (scanner.py     *)
(* 56-61).                                                                 *)
THEOREM CheckIsAJob == Spec => Job!Spec
<1> DEFINE Subset == owed \subseteq warranted /\ warranted \subseteq Item
<1>1. Init => Job!Init /\ Subset
  BY DEF Init, Job!Init
<1>2. Subset /\ [Next]_checkVars => Subset'
  BY DEF Next, Change, Deliver, Return, Raise, checkVars
<1>3. Subset /\ [Next]_checkVars => [Job!Next]_(Job!promiseVars)
  <2> SUFFICES ASSUME Subset, Next PROVE [Job!Next]_(Job!promiseVars)
    BY DEF checkVars, Job!promiseVars
  <2>1. CASE Change
    <3>1. Job!Change
      BY <2>1 DEF Change, Job!Change, Job!OwesNoMore
    <3> QED
      BY <3>1 DEF Job!Next
  <2>2. ASSUME NEW x \in warranted, Deliver(x) PROVE Job!Next
    <3>1. x \in [j \in {Slot} |-> warranted][Slot]
      OBVIOUS
    <3>2. Job!Deliver(Slot, x)
      BY <2>2 DEF Deliver, Job!Deliver
    <3> QED
      BY <3>1, <3>2 DEF Job!Next
  <2>3. CASE Return
    <3>1. Job!Settle(Slot)
      BY <2>3 DEF Return, Job!Settle, Job!OwesNoMore
    <3> QED
      BY <3>1 DEF Job!Next
  <2>4. CASE Raise
    <3>1. Job!Fail(Slot)
      BY <2>4 DEF Raise, Job!Fail
    <3> QED
      BY <3>1 DEF Job!Next
  <2> QED
    BY <2>1, <2>2, <2>3, <2>4 DEF Next
<1> HIDE DEF Subset
<1> QED
  BY <1>1, <1>2, <1>3, PTL DEF Spec, Job!Spec

=============================================================================
