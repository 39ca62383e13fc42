----------------------------- MODULE ScanPromise -----------------------------
(***************************************************************************)
(* What a scan promises, whatever order it works in (docs/adr/0004): every *)
(* job - one check asked of one place - is settled on its own.  A job that *)
(* breaks is remembered as failed and takes nothing with it; a job that    *)
(* ends normally has delivered all it still owes; and only when every job  *)
(* is settled does the scan speak, "clean" if nothing failed, "partial"    *)
(* otherwise.  A scan that cannot find out who it is authenticated as is   *)
(* "refused" before any job starts; one that is killed is "abandoned" and  *)
(* never speaks.                                                           *)
(*                                                                         *)
(* The account may change while the scan works.  As in CheckPromise, a job *)
(* owes what has been wrong, and could be seen, all along; warranted is    *)
(* what has been wrong at some moment.                                     *)
(***************************************************************************)
EXTENDS TLAPS

CONSTANTS Job,      \* everything a scan may be asked to do
          Item      \* everything a job may deliver

VARIABLES work,       \* the jobs of this scan
          owed,       \* what each of them has to deliver
          warranted,  \* what each of them may deliver
          delivered,  \* pairs of a job and an item
          failed,     \* the jobs that broke
          settled,    \* the jobs that are over, broken or not
          verdict

promiseVars == <<work, owed, warranted, delivered, failed, settled, verdict>>

Verdict == {"running", "clean", "partial", "refused", "abandoned"}

Init ==
  /\ work \subseteq Job
  /\ owed \in [work -> SUBSET Item]
  /\ warranted \in [work -> SUBSET Item]
  /\ \A j \in work : owed[j] \subseteq warranted[j]
  /\ delivered = {}
  /\ failed = {}
  /\ settled = {}
  /\ verdict = "running"

(* Nobody owes more than before. *)
OwesNoMore ==
  /\ owed' \in [work -> SUBSET Item]
  /\ \A j \in work : owed'[j] \subseteq owed[j]

(* Somebody mends or breaks something, or hides it from the scan. *)
Change ==
  /\ verdict = "running"
  /\ OwesNoMore
  /\ warranted' \in [work -> SUBSET Item]
  /\ \A j \in work : warranted[j] \subseteq warranted'[j]
  /\ UNCHANGED <<work, delivered, failed, settled, verdict>>

Deliver(j, x) ==
  /\ verdict = "running"
  /\ j \in work \ settled
  /\ x \in warranted[j]
  /\ delivered' = delivered \union {<<j, x>>}
  /\ UNCHANGED <<work, owed, warranted, failed, settled, verdict>>

(* The job has nothing left to deliver.  What it finds it may not even     *)
(* list is no longer owed.                                                 *)
Settle(j) ==
  /\ verdict = "running"
  /\ j \in work \ settled
  /\ OwesNoMore
  /\ \A x \in owed'[j] : <<j, x>> \in delivered
  /\ settled' = settled \union {j}
  /\ UNCHANGED <<work, warranted, delivered, failed, verdict>>

(* The job breaks; what it has delivered so far stays delivered. *)
Fail(j) ==
  /\ verdict = "running"
  /\ j \in work \ settled
  /\ settled' = settled \union {j}
  /\ failed' = failed \union {j}
  /\ UNCHANGED <<work, owed, warranted, delivered, verdict>>

Conclude ==
  /\ verdict = "running"
  /\ work = settled
  /\ verdict' = IF failed = {} THEN "clean" ELSE "partial"
  /\ UNCHANGED <<work, owed, warranted, delivered, failed, settled>>

Refuse ==
  /\ verdict = "running"
  /\ delivered = {} /\ settled = {}
  /\ verdict' = "refused"
  /\ UNCHANGED <<work, owed, warranted, delivered, failed, settled>>

Abandon ==
  /\ verdict = "running"
  /\ verdict' = "abandoned"
  /\ UNCHANGED <<work, owed, warranted, delivered, failed, settled>>

Next ==
  \/ Change
  \/ \E j \in work : \/ \E x \in warranted[j] : Deliver(j, x)
                     \/ Settle(j)
                     \/ Fail(j)
  \/ Conclude
  \/ Refuse
  \/ Abandon

Spec == Init /\ [][Next]_promiseVars

-----------------------------------------------------------------------------
(* The promise as an invariant.  What is delivered was warranted, by its   *)
(* own job.  Once the scan has spoken, a job that is not among the failed  *)
(* ones has delivered everything it owed, and "clean" is said only when    *)
(* there is no failed job at all.                                          *)
PromiseKept ==
  /\ \A e \in delivered : e[1] \in work /\ e[2] \in warranted[e[1]]
  /\ verdict \in {"clean", "partial"} =>
       /\ \A j \in work \ failed : \A x \in owed[j] : <<j, x>> \in delivered
       /\ verdict = "clean" => failed = {}

(* While jobs are still open, the promise of those that are not.  It does  *)
(* not wait for the others, nor for the end.                               *)
SettledHaveDelivered ==
  \A j \in settled \ failed : \A x \in owed[j] : <<j, x>> \in delivered

(* A settled job is a failed one or has delivered, and the scan speaks     *)
(* last: PromiseKept is not inductive without knowing this of the jobs     *)
(* that are settled while others are not.                                  *)
PromiseInv ==
  /\ PromiseKept
  /\ SettledHaveDelivered
  /\ owed \in [work -> SUBSET Item] /\ warranted \in [work -> SUBSET Item]
  /\ settled \subseteq work
  /\ verdict \in {"clean", "partial"} => work = settled

LEMMA PromiseInvHolds == Spec => []PromiseInv
<1>1. Init => PromiseInv
  BY DEF Init, PromiseInv, PromiseKept, SettledHaveDelivered
<1>2. PromiseInv /\ [Next]_promiseVars => PromiseInv'
  <2> SUFFICES ASSUME PromiseInv, [Next]_promiseVars PROVE PromiseInv'
    OBVIOUS
  <2> USE DEF PromiseInv, PromiseKept, SettledHaveDelivered
  <2>1. CASE Change
    BY <2>1 DEF Change, OwesNoMore
  <2>2. ASSUME NEW j \in work, NEW x \in warranted[j], Deliver(j, x) PROVE PromiseInv'
    BY <2>2 DEF Deliver
  <2>3. ASSUME NEW j \in work, Settle(j) PROVE PromiseInv'
    BY <2>3 DEF Settle, OwesNoMore
  <2>4. ASSUME NEW j \in work, Fail(j) PROVE PromiseInv'
    BY <2>4 DEF Fail
  <2>5. CASE Conclude
    BY <2>5 DEF Conclude
  <2>6. CASE Refuse
    BY <2>6 DEF Refuse
  <2>7. CASE Abandon
    BY <2>7 DEF Abandon
  <2>8. CASE UNCHANGED promiseVars
    BY <2>8 DEF promiseVars
  <2> QED
    BY <2>1, <2>2, <2>3, <2>4, <2>5, <2>6, <2>7, <2>8 DEF Next
<1> QED
  BY <1>1, <1>2, PTL DEF Spec

(* Every scan that works as ScanPromise says keeps the promise of          *)
(* docs/adr/0004: what it calls clean has been looked at in full, and what *)
(* it does not report and does not list as failed was not there all along. *)
THEOREM SpecKeepsPromise == Spec => []PromiseKept
<1>1. PromiseInv => PromiseKept
  BY DEF PromiseInv
<1> QED
  BY <1>1, PromiseInvHolds, PTL

(* Failing jobs are contained: whatever happens to the others, and however *)
(* the scan ends, a job that ended normally had delivered all it owed.     *)
THEOREM SpecSettledHaveDelivered == Spec => []SettledHaveDelivered
<1>1. PromiseInv => SettledHaveDelivered
  BY DEF PromiseInv
<1> QED
  BY <1>1, PromiseInvHolds, PTL

(* Nothing is revised: a scan that has spoken, or never will, says and     *)
(* does no more, and before that only adds to what it has said.            *)
Final ==
  /\ verdict # "running" => UNCHANGED promiseVars
  /\ delivered \subseteq delivered' /\ settled \subseteq settled'
  /\ \A j \in settled : j \in failed' <=> j \in failed

THEOREM SpecFinal == Spec => [][Final]_promiseVars
<1>1. PromiseInv /\ [Next]_promiseVars => [Final]_promiseVars
  BY DEF PromiseInv, Next, Final, promiseVars, Change, Deliver, Settle, Fail, Conclude, Refuse, Abandon
<1> QED
  BY <1>1, PromiseInvHolds, PTL DEF Spec
=============================================================================
