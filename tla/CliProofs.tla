------------------------------ MODULE CliProofs ------------------------------
(***************************************************************************)
(* The command for any checks, arguments and accounts.                     *)
(*                                                                         *)
(* The command is a scan with something before it and something after it,  *)
(* so all that ScannerProofs shows of a scan holds of the scan inside it.  *)
(* What is left is to follow the checks through registration and the       *)
(* service filter (Registered), and what the scan found through the stages *)
(* that come after (Stages).                                               *)
(***************************************************************************)
EXTENDS Cli, ScannerProofs, FunctionTheorems, FiniteSetTheorems

LEMMA CommandSteps == [CliNext]_cliVars => [Next]_vars
<1> SUFFICES ASSUME [CliNext]_cliVars PROVE [Next]_vars
  OBVIOUS
<1>1. CASE ScanStep
  BY <1>1 DEF ScanStep
<1>2. CASE CommandStep
  BY <1>2 DEF CommandStep, Register, RegisterRejects, Imported, ParseAccepts, ParseRejects,
    NoChecksMatch, StartScan, ScanReturns, NotAuthenticated, ScanInterrupted, Write, WriteFails,
    Report, Gate
<1>3. CASE UNCHANGED cliVars
  BY <1>3 DEF cliVars
<1> QED
  BY <1>1, <1>2, <1>3 DEF CliNext

(* The command runs a scan as scanner.py has it, and nothing else changes  *)
(* what belongs to the scan (cli.py 67-68).                                *)
THEOREM CommandRunsAScan == CliSpec => Spec
<1>1. CliInit => Init
  BY DEF CliInit
<1> QED
  BY <1>1, CommandSteps, PTL DEF CliSpec, Spec

-----------------------------------------------------------------------------
(* Deduplication drops copies and nothing else. *)
LEMMA ResultIs ==
  ASSUME NEW d
  PROVE  /\ Result(d) \subseteq collected
         /\ \A e \in collected : \E k \in Result(d) : k[2] = e[2]
<1> DEFINE One(f) == CHOOSE e \in collected : e[2] = f
<1>1. \A e \in collected : One(e[2]) \in collected /\ One(e[2])[2] = e[2]
  OBVIOUS
<1>2. Deduplicated = {One(f) : f \in {e[2] : e \in collected}}
  BY DEF Deduplicated
<1>3. Deduplicated \subseteq collected
  BY <1>1, <1>2
<1>4. ASSUME NEW e \in collected PROVE \E k \in Deduplicated : k[2] = e[2]
  <2>1. One(e[2]) \in Deduplicated
    BY <1>2
  <2>2. One(e[2])[2] = e[2]
    BY <1>1
  <2> QED
    BY <2>1, <2>2
<1> QED
  BY <1>3, <1>4 DEF Result

(* What the command has at each stage. *)
Stages ==
  /\ CliTypeOK
  /\ stage \in {"import", "parse", "filter", "scan"} => result = {} /\ output = {} /\ stderr = {}
  /\ stage = "write" => output = {}
  /\ stage \in {"write", "report", "gate"} \/ Documented =>
       phase = "done" /\ result = Result(dedupe)
  /\ stage \in {"report", "gate"} \/ Documented => output = result
  /\ stage = "gate" \/ Documented => stderr = metaErrors
  /\ exit = 0 => \A e \in result : ~Qualifies(e[2])
  /\ stage \in {"filter", "scan"} => accepted
  /\ StatusMeans

LEMMA StagesInit == CliInit => Stages
<1> SUFFICES ASSUME CliInit PROVE Stages
  OBVIOUS
<1>1. /\ declared \in DeclaredLists /\ accepted \in BOOLEAN /\ service \in SUBSET Service
      /\ dedupe \in BOOLEAN /\ failOn \in Rank \union {0}
      /\ CHECKS = <<>> /\ stage = "import" /\ result = {} /\ output = {} /\ stderr = {}
      /\ exit = NoExit /\ phase = "ready" /\ metaErrors = {}
  BY DEF CliInit, Init
<1>2. CliTypeOK
  BY <1>1 DEF CliTypeOK, NoExit
<1> QED
  BY <1>1, <1>2 DEF Stages, StatusMeans, Documented, NoExit

LEMMA StagesNext == TypeOK /\ Bookkeeping /\ Stages /\ [CliNext]_cliVars => Stages'
<1> SUFFICES ASSUME TypeOK, Bookkeeping, Stages, [CliNext]_cliVars PROVE Stages'
  OBVIOUS
<1> USE DEF NoExit, Crash, Killed, Documented
<1>0. UNCHANGED <<vars, args>> =>
        \A d : Result(d)' = Result(d) /\ \A f : Qualifies(f)' = Qualifies(f)
  BY DEF vars, args, Result, Deduplicated, Qualifies
<1>1. CASE ScanStep
  <2>1. /\ stage = "scan" /\ UNCHANGED <<args, command>>
    BY <1>1 DEF ScanStep
  <2>2. CliTypeOK'
    BY <2>1 DEF Stages, CliTypeOK, args, command
  <2> QED
    BY <2>1, <2>2 DEF Stages, CliTypeOK, StatusMeans, args, command
<1>2. CASE Register
  <2>1. declared \in Seq(Check) /\ CHECKS \in Seq(Check)
    BY CliAssumption DEF Stages, CliTypeOK
  <2>2. CHECKS' \in Seq(Check)
    BY <1>2, <2>1 DEF Register
  <2> QED
    BY <1>2, <2>2 DEF Register, Stages, CliTypeOK, StatusMeans, args, vars
<1>3. CASE RegisterRejects
  BY <1>3 DEF RegisterRejects, Exit, Stages, CliTypeOK, StatusMeans,
    args, vars
<1>4. CASE Imported \/ ParseAccepts \/ StartScan
  BY <1>4 DEF Imported, ParseAccepts, StartScan, Stages, CliTypeOK, StatusMeans,
    args, vars
<1>5. CASE ParseRejects \/ NoChecksMatch \/ NotAuthenticated
  <2>1. collected = {} /\ output = {} /\ phase \in {"ready", "refused"}
    BY <1>5 DEF ParseRejects, NoChecksMatch, NotAuthenticated, Stages, CliTypeOK, Bookkeeping
  <2>2. ~accepted \/ checks = <<>> \/ phase = "refused"
    BY <1>5 DEF ParseRejects, NoChecksMatch, NotAuthenticated
  <2>3. /\ stage' = "over" /\ exit' = 2
        /\ UNCHANGED <<vars, args, CHECKS, result, output, stderr>>
    BY <1>5 DEF ParseRejects, NoChecksMatch, NotAuthenticated, Exit
  <2> QED
    BY <2>1, <2>2, <2>3 DEF Stages, CliTypeOK, StatusMeans, args, vars
<1>6. CASE ScanReturns
  <2>1. result' \subseteq collected' /\ result' = Result(dedupe)'
    BY <1>0, <1>6, ResultIs DEF ScanReturns, vars, args
  <2> QED
    BY <1>6, <2>1 DEF ScanReturns, Stages, CliTypeOK, StatusMeans,
      args, vars
<1>7. CASE ScanInterrupted
  BY <1>7 DEF ScanInterrupted, Exit, Stages, CliTypeOK, StatusMeans,
    args, vars
<1>8. CASE Write
  BY <1>0, <1>8 DEF Write, Stages, CliTypeOK, StatusMeans, args, vars
<1>9. CASE WriteFails
  BY <1>9 DEF WriteFails, Exit, Stages, CliTypeOK, StatusMeans,
    args, vars
<1>10. CASE Report
  BY <1>0, <1>10 DEF Report, Stages, CliTypeOK, StatusMeans, args, vars
<1>11. CASE Gate
  <2>1. /\ stage = "gate" /\ stage' = "over" /\ UNCHANGED <<vars, args, CHECKS, result, output, stderr>>
        /\ exit' \in {0, 1}
    BY <1>11 DEF Gate, Exit
  <2>2. exit' = 0 => \A e \in result : ~Qualifies(e[2])
    BY <1>11 DEF Gate, Exit
  <2>3. exit' = 1 => \E e \in output : Qualifies(e[2])
    BY <1>11, <2>1 DEF Gate, Exit, Stages
  <2> QED
    BY <1>0, <2>1, <2>2, <2>3 DEF Stages, CliTypeOK, StatusMeans,
      args, vars
<1>12. CASE UNCHANGED cliVars
  <2>1. UNCHANGED <<vars, args>> /\ UNCHANGED command
    BY <1>12 DEF cliVars
  <2> QED
    BY <1>0, <2>1 DEF Stages, CliTypeOK, StatusMeans,
      args, vars, command
<1> QED
  BY <1>1, <1>2, <1>3, <1>4, <1>5, <1>6, <1>7, <1>8, <1>9, <1>10, <1>11, <1>12
     DEF CliNext, CommandStep

LEMMA StagesHold == CliSpec => []Stages
<1> QED
  BY StagesInit, StagesNext, CommandRunsAScan, SpecBookkeeping, PTL DEF CliSpec

(* Type correctness of the command, and what is set at which stage: in     *)
(* particular there is a status exactly when the command is over.          *)
THEOREM CliSpecTypeOK == CliSpec => []CliTypeOK
<1>1. Stages => CliTypeOK
  BY DEF Stages
<1> QED
  BY <1>1, StagesHold, PTL

(* Status 1 after a scan is about a finding in the written document, or    *)
(* there is no document; status 2 means that no check has run.             *)
THEOREM CliSpecStatusMeans == CliSpec => []StatusMeans
<1>1. Stages => StatusMeans
  BY DEF Stages
<1> QED
  BY <1>1, StagesHold, PTL

(* A gate that passes has looked at every flaw the command was asked       *)
(* about, but for those stderr accounts for and those a check passed over. *)
THEOREM CliSpecPassIsExplained == CliSpec => []PassIsExplained
<1>1. Stages /\ FlawsReportedOrExplained => PassIsExplained
  <2> SUFFICES ASSUME Stages, FlawsReportedOrExplained, exit = 0, BuildError \notin stderr,
                      NEW f \in steady, InScope(f), Qualifies(f)
               PROVE  \/ \E s \in stderr : checks[s[1]] = f.rule /\ Target(s) \in {NoRegion, f.region}
                      \/ Overlooked(f)
    BY DEF PassIsExplained
  <2>1. /\ phase = "done" /\ stderr = metaErrors /\ result = Result(dedupe)
        /\ \A e \in result : ~Qualifies(e[2])
    BY DEF Stages, Documented
  <2>2. (\E s \in Slots : <<s, f>> \in collected) \/ Explained(f) \/ Overlooked(f)
    BY <2>1 DEF FlawsReportedOrExplained
  <2>3. ASSUME NEW s \in Slots, <<s, f>> \in collected PROVE FALSE
    <3>1. PICK k \in Result(dedupe) : k[2] = <<s, f>>[2]
      BY <2>3, ResultIs
    <3> QED
      BY <2>1, <3>1
  <2> QED
    BY <2>1, <2>2, <2>3 DEF Explained
<1> QED
  BY <1>1, StagesHold, CommandRunsAScan, SpecFlawsReportedOrExplained, PTL

-----------------------------------------------------------------------------
(* The n-th member of a finite set of numbers is there, for every n up to  *)
(* its size: counting the members up to each one is an injection into as   *)
(* many numbers, and so it misses none of them.                            *)
LEMMA NthIs ==
  ASSUME NEW K, K \subseteq Nat, IsFiniteSet(K)
  PROVE  /\ \A n \in 1 .. Cardinality(K) : Nth(K, n) \in K /\ Cardinality(UpTo(K, Nth(K, n))) = n
         /\ \A i \in K : \E n \in 1 .. Cardinality(K) : Nth(K, n) = i
<1> DEFINE Count == [i \in K |-> Cardinality(UpTo(K, i))]
           Counts == 1 .. Cardinality(K)
<1>1. \A i \in K : UpTo(K, i) \subseteq K /\ i \in UpTo(K, i)
  BY DEF UpTo
<1>2. \A i \in K : /\ IsFiniteSet(UpTo(K, i))
                   /\ Cardinality(UpTo(K, i)) \in Nat
                   /\ Cardinality(UpTo(K, i)) <= Cardinality(K)
                   /\ Cardinality(UpTo(K, i)) # 0
  BY <1>1, FS_Subset, FS_CardinalityType, FS_EmptySet
<1>3. Cardinality(K) \in Nat
  BY FS_CardinalityType
<1>4. Count \in [K -> Counts]
  BY <1>2, <1>3
<1>5. ASSUME NEW i \in K, NEW k \in K, i < k PROVE Count[i] # Count[k]
  <2>1. \A x \in Nat : x <= i => x <= k /\ x # k
    BY <1>5
  <2>2. UpTo(K, i) \subseteq UpTo(K, k) /\ k \notin UpTo(K, i)
    BY <2>1 DEF UpTo
  <2>3. UpTo(K, i) # UpTo(K, k)
    BY <1>1, <2>2
  <2> QED
    BY <1>2, <2>2, <2>3, FS_Subset
<1>6. \A i, k \in K : Count[i] = Count[k] => i = k
  <2> SUFFICES ASSUME NEW i \in K, NEW k \in K, Count[i] = Count[k] PROVE i = k
    OBVIOUS
  <2>1. i \in Nat /\ k \in Nat
    OBVIOUS
  <2>2. ~(i < k) /\ ~(k < i)
    BY <1>5
  <2> QED
    BY <2>1, <2>2
<1>7. IsFiniteSet(Counts) /\ Cardinality(Counts) = Cardinality(K)
  BY <1>3, FS_Interval
<1>8. \A n \in Counts : \E i \in K : Count[i] = n
  <2> HIDE DEF Count, Counts
  <2>1. Count \in Injection(K, Counts)
    BY <1>4, <1>6, Fun_IsInj
  <2>2. Count \in Surjection(K, Counts)
    BY <1>7, <2>1, FS_Injection
  <2> QED
    BY <2>2 DEF Surjection
<1>9. \A n \in Counts : Nth(K, n) \in K /\ Count[Nth(K, n)] = n
  BY <1>8 DEF Nth
<1>10. \A i \in K : Nth(K, Count[i]) = i
  BY <1>4, <1>6, <1>9
<1> QED
  BY <1>4, <1>9, <1>10

(* What the service filter leaves of a list of checks: those of the        *)
(* services asked for, each as often as it was there.                      *)
LEMMA FilteredIs ==
  ASSUME NEW list \in Seq(Check), NEW services
  PROVE  /\ Range(Filtered(list, services)) = {c \in Range(list) : InService(c, services)}
         /\ IsInjective(list) => IsInjective(Filtered(list, services))
<1> DEFINE K == Kept(list, services)
           F == Filtered(list, services)
<1>1. /\ K \subseteq DOMAIN list /\ K \subseteq 1 .. Len(list)
      /\ \A i \in K : InService(list[i], services)
  BY DEF Kept
<1>2. IsFiniteSet(K)
  <2>1. IsFiniteSet(1 .. Len(list))
    BY FS_Interval
  <2> QED
    BY <1>1, <2>1, FS_Subset
<1>3. K \subseteq Nat
  BY <1>1
<1>4. /\ \A n \in 1 .. Cardinality(K) : Nth(K, n) \in K /\ Cardinality(UpTo(K, Nth(K, n))) = n
      /\ \A i \in K : \E n \in 1 .. Cardinality(K) : Nth(K, n) = i
  <2> HIDE DEF K
  <2> QED
    BY <1>2, <1>3, NthIs
<1>5. /\ DOMAIN F = 1 .. Cardinality(K)
      /\ \A n \in 1 .. Cardinality(K) : F[n] = list[Nth(K, n)]
  BY DEF Filtered
<1>6. \A c \in Range(list) : InService(c, services) => \E i \in K : list[i] = c
  BY DEF Range, Kept
<1>7. \A i \in K : list[i] \in Range(list)
  BY <1>1 DEF Range
<1> HIDE DEF K, F
<1>8. Range(F) = {c \in Range(list) : InService(c, services)}
  <2>1. ASSUME NEW c \in Range(F) PROVE c \in Range(list) /\ InService(c, services)
    <3>1. PICK n \in 1 .. Cardinality(K) : F[n] = c
      BY <1>5 DEF Range
    <3> QED
      BY <1>1, <1>4, <1>5, <1>7, <3>1
  <2>2. ASSUME NEW c \in Range(list), InService(c, services) PROVE c \in Range(F)
    <3>1. PICK i \in K : list[i] = c
      BY <1>6, <2>2
    <3>2. PICK n \in 1 .. Cardinality(K) : Nth(K, n) = i
      BY <1>4
    <3> QED
      BY <1>5, <3>1, <3>2 DEF Range
  <2> QED
    BY <2>1, <2>2
<1>9. ASSUME IsInjective(list) PROVE IsInjective(F)
  <2> SUFFICES ASSUME NEW m \in 1 .. Cardinality(K), NEW n \in 1 .. Cardinality(K), F[m] = F[n]
               PROVE  m = n
    BY <1>5 DEF IsInjective
  <2>1. list[Nth(K, m)] = list[Nth(K, n)]
    BY <1>5
  <2>2. Nth(K, m) \in DOMAIN list /\ Nth(K, n) \in DOMAIN list
    BY <1>1, <1>4
  <2>3. Nth(K, m) = Nth(K, n)
    BY <1>9, <2>1, <2>2 DEF IsInjective
  <2> QED
    BY <1>4, <2>3
<1> QED
  BY <1>8, <1>9 DEF F

-----------------------------------------------------------------------------
(* The registry holds the classes declared so far, each once, and all of   *)
(* them once the import is through.                                        *)
Registered ==
  /\ declared \in DeclaredLists /\ service \in SUBSET Service
  /\ checks = Filtered(declared, service)
  /\ CHECKS \in Seq(Check) /\ IsInjective(CHECKS)
  /\ Len(CHECKS) <= Len(declared)
  /\ \A i \in 1 .. Len(CHECKS) : CHECKS[i] = declared[i]
  /\ stage \notin {"import", "over"} \/ Documented => Len(CHECKS) = Len(declared)

(* A class that is not in the list yet can be appended to it. *)
LEMMA AppendKeepsInjective ==
  ASSUME NEW S, NEW list \in Seq(S), IsInjective(list), NEW c \in S, c \notin Range(list)
  PROVE  IsInjective(Append(list, c))
<1>1. /\ DOMAIN list = 1 .. Len(list) /\ Len(list) \in Nat
      /\ DOMAIN Append(list, c) = 1 .. Len(list) + 1
      /\ Append(list, c)[Len(list) + 1] = c
      /\ \A i \in 1 .. Len(list) : Append(list, c)[i] = list[i]
  OBVIOUS
<1>2. \A i \in 1 .. Len(list) : list[i] # c
  BY <1>1 DEF Range
<1>3. \A i, k \in 1 .. Len(list) : list[i] = list[k] => i = k
  BY <1>1 DEF IsInjective
<1> QED
  BY <1>1, <1>2, <1>3 DEF IsInjective

LEMMA RegisteredInit == CliInit => Registered
<1> SUFFICES ASSUME CliInit PROVE Registered
  OBVIOUS
<1>1. CHECKS = <<>> /\ stage = "import" /\ exit = NoExit
  BY DEF CliInit
<1>2. Len(declared) \in Nat
  BY CliAssumption DEF CliInit
<1>3. IsInjective(<<>>)
  BY DEF IsInjective
<1> QED
  BY <1>1, <1>2, <1>3 DEF CliInit, Registered, Documented, NoExit

LEMMA RegisteredNext == Stages /\ Registered /\ [CliNext]_cliVars => Registered'
<1> SUFFICES ASSUME Stages, Registered, [CliNext]_cliVars PROVE Registered'
  OBVIOUS
<1>1. checks' = checks /\ UNCHANGED args
  <2>1. UNCHANGED inputs
    BY CommandSteps, StepsAreOneWay
  <2>2. UNCHANGED args
    BY DEF CliNext, CommandStep, Register, RegisterRejects, Imported, ParseAccepts, ParseRejects,
       NoChecksMatch, StartScan, ScanReturns, NotAuthenticated, ScanInterrupted, Write,
       WriteFails, Report, Gate, ScanStep, cliVars
  <2> QED
    BY <2>1, <2>2 DEF inputs
<1>2. declared \in Seq(Check)
  BY CliAssumption DEF Registered
<1>3. CASE Register
  <2> DEFINE cls == declared[Len(CHECKS) + 1]
  <2>1. /\ stage = "import" /\ Len(CHECKS) < Len(declared)
        /\ cls \notin Range(CHECKS) /\ CHECKS' = Append(CHECKS, cls)
        /\ stage' = "import" /\ UNCHANGED <<exit, output>>
    BY <1>3 DEF Register
  <2>2. Len(CHECKS) \in Nat /\ Len(declared) \in Nat
    BY <1>2 DEF Registered
  <2>3. cls \in Check
    BY <1>2, <2>1, <2>2
  <2>4. CHECKS' \in Seq(Check) /\ Len(CHECKS') = Len(CHECKS) + 1
    BY <2>1, <2>3 DEF Registered
  <2>5. IsInjective(CHECKS')
    BY <2>1, <2>3, AppendKeepsInjective DEF Registered
  <2>6. \A i \in 1 .. Len(CHECKS') : CHECKS'[i] = declared[i]
    BY <2>1, <2>2, <2>4 DEF Registered
  <2>7. ~Documented'
    BY <2>1 DEF Stages, CliTypeOK, Documented, NoExit
  <2> QED
    BY <1>1, <2>1, <2>2, <2>4, <2>5, <2>6, <2>7 DEF Registered, args
<1>4. CASE CHECKS' = CHECKS
  <2>1. stage' \notin {"import", "over"} \/ Documented' => Len(CHECKS) = Len(declared)
    <3>1. CASE Imported
      BY <1>2, <3>1 DEF Imported, Registered
    <3>2. CASE RegisterRejects
      BY <3>2 DEF RegisterRejects, Exit, Documented, Stages, Crash
    <3>3. CASE UNCHANGED <<stage, exit, output>>
      BY <3>3 DEF Registered, Documented
    <3>4. CASE stage \notin {"import", "over"}
      BY <3>4 DEF Registered
    <3> QED
      BY <1>3, <3>1, <3>2, <3>3, <3>4 DEF CliNext, CommandStep, Register, NoChecksMatch,
         ParseAccepts, ParseRejects, StartScan, ScanReturns, NotAuthenticated, ScanInterrupted,
         Write, WriteFails, Report, Gate, ScanStep, command, cliVars
  <2> QED
    BY <1>1, <1>4, <2>1 DEF Registered, args
<1> QED
  BY <1>3, <1>4 DEF CliNext, CommandStep, RegisterRejects, Imported, ParseAccepts, ParseRejects,
     NoChecksMatch, StartScan, ScanReturns, NotAuthenticated, ScanInterrupted, Write, WriteFails,
     Report, Gate, ScanStep, command, cliVars

(* What follows for the scan: past the import, its checks are those of the *)
(* registry that the service filter leaves, none of them twice.            *)
LEMMA ScanIsGiven ==
  ASSUME Registered, Len(CHECKS) = Len(declared)
  PROVE  /\ Range(checks) = {c \in Range(CHECKS) : InService(c, service)}
         /\ IsInjective(checks)
<1>1. declared \in Seq(Check)
  BY CliAssumption DEF Registered
<1>2. CHECKS = declared
  BY <1>1 DEF Registered
<1> QED
  BY <1>1, <1>2, FilteredIs DEF Registered

(* A scan only finds what it was asked about, and what was wrong at some   *)
(* moment or was mistaken for it.                                          *)
LEMMA FindingsAreInScope ==
  ASSUME TypeOK, Bookkeeping, phase = "done"
  PROVE  \A e \in collected :
           InScope(e[2]) /\ (e[2] \in seen \/ \E s \in Slots : <<s, e[2]>> \in mistaken)
<1> SUFFICES ASSUME NEW e \in collected
             PROVE  InScope(e[2]) /\ (e[2] \in seen \/ \E s \in Slots : <<s, e[2]>> \in mistaken)
  OBVIOUS
<1>1. e[1] \in Slots /\ e[2] \in Warranted(e[1])
  <2>1. e[1] \in Slots
    BY DEF TypeOK
  <2>2. \A c \in collected : c[1] \in Settled \union {<<ci, ti>>} /\ c[2] \in Warranted(c[1])
    BY DEF Bookkeeping
  <2> QED
    BY <2>1, <2>2
<1>2. PICK i \in 1 .. Len(checks) :
        Selects(checks[i]) /\ \E j \in 1 .. Len(Targets(checks[i])) : e[1] = <<i, j>>
  BY <1>1, SlotsAre
<1>3. PICK j \in 1 .. Len(Targets(checks[i])) : e[1] = <<i, j>>
  BY <1>2
<1>4. e[2] \in Answers(checks[i], Targets(checks[i])[j], seen \union Of(mistaken, e[1]))
  BY <1>1, <1>3 DEF Warranted, Target
<1>5. e[2].rule = checks[i] /\ checks[i] \in Range(checks)
  BY <1>4, TargetsAreLists DEF Answers, Range
<1>6. e[2] \in seen \/ \E s \in Slots : <<s, e[2]>> \in mistaken
  BY <1>1, <1>4 DEF Answers, Of
<1>7. CASE checks[i] \in GlobalCheck
  BY <1>2, <1>5, <1>6, <1>7 DEF InScope
<1>8. CASE checks[i] \notin GlobalCheck
  <2>1. e[2].region = CtxRegions[j] /\ j \in 1 .. Len(CtxRegions)
    BY <1>4, <1>8 DEF Answers, Targets
  <2>2. CtxRegions[j] \in Range(CtxRegions)
    BY <2>1, TargetsAreLists DEF Range
  <2> QED
    BY <1>2, <1>5, <1>6, <2>1, <2>2 DEF InScope
<1> QED
  BY <1>7, <1>8

(* The document of a command that got as far as writing one: no finding    *)
(* dropped or counted twice, none that was not asked for, and, if nothing  *)
(* is said on stderr, none missing but those a check passed over.          *)
THEOREM CliSpecDocumentCounts == CliSpec => []DocumentCounts
<1> DEFINE ScanIs == TypeOK /\ Bookkeeping /\ FlawsReportedOrExplained /\ NoInflatedCounts
<1>1. ScanIs /\ Stages /\ Registered => DocumentCounts
  <2> SUFFICES ASSUME ScanIs, Stages, Registered, Documented
               PROVE  /\ {e[2] : e \in output} = {e[2] : e \in collected}
                      /\ dedupe \/ IsInjective(requested) =>
                           \A e1, e2 \in output : e1[2] = e2[2] => e1 = e2
                      /\ \A e \in output : /\ AskedFor(e[2])
                                           /\ \/ e[2] \in seen
                                              \/ \E s \in Slots : <<s, e[2]>> \in mistaken
                      /\ stderr = {} =>
                           \A f \in steady : AskedFor(f) =>
                             (\E e \in output : e[2] = f) \/ Overlooked(f)
    BY DEF DocumentCounts
  <2>1. phase = "done" /\ output = Result(dedupe) /\ stderr = metaErrors
    BY DEF Stages
  <2>2. /\ output \subseteq collected
        /\ \A e \in collected : \E k \in output : k[2] = e[2]
    BY <2>1, ResultIs
  <2>3. {e[2] : e \in output} = {e[2] : e \in collected}
    BY <2>2
  <2>4. /\ Range(checks) = {c \in Range(CHECKS) : InService(c, service)}
        /\ IsInjective(checks)
    BY ScanIsGiven DEF Registered
  <2>5. ASSUME dedupe \/ IsInjective(requested),
               NEW e1 \in output, NEW e2 \in output, e1[2] = e2[2]
        PROVE  e1 = e2
    <3>1. CASE dedupe
      <4> DEFINE One(f) == CHOOSE e \in collected : e[2] = f
      <4>1. output = {One(f) : f \in {e[2] : e \in collected}}
        BY <2>1, <3>1 DEF Result, Deduplicated
      <4>2. \A f \in {e[2] : e \in collected} : One(f)[2] = f
        OBVIOUS
      <4> HIDE DEF One
      <4>3. PICK f1 \in {e[2] : e \in collected} : e1 = One(f1)
        BY <4>1
      <4>4. PICK f2 \in {e[2] : e \in collected} : e2 = One(f2)
        BY <4>1
      <4> QED
        BY <2>5, <4>2, <4>3, <4>4
    <3>2. CASE IsInjective(requested)
      BY <2>2, <2>4, <2>5, <3>2 DEF NoInflatedCounts
    <3> QED
      BY <2>5, <3>1, <3>2
  <2>6. \A f : InScope(f) <=> AskedFor(f)
    BY <2>4 DEF InScope, AskedFor
  <2>7. ASSUME NEW e \in output
        PROVE  AskedFor(e[2]) /\ (e[2] \in seen \/ \E s \in Slots : <<s, e[2]>> \in mistaken)
    BY <2>1, <2>2, <2>6, FindingsAreInScope
  <2>8. ASSUME stderr = {}, NEW f \in steady, AskedFor(f)
        PROVE  (\E e \in output : e[2] = f) \/ Overlooked(f)
    <3>1. (\E s \in Slots : <<s, f>> \in collected) \/ Overlooked(f)
      BY <2>1, <2>6, <2>8 DEF FlawsReportedOrExplained, Explained
    <3>2. ASSUME NEW s \in Slots, <<s, f>> \in collected PROVE \E e \in output : e[2] = f
      <4>1. PICK k \in output : k[2] = <<s, f>>[2]
        BY <2>2, <3>2
      <4> QED
        BY <4>1
    <3> QED
      BY <3>1, <3>2
  <2> QED
    BY <2>3, <2>5, <2>7, <2>8
<1>2. CliSpec => []Registered
  BY RegisteredInit, RegisteredNext, StagesHold, PTL DEF CliSpec
<1> HIDE DEF ScanIs
<1>3. TypeOK /\ Bookkeeping /\ FlawsReportedOrExplained /\ NoInflatedCounts => ScanIs
  BY DEF ScanIs
<1> QED
  BY <1>1, <1>2, <1>3, StagesHold, CommandRunsAScan, SpecBookkeeping,
     SpecFlawsReportedOrExplained, SpecNoInflatedCounts, PTL

-----------------------------------------------------------------------------
(* So the scan the command runs, whatever goes before and after it, keeps  *)
(* the promise of docs/adr/0004.                                           *)
THEOREM CommandImplementsPromise == CliSpec => ImplementsPromise /\ []Promise!PromiseKept
  BY CommandRunsAScan, SpecImplementsPromise, ScanKeepsPromise, PTL

-----------------------------------------------------------------------------
(* The steps the command can still take, at most: a class registered each, *)
(* a stage each, and those of the scan.                                    *)
StagesLeft ==
  CASE stage = "import" -> 7
    [] stage = "parse" -> 6
    [] stage = "filter" -> 5
    [] stage = "scan" -> 4
    [] stage = "write" -> 3
    [] stage = "report" -> 2
    [] stage = "gate" -> 1
    [] OTHER -> 0

Unregistered == Len(declared) - Len(CHECKS)

CommandStepsLeft == Unregistered + StagesLeft + StepsLeft

CommandStepsRunOut ==
  CommandStepsLeft \in Nat /\ CommandStepsLeft' < CommandStepsLeft

LEMMA SumsDecrease ==
  \A a, b, c, d \in Nat :
    /\ a + b + c \in Nat
    /\ d < a => d + b + c < a + b + c
    /\ d < b => a + d + c < a + b + c
    /\ d < c => a + b + d < a + b + c
OBVIOUS

LEMMA CommandStepTakesOne ==
  ASSUME IsFiniteSet(Conceivable), TypeOK, TypeOK', StepsLeft \in Nat,
         StepsLeft' \in Nat, Registered, CliNext
  PROVE  CommandStepsRunOut
<1>1. /\ Len(declared) \in Nat /\ Len(CHECKS) \in Nat /\ Len(CHECKS) <= Len(declared)
      /\ Unregistered \in Nat
  BY CliAssumption DEF Registered, Unregistered
<1>2. StagesLeft \in Nat
  BY DEF StagesLeft
<1>3. UNCHANGED vars => StepsLeft' = StepsLeft
  <2> SUFFICES ASSUME UNCHANGED vars PROVE StepsLeft' = StepsLeft
    OBVIOUS
  <2>1. Slots' = Slots
    BY InputsFixSlots DEF vars, inputs
  <2> QED
    BY <2>1 DEF vars, StepsLeft, Pairs, Unreported, Unskipped, Unmistaken, Unsettled, Settled,
       ChecksLeft, PhasesLeft, DriftLeft
<1>4. CommandStepsLeft \in Nat
  BY <1>1, <1>2, SumsDecrease DEF CommandStepsLeft
<1>5. CASE ScanStep
  <2>1. Next
    BY <1>5 DEF ScanStep
  <2>2. StepsLeft' < StepsLeft
    BY <2>1, StepTakesOne DEF StepsRunOut
  <2>3. Unregistered' = Unregistered /\ StagesLeft' = StagesLeft
    BY <1>5 DEF ScanStep, args, command, Unregistered, StagesLeft
  <2>4. CommandStepsLeft' = Unregistered + StagesLeft + StepsLeft'
    BY <2>3 DEF CommandStepsLeft
  <2> QED
    BY <1>1, <1>2, <1>4, <2>2, <2>4, SumsDecrease DEF CommandStepsLeft, CommandStepsRunOut
<1>6. CASE Register
  <2>1. /\ CHECKS \in Seq(Check) /\ declared' = declared
        /\ CHECKS' = Append(CHECKS, declared[Len(CHECKS) + 1])
        /\ Len(CHECKS) < Len(declared)
    BY <1>6 DEF Register, Registered, args
  <2>2. Len(CHECKS') = Len(CHECKS) + 1
    BY <2>1
  <2>3. Unregistered' \in Nat /\ Unregistered' < Unregistered
    BY <1>1, <2>1, <2>2 DEF Unregistered
  <2>4. StagesLeft' = StagesLeft /\ UNCHANGED vars
    BY <1>6 DEF Register, StagesLeft
  <2>5. CommandStepsLeft' = Unregistered' + StagesLeft + StepsLeft
    BY <1>3, <2>4 DEF CommandStepsLeft
  <2> QED
    BY <1>1, <1>2, <1>4, <2>3, <2>5, SumsDecrease DEF CommandStepsLeft, CommandStepsRunOut
<1>7. CASE CommandStep /\ ~Register
  <2>1. UNCHANGED vars /\ Unregistered' = Unregistered
    BY <1>7 DEF CommandStep, RegisterRejects, Imported, ParseAccepts, ParseRejects,
       NoChecksMatch, StartScan, ScanReturns, NotAuthenticated, ScanInterrupted, Write,
       WriteFails, Report, Gate, args, Unregistered
  <2>2. StagesLeft' \in Nat /\ StagesLeft' < StagesLeft
    BY <1>7 DEF CommandStep, RegisterRejects, Imported, ParseAccepts, ParseRejects,
       NoChecksMatch, StartScan, ScanReturns, NotAuthenticated, ScanInterrupted, Write,
       WriteFails, Report, Gate, Exit, StagesLeft
  <2>3. CommandStepsLeft' = Unregistered + StagesLeft' + StepsLeft
    BY <1>3, <2>1 DEF CommandStepsLeft
  <2> QED
    BY <1>1, <1>2, <1>4, <2>2, <2>3, SumsDecrease DEF CommandStepsLeft, CommandStepsRunOut
<1> QED
  BY <1>5, <1>6, <1>7 DEF CliNext

(* The command cannot go on for ever either: no stage is entered twice, no *)
(* class registered twice, and one scan is run (cli.py 48-100, 187-188).   *)
THEOREM CliSpecStepsRunOut ==
  IsFiniteSet(Conceivable) => (CliSpec => [][CommandStepsRunOut]_cliVars)
<1>1. SUFFICES ASSUME IsFiniteSet(Conceivable)
               PROVE  CliSpec => [][CommandStepsRunOut]_cliVars
  OBVIOUS
<1>2. CliSpec => []Registered
  BY RegisteredInit, RegisteredNext, StagesHold, PTL DEF CliSpec
<1>3. TypeOK => StepsLeft \in Nat
  BY <1>1, StepsAreCounted
<1>4. /\ TypeOK /\ TypeOK' /\ StepsLeft \in Nat /\ (StepsLeft \in Nat)' /\ Registered
        => (CliNext => CommandStepsRunOut)
  BY <1>1, CommandStepTakesOne
<1>5. CliSpec => []TypeOK
  BY CommandRunsAScan, SpecTypeOK, PTL
<1> QED
  BY <1>2, <1>3, <1>4, <1>5, PTL DEF CliSpec
=============================================================================
