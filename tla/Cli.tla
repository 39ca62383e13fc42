--------------------------------- MODULE Cli ---------------------------------
(***************************************************************************)
(* The command `basalt-aws scan` (cli.py) around the scan of module        *)
(* Scanner: the checks are registered when the package is imported         *)
(* (registry.py), argparse takes the arguments or rejects them, the        *)
(* service filter picks some checks, the scan runs, and its result is      *)
(* deduplicated, written, reported on stderr and turned into an exit       *)
(* status.  Every step is a step of Scanner or leaves it alone.            *)
(***************************************************************************)
EXTENDS Scanner, FiniteSets

CONSTANTS
  Service,
  ServiceOf,       \* the service of each check
  DeclaredLists,   \* the check classes the package may define, in order
  Malformed,       \* classes without a rule_id or a service
  Severity         \* the rank of each finding; a check may override its own

VARIABLES
  (* the arguments and the package *)
  declared,        \* the classes @register is applied to, in import order
  accepted,        \* whether argparse takes the command line
  service,         \* --service; empty means all of them
  dedupe,          \* --dedupe
  failOn,          \* --fail-on, as a rank; 0 if it is not given
  (* the command *)
  CHECKS,
  stage,           \* "import", "parse", "filter", "scan", "write", "report", "gate", "over"
  result,          \* what the scan found, perhaps deduplicated
  output,          \* the findings in the document that was written
  stderr,          \* the errors printed
  exit             \* the exit status

args == <<declared, accepted, service, dedupe, failOn>>
command == <<CHECKS, stage, result, output, stderr, exit>>
cliVars == <<vars, args, command>>

Rank == 1 .. 4     \* low, medium, high, critical
NoExit == -1
Crash == 1         \* what Python exits with at an exception nobody catches
Killed == 130

(* The comprehension over CHECKS: where the list has a check the service   *)
(* filter lets through, and those checks in their order.                   *)
InService(c, services) == services = {} \/ ServiceOf[c] \in services
Kept(list, services) == {i \in DOMAIN list : InService(list[i], services)}
UpTo(K, i) == {k \in K : k <= i}
Nth(K, n) == CHOOSE i \in K : Cardinality(UpTo(K, i)) = n

Filtered(list, services) ==
  LET K == Kept(list, services)
  IN [n \in 1 .. Cardinality(K) |-> list[Nth(K, n)]]

ASSUME CliAssumption ==
  /\ ServiceOf \in [Check -> Service]
  /\ DeclaredLists \subseteq Seq(Check)
  /\ Severity \in [Finding -> Rank]
  /\ \A list \in DeclaredLists, services \in SUBSET Service :
       Filtered(list, services) \in CheckLists

-----------------------------------------------------------------------------
CliInit ==
  /\ declared \in DeclaredLists
  /\ accepted \in BOOLEAN
  /\ service \in SUBSET Service
  /\ dedupe \in BOOLEAN
  /\ failOn \in Rank \union {0}
  /\ checks = Filtered(declared, service)   \* what the scan will be given
  /\ Init
  /\ CHECKS = <<>>
  /\ stage = "import"
  /\ result = {}
  /\ output = {}
  /\ stderr = {}
  /\ exit = NoExit

Exit(status) == stage' = "over" /\ exit' = status

(* @register, class by class as the check modules are imported. *)
RegisterAnything ==
  /\ stage = "import"
  /\ Len(CHECKS) < Len(declared)
  /\ CHECKS' = Append(CHECKS, declared[Len(CHECKS) + 1])
  /\ UNCHANGED <<vars, args, stage, result, output, stderr, exit>>

Register ==
  /\ stage = "import"
  /\ Len(CHECKS) < Len(declared)
  /\ LET cls == declared[Len(CHECKS) + 1]
     IN /\ cls \notin Malformed \union Range(CHECKS)
        /\ CHECKS' = Append(CHECKS, cls)
  /\ UNCHANGED <<vars, args, stage, result, output, stderr, exit>>

(* ValueError: no rule_id, no service, or a rule_id that is taken. *)
RegisterRejects ==
  /\ stage = "import"
  /\ Len(CHECKS) < Len(declared)
  /\ declared[Len(CHECKS) + 1] \in Malformed \union Range(CHECKS)
  /\ Exit(Crash)
  /\ UNCHANGED <<vars, args, CHECKS, result, output, stderr>>

Imported ==
  /\ stage = "import"
  /\ Len(CHECKS) = Len(declared)
  /\ stage' = "parse"
  /\ UNCHANGED <<vars, args, CHECKS, result, output, stderr, exit>>

ParseAccepts ==
  /\ stage = "parse"
  /\ accepted
  /\ stage' = "filter"
  /\ UNCHANGED <<vars, args, CHECKS, result, output, stderr, exit>>

(* A flag or a choice argparse does not know: SystemExit(2). *)
ParseRejects ==
  /\ stage = "parse"
  /\ ~accepted
  /\ Exit(2)
  /\ UNCHANGED <<vars, args, CHECKS, result, output, stderr>>

NoChecksMatch ==
  /\ stage = "filter"
  /\ checks = <<>>
  /\ Exit(2)
  /\ UNCHANGED <<vars, args, CHECKS, result, output, stderr>>

StartScan ==
  /\ stage = "filter"
  /\ checks # <<>>
  /\ stage' = "scan"
  /\ UNCHANGED <<vars, args, CHECKS, result, output, stderr, exit>>

(* AwsScanner(checks).run(context). *)
ScanStep ==
  /\ stage = "scan"
  /\ Next
  /\ UNCHANGED <<args, command>>

(* Of the findings with the same fingerprint, one. *)
Deduplicated ==
  {CHOOSE e \in collected : e[2] = f : f \in {e[2] : e \in collected}}

Result(deduplicate) == IF deduplicate THEN Deduplicated ELSE collected

(* The result of a scan that could not authenticate is taken for an        *)
(* AwsAccessError, though it is there to be written.                       *)
ErrorsExitTwo ==
  /\ stage = "scan"
  /\ phase = "done"
  /\ result' = Result(dedupe)
  /\ IF metaErrors # {} THEN Exit(2) ELSE stage' = "write" /\ exit' = exit
  /\ UNCHANGED <<vars, args, CHECKS, output, stderr>>

(* run() has returned, with or without errors in its metadata. *)
ScanReturns ==
  /\ stage = "scan"
  /\ phase = "done"
  /\ result' = Result(dedupe)
  /\ stage' = "write"
  /\ UNCHANGED <<vars, args, CHECKS, output, stderr, exit>>

(* An AwsAccessError has come out of run(). *)
NotAuthenticated ==
  /\ stage = "scan"
  /\ phase = "refused"
  /\ Exit(2)
  /\ UNCHANGED <<vars, args, CHECKS, result, output, stderr>>

(* KeyboardInterrupt goes through the command too. *)
ScanInterrupted ==
  /\ stage = "scan"
  /\ phase = "interrupted"
  /\ Exit(Killed)
  /\ UNCHANGED <<vars, args, CHECKS, result, output, stderr>>

Write ==
  /\ stage = "write"
  /\ output' = result
  /\ stage' = "report"
  /\ UNCHANGED <<vars, args, CHECKS, result, stderr, exit>>

WriteRetried ==
  /\ stage = "write"
  /\ stage' = "scan"
  /\ UNCHANGED <<vars, args, CHECKS, result, output, stderr, exit>>

(* The path cannot be written, or the pipe is closed. *)
WriteFails ==
  /\ stage = "write"
  /\ Exit(Crash)
  /\ UNCHANGED <<vars, args, CHECKS, result, output, stderr>>

SummaryOnly ==
  /\ stage = "report"
  /\ stage' = "gate"
  /\ UNCHANGED <<vars, args, CHECKS, result, output, stderr, exit>>

Report ==
  /\ stage = "report"
  /\ stderr' = metaErrors
  /\ stage' = "gate"
  /\ UNCHANGED <<vars, args, CHECKS, result, output, exit>>

(* `if args.fail_on`, and the rank of a finding at or above the threshold. *)
Qualifies(f) == failOn # 0 /\ Severity[f] >= failOn

StatusMissing ==
  /\ stage = "gate"
  /\ stage' = "over"
  /\ UNCHANGED <<vars, args, CHECKS, result, output, stderr, exit>>

Gate ==
  /\ stage = "gate"
  /\ Exit(IF \E e \in result : Qualifies(e[2]) THEN 1 ELSE 0)
  /\ UNCHANGED <<vars, args, CHECKS, result, output, stderr>>

CommandStep ==
  \/ Register
  \/ RegisterRejects
  \/ Imported
  \/ ParseAccepts
  \/ ParseRejects
  \/ NoChecksMatch
  \/ StartScan
  \/ ScanReturns
  \/ NotAuthenticated
  \/ ScanInterrupted
  \/ Write
  \/ WriteFails
  \/ Report
  \/ Gate

CliNext == CommandStep \/ ScanStep

CliSpec == CliInit /\ [][CliNext]_cliVars

(* One thread that nothing blocks, in the scan neither: every call of a    *)
(* check ends, and the loops go on.                                        *)
CliFairSpec ==
  /\ CliSpec
  /\ WF_cliVars(CommandStep)
  /\ WF_cliVars(stage = "scan" /\ Progress /\ UNCHANGED <<args, command>>)

-----------------------------------------------------------------------------
CliTypeOK ==
  /\ declared \in DeclaredLists
  /\ accepted \in BOOLEAN
  /\ service \in SUBSET Service
  /\ dedupe \in BOOLEAN
  /\ failOn \in Rank \union {0}
  /\ CHECKS \in Seq(Check)
  /\ stage \in {"import", "parse", "filter", "scan", "write", "report", "gate", "over"}
  /\ result \subseteq collected
  /\ output \subseteq collected
  /\ stderr \subseteq metaErrors
  /\ exit \in {NoExit, 0, 1, 2, Killed}
  /\ exit = NoExit <=> stage # "over"
  /\ stage \in {"import", "parse", "filter"} => phase = "ready"
  /\ stage \in {"write", "report", "gate"} => phase = "done"

(* What a passing gate does not answer for.  Of the flaws the command was  *)
(* asked about and that were there all along, any at or above --fail-on    *)
(* that does not lead to status 1 belongs to a check and region named on   *)
(* stderr, or was passed over by its check without a word, or the scan     *)
(* could not authenticate (cli.py 67-100).  A clean stderr is therefore no *)
(* reason to believe the gate: see AccessFailuresRecorded.                 *)
PassIsExplained ==
  exit = 0 =>
    \/ BuildError \in stderr
    \/ \A f \in steady : InScope(f) /\ Qualifies(f) =>
         \/ \E s \in stderr : checks[s[1]] = f.rule /\ Target(s) \in {NoRegion, f.region}
         \/ Overlooked(f)

(* Status 1 after a scan means a finding at or above --fail-on that is in  *)
(* the written document - or that there is no document: an uncaught error  *)
(* of the write has the same status (cli.py 78-80, 94-99).  Status 2 means *)
(* that no check has run and nothing is written: the arguments are wrong,  *)
(* or no check matches them, or run() let an AwsAccessError through        *)
(* (cli.py 62-71, 188).  What a broken check leaves behind is no status 2. *)
StatusMeans ==
  /\ exit = 1 /\ phase = "done" =>
       output = {} \/ \E e \in output : Qualifies(e[2])
  /\ exit = 2 =>
       /\ collected = {} /\ output = {}
       /\ ~accepted \/ checks = <<>> \/ phase = "refused"

(* What cli.py says of a scan that could not authenticate (69-71). *)
UnauthenticatedExitsTwo ==
  exit # NoExit /\ BuildError \in metaErrors => exit = 2

(* The command was asked about the flaw: its check is registered and of a  *)
(* service asked for, the rule filter lets it pass, and it lies where the  *)
(* scan looks.                                                             *)
AskedFor(f) ==
  /\ f.rule \in Range(CHECKS) /\ InService(f.rule, service)
  /\ Selects(f.rule)
  /\ f.rule \in GlobalCheck \/ f.region \in Range(CtxRegions)

Documented == exit = 0 \/ (exit = 1 /\ output # {})

(* Deduplication drops no flaw, and with it, or with distinct regions, the *)
(* document counts none twice: registration has seen to it that no check   *)
(* is there twice (registry.py 138-141, cli.py 73-80).  The document is    *)
(* about what the command was asked and nothing else, and about what was   *)
(* wrong at some moment, or what a check mistook for it; and one that      *)
(* comes without an error on stderr has all the flaws that were there all  *)
(* along, but for those a check passed over (cli.py 62, 84-92).            *)
DocumentCounts ==
  Documented =>
    /\ {e[2] : e \in output} = {e[2] : e \in collected}
    /\ dedupe \/ IsInjective(requested) =>
         \A e1, e2 \in output : e1[2] = e2[2] => e1 = e2
    /\ \A e \in output :
         AskedFor(e[2]) /\ (e[2] \in seen \/ \E s \in Slots : <<s, e[2]>> \in mistaken)
    /\ stderr = {} =>
         \A f \in steady : AskedFor(f) =>
           (\E e \in output : e[2] = f) \/ Overlooked(f)

(* Whatever the scan meets - any check may raise, in any region - every    *)
(* slot gets its turn, and the command ends with a status (scanner.py      *)
(* 53-66, cli.py 67-100).                                                  *)
CommandEnds == <>(exit # NoExit)
=============================================================================
