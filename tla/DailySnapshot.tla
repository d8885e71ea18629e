---------------------------- MODULE DailySnapshot ----------------------------
(***************************************************************************)
(* scripts/matrix-daily.sh: one report a day on the matrix of the three    *)
(* windows, with the check of the reopen trigger, committed and pushed from*)
(* the repository the collector runs in.                                   *)
(*                                                                         *)
(* A coding agent works in the same repository and shares its index: it    *)
(* stages and commits between any two commands of the script.  A window's  *)
(* figures are abstracted to the gates they clear; the rank command, which *)
(* only words a note, is left out.                                         *)
(***************************************************************************)
EXTENDS Integers, Sequences, FiniteSets

CONSTANTS
  MaxDays,     \* bound: days of the history
  MaxRuns,     \* bound: runs of the script
  NumWindows,  \* 24h, 72h and 168h
  Gates,       \* A, B and C large enough, coverage good enough
  Code,        \* files outside data/reports that the agent works on
  PipeFits,    \* staged paths that grep hands on in one write
  Faults,      \* which of DailyFaults may happen
  MaxFaults,   \* bound on them
  NULL

Days == 1 .. MaxDays

Windows == 1 .. NumWindows

(* A git command of the sync that fails, or any other that ends the script.*)
DailyFaults == {"look", "status", "add", "commit", "push", "abort"}

ASSUME DailyConstantsOK ==
  /\ MaxDays \in Nat \ {0} /\ MaxRuns \in Nat /\ NumWindows \in Nat \ {0}
  /\ PipeFits \in Nat /\ MaxFaults \in Nat
  /\ Faults \subseteq DailyFaults

VARIABLES
  day,         \* the date
  pc,          \* where the script is, or "idle"
  ended,       \* how the last run ended: "ok" (exit 0), "error" (1), "aborted"
  qualifying,  \* first window that cleared every gate, or 0
  report,      \* data/reports/matrix-daily.txt
  dated,       \* data/reports/history: day -> report, or NULL
  index, head, remote,  \* what git has of both: staged, committed, pushed
  staged,      \* files of the agent in the index, not yet committed
  late,        \* history: those it staged since the script looked
  committed,   \* history: the script committed in this run
  blind,       \* history: its git status failed
  runsLeft, faultsLeft

dailyVars == <<day, pc, ended, qualifying, report, dated, index, head, remote, staged, late,
               committed, blind, runsLeft, faultsLeft>>
repo == <<index, head, remote>>
agents == <<staged, late>>
marks == <<committed, blind>>

Tree == [report |-> report, dated |-> dated]

Blank(d) == [day |-> d, lines |-> <<>>, status |-> "none", warned |-> FALSE]

DailyInit ==
  /\ day = 1 /\ pc = "idle" /\ ended = "ok" /\ qualifying = 0
  /\ report = Blank(0) /\ dated = [d \in Days |-> NULL]
  /\ index = Tree /\ head = Tree /\ remote = Tree
  /\ staged = {} /\ late = {} /\ committed = FALSE /\ blind = FALSE
  /\ runsLeft = MaxRuns /\ faultsLeft = MaxFaults

Goto(place) == pc' = place

Fault(kind) == kind \in Faults /\ faultsLeft > 0 /\ faultsLeft' = faultsLeft - 1

End(how) == pc' = "idle" /\ ended' = how

-----------------------------------------------------------------------------
(* The agent and the calendar.                                             *)

NextDay ==
  /\ day < MaxDays
  /\ day' = day + 1
  /\ UNCHANGED <<pc, ended, qualifying, report, dated, repo, agents, marks, runsLeft, faultsLeft>>

AgentStages ==
  /\ \E f \in Code \ staged : staged' = staged \cup {f} /\ late' = late \cup {f}
  /\ UNCHANGED <<day, pc, ended, qualifying, report, dated, repo, marks, runsLeft, faultsLeft>>

(* A commit takes whatever is in the index.                                *)
AgentCommits ==
  /\ staged # {}
  /\ staged' = {} /\ late' = {} /\ head' = index
  /\ UNCHANGED <<day, pc, ended, qualifying, report, dated, index, remote, marks, runsLeft, faultsLeft>>

-----------------------------------------------------------------------------
(* The report.  A day may be run again by hand.                            *)
Begin ==
  /\ pc = "idle" /\ runsLeft > 0 /\ runsLeft' = runsLeft - 1
  /\ report' = Blank(day)
  /\ qualifying' = 0 /\ committed' = FALSE /\ blind' = FALSE
  /\ Goto("windows")
  /\ UNCHANGED <<day, ended, dated, repo, agents, faultsLeft>>

Reported(line) == [report EXCEPT !.lines = Append(@, line)]

(* Mutated form: the best of every window, taken together.                 *)
QualifiesTogether(cleared) ==
  cleared \cup UNION {report.lines[n] : n \in DOMAIN report.lines} = Gates

(* A window that alone clears every gate.                                  *)
Qualifies(cleared) == cleared = Gates

Measure ==
  /\ pc = "windows" /\ Len(report.lines) < NumWindows
  /\ \E cleared \in SUBSET Gates :
       /\ report' = Reported(cleared)
       /\ qualifying' = IF qualifying = 0 /\ Qualifies(cleared)
                        THEN Len(report.lines) + 1 ELSE qualifying
  /\ UNCHANGED <<day, pc, ended, dated, repo, agents, marks, runsLeft, faultsLeft>>

(* The matrix command fails: the trigger is not evaluated.                 *)
MatrixFails ==
  /\ pc = "windows" /\ Len(report.lines) < NumWindows
  /\ report' = [Reported({}) EXCEPT !.status = "ERROR"]
  /\ Goto("copy")
  /\ UNCHANGED <<day, ended, qualifying, dated, repo, agents, marks, runsLeft, faultsLeft>>

Conclude ==
  /\ pc = "windows" /\ Len(report.lines) = NumWindows
  /\ report' = [report EXCEPT !.status = IF qualifying # 0 THEN "REACHED" ELSE "KEEP COLLECTING"]
  /\ Goto("copy")
  /\ UNCHANGED <<day, ended, qualifying, dated, repo, agents, marks, runsLeft, faultsLeft>>

-----------------------------------------------------------------------------
(* sync_report                                                             *)

(* Mutated form: a failed matrix reads as a day without data.              *)
ExitStatusOfSync == "ok"

(* The script's exit status once the report is synced.                     *)
ExitStatus == IF report.status = "ERROR" THEN "error" ELSE "ok"

(* "SYNC WARN" is appended to the report, and the sync is over.            *)
Warn == report' = [report EXCEPT !.warned = TRUE] /\ End(ExitStatus)

Copy ==
  /\ pc = "copy"
  /\ dated' = [dated EXCEPT ![report.day] = report]
  /\ Goto("look")
  /\ UNCHANGED <<day, ended, qualifying, report, repo, agents, marks, runsLeft, faultsLeft>>

(* Mutated form: nobody looks at the index.                                *)
SeesNothing == FALSE

SeesForeign == staged # {}

(* git diff | grep -v | grep -q: the last one leaves at the first path, and*)
(* the one before dies of it if it has more to write; pipefail then takes  *)
(* the answer for a no.                                                    *)
LookFails == Cardinality(staged) > PipeFits

LookAtIndex ==
  /\ pc = "look"
  /\ \/ SeesForeign /\ Warn /\ UNCHANGED late
     \/ /\ ~SeesForeign \/ LookFails
        /\ Goto("status") /\ late' = IF LookFails THEN staged ELSE {}
        /\ UNCHANGED <<ended, report>>
  /\ UNCHANGED <<day, qualifying, dated, repo, staged, marks, runsLeft, faultsLeft>>

(* A failing git diff is no foreign file to the if, and ends nothing.      *)
DiffFails ==
  /\ pc = "look" /\ Fault("look")
  /\ Goto("status") /\ late' = staged
  /\ UNCHANGED <<day, ended, qualifying, report, dated, repo, staged, marks, runsLeft>>

(* git status: nothing to add, commit or push if all is committed.         *)
Status ==
  /\ pc = "status"
  /\ IF Tree = index /\ index = head
     THEN End(ExitStatus) ELSE Goto("add") /\ UNCHANGED ended
  /\ UNCHANGED <<day, qualifying, report, dated, repo, agents, marks, runsLeft, faultsLeft>>

(* A failing git status is nothing to commit to the if: the sync is over.  *)
StatusFails ==
  /\ pc = "status" /\ Fault("status")
  /\ End(ExitStatus) /\ blind' = TRUE
  /\ UNCHANGED <<day, qualifying, report, dated, repo, agents, committed, runsLeft>>

Add ==
  /\ pc = "add"
  /\ index' = Tree
  /\ Goto("commit")
  /\ UNCHANGED <<day, ended, qualifying, report, dated, head, remote, agents, marks, runsLeft, faultsLeft>>

(* Nothing catches a failing add, as of an index the agent has locked: the *)
(* script ends under set -e.                                               *)
AddFails ==
  /\ pc = "add" /\ Fault("add")
  /\ End("aborted")
  /\ UNCHANGED <<day, qualifying, report, dated, repo, agents, marks, runsLeft>>

(* The whole index: the agent's files too.                                 *)
Commit ==
  /\ pc = "commit" /\ (index # head \/ staged # {})
  /\ head' = index /\ staged' = {} /\ late' = {} /\ committed' = TRUE
  /\ Goto("push")
  /\ UNCHANGED <<day, ended, qualifying, report, dated, index, remote, blind, runsLeft, faultsLeft>>

(* The commit fails, or there is nothing left to commit.                   *)
CommitFails ==
  /\ pc = "commit"
  /\ Fault("commit") \/ (index = head /\ staged = {} /\ UNCHANGED faultsLeft)
  /\ Warn
  /\ UNCHANGED <<day, qualifying, dated, repo, agents, marks, runsLeft>>

(* Mutated form: the failed push is not mentioned.                         *)
UnpushedSilently == End(ExitStatus) /\ UNCHANGED report

Unpushed == Warn

Push ==
  /\ pc = "push"
  /\ \/ remote' = head /\ End(ExitStatus) /\ UNCHANGED <<report, faultsLeft>>
     \/ Fault("push") /\ Unpushed /\ UNCHANGED remote
  /\ UNCHANGED <<day, qualifying, dated, index, head, agents, marks, runsLeft>>

(* A command fails that is no condition of an if, or the machine goes down.*)
Abort ==
  /\ pc # "idle" /\ Fault("abort")
  /\ End("aborted")
  /\ UNCHANGED <<day, qualifying, report, dated, repo, agents, marks, runsLeft>>

-----------------------------------------------------------------------------
Script ==
  \/ Begin \/ Measure \/ MatrixFails \/ Conclude \/ Copy \/ LookAtIndex \/ DiffFails
  \/ Status \/ StatusFails \/ Add \/ AddFails \/ Commit \/ CommitFails \/ Push \/ Abort

DailyNext == NextDay \/ AgentStages \/ AgentCommits \/ Script

DailySpec == DailyInit /\ [][DailyNext]_dailyVars

-----------------------------------------------------------------------------
ReportsOf(tree) == {tree.report} \cup {tree.dated[d] : d \in {e \in Days : tree.dated[e] # NULL}}

(* No report, wherever it got to, says REACHED unless one of its windows   *)
(* cleared every gate by itself, or says that data are still missing when  *)
(* the trigger was not evaluated (matrix-daily.sh:7-18, 142-149).          *)
ReachedIsEarned ==
  \A tree \in {Tree, index, head, remote} : \A r \in ReportsOf(tree) :
    LET earned == \E n \in DOMAIN r.lines : r.lines[n] = Gates
    IN  /\ r.status = "REACHED" => earned /\ Len(r.lines) = NumWindows
        /\ r.status = "KEEP COLLECTING" => ~earned /\ Len(r.lines) = NumWindows

(* A run that exits with 0 evaluated the trigger, for the report of its own*)
(* day, and kept a dated copy of it; whatever failed before or after       *)
(* (matrix-daily.sh:15-19, 111-125).                                       *)
SuccessIsEvaluated ==
  pc = "idle" /\ ended = "ok" /\ report.day # 0 =>
    /\ report.status \in {"REACHED", "KEEP COLLECTING"}
    /\ dated[report.day] = [report EXCEPT !.warned = FALSE]

(* A run that committed and ended without a SYNC WARN has published its own*)
(* report and those of every earlier day, whose commits or pushes failed or*)
(* were skipped; one that had nothing to commit finds them all committed,  *)
(* unless its git status failed, whatever the agent commits meanwhile      *)
(* (matrix-daily.sh:23-26, 80-89).                                         *)
CleanSyncPublishes ==
  pc = "idle" /\ ended \in {"ok", "error"} /\ ~report.warned /\ report.day # 0 =>
    IF committed THEN remote = Tree ELSE blind \/ head = Tree

(* A commit of the report takes along only such files of the agent as came *)
(* into the index after the script looked, were too many for its pipeline, *)
(* or were there when its git diff failed (matrix-daily.sh:74-87).         *)
DragsOnlyLateFiles == [][Commit => staged \subseteq late]_dailyVars

-----------------------------------------------------------------------------
(* Claims the script does not keep; MCDailyClaims refutes them.            *)

(* matrix-daily.sh:76-80: the report commit never drags other files along. *)
ReportCommitIsPure == [][Commit => staged = {}]_dailyVars

(* matrix-daily.sh:26: a sync failure degrades to a SYNC WARN: it neither  *)
(* ends the script nor goes unmentioned.                                   *)
SyncOnlyWarns ==
  [][ pc \notin {"idle", "windows"} /\ pc' = "idle" =>
        ended' # "aborted" /\ (StatusFails => report'.warned) ]_dailyVars

(* matrix-daily.sh:23: the report is committed and pushed.                 *)
NoWarnMeansPushed ==
  pc = "idle" /\ ended \in {"ok", "error"} /\ ~report.warned /\ report.day # 0 => remote = Tree
=============================================================================
