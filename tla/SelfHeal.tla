------------------------------ MODULE SelfHeal ------------------------------
(***************************************************************************)
(* The self-heal orchestrator (src/backend/selfheal.py): a background      *)
(* thread that takes the warning and error rows of the log one by one,     *)
(* types a coding CLI's command line into a terminal, waits for the        *)
(* sentinel file the command leaves, runs the tests, deletes the row, and  *)
(* finally merges its git branch.  Around it: POST /api/self-heal/run, the *)
(* shell that runs the typed lines one after the other, the user who may   *)
(* close the tab, everybody else who writes, resolves or deletes rows, and *)
(* a restart of the server at any time.                                    *)
(*                                                                         *)
(* An attempt is one CLI pass; its temporary directory, hence its two      *)
(* sentinel files, exist while dir names it.                               *)
(***************************************************************************)
EXTENDS Integers, Sequences, FiniteSets

CONSTANTS
    MaxRows,     \* bound: ids of log rows; what would need a larger one is lost
    MaxRuns,     \* bound: runs ever started
    MaxIter,     \* max_iter
    DbMayFail, GitMayFail, CrashMayHappen

ASSUME HealAssumption ==
    /\ MaxRows \in Nat /\ MaxRuns \in Nat /\ MaxIter \in Nat
    /\ DbMayFail \in BOOLEAN /\ GitMayFail \in BOOLEAN /\ CrashMayHappen \in BOOLEAN

Rows     == 1 .. MaxRows              \* by id: of two rows in the log, the later has the larger
Attempts == Nat \ {0}

VARIABLES
    top, open,       \* largest id in the log; unresolved warning and error rows
    running, last,   \* _running, _last_result
    phase,           \* _progress["phase"]
    pc, result,      \* where the run is, and what it is about to return
    runs, iter, issue,
    attempt,         \* number of the latest attempt
    cliDone,         \* what wait_for_done returned
    dir, file,       \* the attempt whose directory exists (0: none); its sentinel
    late,            \* HEAL_CLI_TIMEOUT_SECONDS are over
    term, lines,     \* the shell of the heal tab; the attempts typed into it
    exit0,           \* attempts whose CLI exited 0 (history)
    head,            \* the branch that is checked out
    dirty, edited,   \* CLI edits since the last passing, the last started test run
    began, passed,   \* rows open when the run began, rows tested (history)
    again            \* the issue's id, if a later row was given it (history)

logVars  == <<top, open, began, passed, again>>
runVars  == <<running, last, phase, result, runs, iter, issue>>
waitVars == <<attempt, cliDone, dir, file, late>>
termVars == <<term, lines, exit0>>
gitVars  == <<head, dirty, edited>>
vars == <<logVars, runVars, waitVars, termVars, gitVars, pc>>

Results == {"none", "skipped", "git_failed", "terminal", "merged", "unmerged", "crashed"}
Phases  == {"idle", "detecting", "skipped", "branching", "driving", "testing", "merging",
            "aborted", "done"}
Places  == {"off", "resolve", "branch", "loop", "ensure", "type", "done?", "failed?",
            "alive?", "deadline?", "after", "test", "testing", "delete", "count",
            "checkout", "merge", "unbranch", "record"}

TypeOK ==
    /\ top \in 0 .. MaxRows /\ open \in SUBSET (1 .. top)
    /\ running \in BOOLEAN /\ last \in Results /\ result \in Results
    /\ phase \in Phases /\ pc \in Places
    /\ runs \in 0 .. MaxRuns /\ iter \in 0 .. MaxIter /\ issue \in 0 .. MaxRows
    /\ attempt \in Nat /\ dir \in 0 .. attempt
    /\ cliDone \in BOOLEAN /\ file \in {"none", "done", "failed"} /\ late \in BOOLEAN
    /\ term \in {"dead", "alive"} /\ lines \in Seq(Attempts) /\ exit0 \in SUBSET Attempts
    /\ head \in {"main", "heal"} /\ dirty \in BOOLEAN /\ edited \in BOOLEAN
    /\ began \in SUBSET Rows /\ passed \in SUBSET (0 .. MaxRows) /\ again \in SUBSET Rows

Init ==
    /\ top \in 0 .. MaxRows /\ open = 1 .. top
    /\ running = FALSE /\ last = "none" /\ result = "none"
    /\ phase = "idle" /\ pc = "off"
    /\ runs = 0 /\ iter = 0 /\ issue = 0
    /\ attempt = 0 /\ cliDone = FALSE /\ dir = 0 /\ file = "none" /\ late = FALSE
    /\ term = "dead" /\ lines = <<>> /\ exit0 = {}
    /\ head = "main" /\ dirty = FALSE /\ edited = FALSE
    /\ began = {} /\ passed = {} /\ again = {}

-----------------------------------------------------------------------------
Goto(l) == pc' = l

\* The id is a plain INTEGER PRIMARY KEY: one more than the largest in the table, so
\* the id of a row that is gone may be given out again.  The history is of rows.
NewRow ==
    /\ top < MaxRows /\ top' = top + 1
    /\ open' = open \cup {top + 1}
    /\ began' = began \ {top + 1} /\ passed' = passed \ {top + 1}
    /\ again' = again \cup ({top + 1} \cap {issue})

\* What the largest id may be once rows up to n are left, the open ones among them.
\* Resolved rows and rows that are no issue hold ids too.
Left(n) == top' \in {t \in 0 .. n : \A e \in open' : e <= t}

\* log_warning and log_error write a row that is an issue like any other; a row
\* that cannot be written is lost without a word.
Log ==
    \/ NewRow
    \/ (top = MaxRows \/ DbMayFail) /\ UNCHANGED logVars

\* The run returns r; _run_thread_target records it later.
Return(r) == result' = r /\ Goto("record")

\* The run fails with one error row.  (What a failing count adds to the log of an
\* abort is one more row of the same kind, and is left out.)
Abort(r) == Log /\ phase' = "aborted" /\ Return(r)

\* current_issue
First(e) == e \in open /\ \A f \in open : e <= f

-----------------------------------------------------------------------------
(* POST /api/self-heal/run, and the prologue of run_self_heal.             *)

\* start_self_heal: while a run is on, the call changes nothing.
Start ==
    /\ ~running /\ runs < MaxRuns
    /\ running' = TRUE /\ runs' = runs + 1
    /\ iter' = 0 /\ began' = open /\ passed' = {} /\ again' = {}
    /\ Goto("resolve")
    /\ UNCHANGED <<top, open, last, phase, result, issue, waitVars, termVars, gitVars>>

Resolve ==
    /\ pc = "resolve"
    /\ \/ phase' = "detecting" /\ Goto("branch") /\ UNCHANGED result
       \/ phase' = "skipped" /\ Return("skipped")
    /\ UNCHANGED <<logVars, running, last, runs, iter, issue, waitVars,
                   termVars, gitVars>>

\* git checkout -b: the new branch starts at whatever is checked out.
Branch ==
    /\ pc = "branch"
    /\ \/ /\ head' = "heal" /\ phase' = "branching"
          /\ Goto("loop")
          /\ UNCHANGED <<logVars, result>>
       \/ GitMayFail /\ Abort("git_failed") /\ UNCHANGED head
    /\ UNCHANGED <<running, last, runs, iter, issue, waitVars, termVars,
                   dirty, edited>>

-----------------------------------------------------------------------------
(* One round of the heal loop.                                             *)

\* The range of the for loop.
RoundLeft == iter < MaxIter

TakeIssue ==
    /\ pc = "loop" /\ RoundLeft
    /\ \E e \in open :
          /\ First(e)
          /\ issue' = e
    /\ iter' = iter + 1 /\ phase' = "driving" /\ again' = {}
    /\ Goto("ensure")
    /\ UNCHANGED <<top, open, began, passed, running, last, result, runs, waitVars, termVars,
                   gitVars>>

\* No issue is left, the rounds are used up, or the query failed.
LoopEnds ==
    /\ pc = "loop"
    /\ \/ (~RoundLeft \/ open = {}) /\ UNCHANGED logVars
       \/ DbMayFail /\ Log
    /\ Goto("count")
    /\ UNCHANGED <<runVars, waitVars, termVars, gitVars>>

\* _ensure_heal_session: a live shell is reused, a dead one replaced.
EnsureTerminal ==
    /\ pc = "ensure"
    /\ \/ /\ Goto("type")
          /\ term' = "alive"
          /\ UNCHANGED <<logVars, phase, result, lines, exit0>>
       \/ term = "dead" /\ Abort("terminal") /\ UNCHANGED termVars
    /\ UNCHANGED <<running, last, runs, iter, issue, waitVars, gitVars>>

\* _drive_cli_in_terminal: a fresh directory, then the command line.
TypeCommand ==
    /\ pc = "type"
    /\ attempt' = attempt + 1 /\ dir' = attempt + 1
    /\ file' = "none" /\ late' = FALSE
    /\ lines' = IF term = "alive" THEN Append(lines, attempt + 1) ELSE lines
    /\ Goto("done?")
    /\ UNCHANGED <<logVars, runVars, cliDone, term, exit0, gitVars>>

\* What _drive_cli_in_terminal returns; its finally block removes the directory.
CliReturns(ok) == cliDone' = ok /\ dir' = 0 /\ file' = "none" /\ Goto("after")

\* Writing to a terminal that died raises.
TypeFails ==
    /\ pc = "type" /\ term = "dead"
    /\ attempt' = attempt + 1
    /\ Log /\ CliReturns(FALSE)
    /\ UNCHANGED <<runVars, late, termVars, gitVars>>

-----------------------------------------------------------------------------
(* wait_for_done: done, failed, terminal gone, deadline; then again.       *)

PollDone ==
    /\ pc = "done?"
    /\ IF file = "done" THEN CliReturns(TRUE)
                        ELSE Goto("failed?") /\ UNCHANGED <<cliDone, dir, file>>
    /\ UNCHANGED <<logVars, runVars, attempt, late, termVars, gitVars>>

PollFailed ==
    /\ pc = "failed?"
    /\ IF file = "failed" THEN Log /\ CliReturns(FALSE)
                          ELSE Goto("alive?") /\ UNCHANGED <<logVars, cliDone, dir, file>>
    /\ UNCHANGED <<runVars, attempt, late, termVars, gitVars>>

PollAlive ==
    /\ pc = "alive?"
    /\ IF term = "dead" THEN Log /\ CliReturns(FALSE)
                        ELSE Goto("deadline?") /\ UNCHANGED <<logVars, cliDone, dir, file>>
    /\ UNCHANGED <<runVars, attempt, late, termVars, gitVars>>

\* Defect: the deadline is forgotten.
PollDeadline_Never ==
    /\ pc = "deadline?"
    /\ Goto("done?")
    /\ UNCHANGED <<logVars, runVars, waitVars, termVars, gitVars>>

PollDeadline ==
    /\ pc = "deadline?"
    /\ IF late THEN Log /\ CliReturns(FALSE)
               ELSE Goto("done?") /\ UNCHANGED <<logVars, cliDone, dir, file>>
    /\ UNCHANGED <<runVars, attempt, late, termVars, gitVars>>

-----------------------------------------------------------------------------
(* The tests and the row.                                                  *)

AfterCli ==
    /\ pc = "after"
    /\ IF ~cliDone /\ term = "dead"
       THEN Abort("unmerged")
       ELSE phase' = "testing" /\ Goto("test") /\ UNCHANGED <<logVars, result>>
    /\ UNCHANGED <<running, last, runs, iter, issue, waitVars, termVars,
                   gitVars>>

TestsStart ==
    /\ pc = "test"
    /\ edited' = FALSE
    /\ Goto("testing")
    /\ UNCHANGED <<logVars, runVars, waitVars, termVars, head, dirty>>

TestsPass ==
    /\ pc = "testing"
    /\ dirty' = edited /\ passed' = {issue} \ again
    /\ Goto("delete")
    /\ UNCHANGED <<top, open, began, again, runVars, waitVars, termVars, head, edited>>

TestsFail ==
    /\ pc = "testing"
    /\ Log /\ phase' = "aborted"
    /\ Goto("count")
    /\ UNCHANGED <<running, last, result, runs, iter, issue, waitVars,
                   termVars, gitVars>>

\* Defect: whatever row is first now is deleted.
Doomed_First(e) == First(e)
\* delete_log_entry goes by the id alone: to a row that is gone it does nothing, and
\* to a later row that was given the same id it does what it was to do to the first.
Doomed(e)       == e = issue

DeleteRow ==
    /\ pc = "delete"
    /\ open' = {e \in open : ~Doomed(e)}
    /\ IF issue = top THEN Left(top - 1) ELSE UNCHANGED top
    /\ Goto("loop")
    /\ UNCHANGED <<began, passed, again, runVars, waitVars, termVars, gitVars>>

DeleteFails ==
    /\ pc = "delete" /\ DbMayFail
    /\ Log /\ phase' = "aborted"
    /\ Goto("count")
    /\ UNCHANGED <<running, last, result, runs, iter, issue, waitVars,
                   termVars, gitVars>>

-----------------------------------------------------------------------------
(* The end of a run.                                                       *)

\* Defect: a count that fails counts nothing.
Remaining_Zero(n) == n = Cardinality(open) \/ (DbMayFail /\ n = 0)
\* _remaining_safe
Remaining(n)      == n = Cardinality(open) \/ (DbMayFail /\ n = -1)

Count ==
    /\ pc = "count"
    /\ \E n \in -1 .. MaxRows :
          /\ Remaining(n)
          /\ IF n = 0 THEN phase' = "merging" /\ Goto("checkout") /\ UNCHANGED result
                      ELSE phase' = "done" /\ Return("unmerged")
          /\ IF n = -1 THEN Log ELSE UNCHANGED logVars
    /\ UNCHANGED <<running, last, runs, iter, issue, waitVars, termVars,
                   gitVars>>

Checkout ==
    /\ pc = "checkout"
    /\ head' = "main"
    /\ Goto("merge")
    /\ UNCHANGED <<logVars, runVars, waitVars, termVars, dirty, edited>>

Merge ==
    /\ pc = "merge"
    /\ Goto("unbranch")
    /\ UNCHANGED <<logVars, runVars, waitVars, termVars, gitVars>>

DeleteBranch ==
    /\ pc = "unbranch"
    /\ phase' = "done" /\ Return("merged")
    /\ UNCHANGED <<logVars, running, last, runs, iter, issue, waitVars,
                   termVars, gitVars>>

\* Defect: the phase is left at "merging".
GitFails_Merging ==
    /\ pc \in {"checkout", "merge", "unbranch"} /\ GitMayFail
    /\ Log /\ Return("git_failed")
    /\ UNCHANGED <<running, last, phase, runs, iter, issue, waitVars,
                   termVars, gitVars>>

GitFails ==
    /\ pc \in {"checkout", "merge", "unbranch"} /\ GitMayFail
    /\ Abort("git_failed")
    /\ UNCHANGED <<running, last, runs, iter, issue, waitVars, termVars,
                   gitVars>>

\* An exception nobody in run_self_heal catches: no temporary directory, no
\* process for the tests.
Crash ==
    /\ CrashMayHappen /\ pc \in {"type", "test"}
    /\ Log /\ Return("crashed")
    /\ UNCHANGED <<running, last, phase, runs, iter, issue, waitVars,
                   termVars, gitVars>>

\* _run_thread_target
Record ==
    /\ pc = "record"
    /\ last' = result /\ running' = FALSE
    /\ Goto("off")
    /\ UNCHANGED <<logVars, phase, result, runs, iter, issue, waitVars,
                   termVars, gitVars>>

Run ==
    \/ Resolve      \/ Branch     \/ TakeIssue  \/ LoopEnds  \/ EnsureTerminal
    \/ TypeCommand  \/ TypeFails  \/ PollDone   \/ PollFailed \/ PollAlive
    \/ PollDeadline \/ AfterCli   \/ TestsStart \/ TestsPass \/ TestsFail
    \/ DeleteRow    \/ DeleteFails \/ Count     \/ Checkout  \/ Merge
    \/ DeleteBranch \/ GitFails   \/ Crash      \/ Record

-----------------------------------------------------------------------------
(* The shell, the clock and the others.                                    *)

\* Defect: all attempts share one pair of sentinel files.
Touches_Shared(n) == dir # 0
\* A command can touch its sentinel only while its own directory exists.
Touches(n)        == dir = n

\* The CLI the shell runs now edits the working tree.
CliEdits ==
    /\ lines # <<>>
    /\ dirty' = TRUE /\ edited' = TRUE
    /\ UNCHANGED <<logVars, runVars, waitVars, termVars, head, pc>>

\* It exits, and the shell reads the next line that was typed.
CliExits(ok) ==
    /\ lines # <<>>
    /\ LET n == Head(lines)
       IN  /\ exit0' = IF ok THEN exit0 \cup {n} ELSE exit0
           /\ file' = IF Touches(n) THEN (IF ok THEN "done" ELSE "failed") ELSE file
    /\ lines' = Tail(lines)
    /\ UNCHANGED <<logVars, runVars, attempt, cliDone, dir, late, term, gitVars, pc>>

\* The user closes the tab, or the shell ends.
TerminalDies ==
    /\ term = "alive"
    /\ term' = "dead" /\ lines' = <<>>
    /\ UNCHANGED <<logVars, runVars, waitVars, exit0, gitVars, pc>>

DeadlinePasses ==
    /\ dir # 0 /\ ~late
    /\ late' = TRUE
    /\ UNCHANGED <<logVars, runVars, attempt, cliDone, dir, file, termVars, gitVars, pc>>

\* The gateway logs a warning; the log window resolves rows, which keep their ids,
\* and DELETE /api/logs and the retention purge take rows of every kind away.
RowAppears ==
    /\ NewRow
    /\ UNCHANGED <<runVars, waitVars, termVars, gitVars, pc>>

RowsGo ==
    /\ \E gone \in SUBSET open : open' = open \ gone
    /\ Left(top)
    /\ UNCHANGED <<began, passed, again, runVars, waitVars, termVars, gitVars, pc>>

\* The server is restarted (POST /api/dev/restart) or dies: the thread is gone
\* wherever it was, the shells with it, and what is kept in memory begins anew.  The
\* log and the working tree stay as they are, and a git command under way may still
\* take effect.
Restart ==
    /\ running' = FALSE /\ phase' = "idle" /\ last' = "none"
    /\ Goto("off") /\ result' = "none" /\ iter' = 0 /\ issue' = 0
    /\ cliDone' = FALSE /\ dir' = 0 /\ file' = "none" /\ late' = FALSE
    /\ term' = "dead" /\ lines' = <<>>
    /\ \/ UNCHANGED head
       \/ pc = "branch" /\ head' = "heal"
       \/ pc = "checkout" /\ head' = "main"
    /\ UNCHANGED <<logVars, runs, attempt, exit0, dirty, edited>>

Others ==
    \/ CliEdits \/ (\E ok \in BOOLEAN : CliExits(ok)) \/ TerminalDies
    \/ RowAppears \/ RowsGo

Next == Start \/ Run \/ DeadlinePasses \/ Others \/ Restart

Spec == Init /\ [][Next]_vars

\* The thread is scheduled, git and pytest return, and time passes.  Nothing is
\* assumed of the coding CLI, the user or the shell.
FairSpec == Spec /\ WF_vars(Run) /\ WF_vars(DeadlinePasses)

-----------------------------------------------------------------------------
(* Properties                                                              *)

\* A CLI pass is taken for finished only when the CLI of this very attempt
\* exited 0: the late success of an attempt that timed out is not credited to
\* the attempt that follows it (wait_for_done and its temporary directory).
DoneIsOwn ==
    (pc \in {"after", "test", "testing", "delete"} /\ cliDone) => attempt \in exit0

\* A merged run left no issue behind: every row that was open when the run
\* began is healed, resolved or deleted, also when a count failed on the way and
\* though the ids of rows that are gone name other rows by now.
MergedMeansHealed == (~running /\ last = "merged") => began \cap open = {}

\* What GET /api/self-heal/status shows of a run that is over, and which branch it
\* left checked out.  "merging" never stays, however checkout, merge and branch -d
\* fail; "aborted" is no merged run and "done" no failed one.  It shows no more than
\* this: a run whose tests failed is "done" like one that ran out of rounds, both with
\* their branch left checked out, and a crashed one shows the work it died at, for
\* the client to see from running alone that nothing is under way.
StatusHonest ==
    ~running =>
        /\ last = "merged"     => phase = "done" /\ head = "main"
        /\ last = "unmerged"   => phase \in {"done", "aborted"} /\ head = "heal"
        /\ last = "terminal"   => phase = "aborted" /\ head = "heal"
        /\ last = "git_failed" => phase = "aborted"
        /\ last = "crashed"    => phase \in {"driving", "testing"} /\ head = "heal"
        /\ last = "skipped"    => phase = "skipped"
        /\ last = "none"       => phase = "idle"

\* The run deletes only the row it worked on and tested, whatever is written,
\* resolved or purged meanwhile.  The one exception: the row was purged and its id
\* given out again since the run took it up.  Then the row that goes is a later one,
\* which nobody worked on.
DeletesWhatItTested ==
    [][(pc = "delete" /\ pc' = "loop") => open \ open' \subseteq passed \cup again]_vars

\* However the CLI, the terminal and the user behave, a run comes to its end.
RunEnds == running ~> ~running

\* "merges the branch back only when things pass" (documents/pm/wiki-drafts/
\* CLI-Tools.md): a run that found nothing to heal, and therefore tested
\* nothing, merges no edit that has not passed the tests.
IdleRunMergesNothingUntested ==
    [][(pc = "merge" /\ pc' = "unbranch" /\ iter = 0) => ~dirty]_vars
=============================================================================
