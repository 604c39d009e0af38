--------------------------- MODULE SelfHealProofs ---------------------------
(***************************************************************************)
(* Proofs about the self-heal orchestrator, for any number of rows, runs   *)
(* and rounds.  IInv joins three groups to the type: what the sentinel     *)
(* file says of the current attempt, what the phase and the result say of  *)
(* each other, and what a merge knows about the rows.  Tested is about the *)
(* row that is deleted.                                                    *)
(***************************************************************************)
EXTENDS SelfHeal, FiniteSetTheorems, TLAPS

\* A sentinel file lies in the directory of the current attempt, and "done"
\* is only ever written by a CLI that exited 0.
Sentinel ==
    /\ dir \in {0, attempt}
    /\ file # "none" => dir # 0
    /\ file = "done" => attempt \in exit0

\* The result on its way to _last_result agrees with the phase and the branch.
Agrees(r) ==
    /\ r = "merged"     => phase = "done" /\ head = "main"
    /\ r = "unmerged"   => phase \in {"done", "aborted"} /\ head = "heal"
    /\ r = "terminal"   => phase = "aborted" /\ head = "heal"
    /\ r = "git_failed" => phase = "aborted"
    /\ r = "crashed"    => phase \in {"driving", "testing"} /\ head = "heal"
    /\ r = "skipped"    => phase = "skipped"

\* The places between the checkout of the branch and the end of the heal loop, and
\* those where the thread may crash.
OnBranch == {"loop", "ensure", "type", "done?", "failed?", "alive?", "deadline?", "after",
             "test", "testing", "delete", "count", "checkout"}

Reports ==
    /\ running <=> pc # "off"
    /\ pc \in OnBranch => head = "heal"
    /\ pc \in {"merge", "unbranch"} => head = "main"
    /\ pc \in {"ensure", "type", "done?", "failed?", "alive?", "deadline?", "after"}
          => phase = "driving"
    /\ pc \in {"test", "testing"} => phase = "testing"
    /\ pc = "record" => Agrees(result) /\ result # "none"
    /\ pc = "off" => Agrees(last) /\ (last = "none" => phase = "idle")

\* Between the count that found no row and the end of the run.
Merging == pc \in {"checkout", "merge", "unbranch"}

Healed ==
    Merging \/ (pc = "record" /\ result = "merged") \/ (pc = "off" /\ last = "merged")
          => began \cap open = {}

IInv == TypeOK /\ Sentinel /\ DoneIsOwn /\ Reports /\ Healed

-----------------------------------------------------------------------------
LogOK == /\ top \in 0 .. MaxRows /\ open \in SUBSET (1 .. top)
         /\ began \in SUBSET Rows /\ passed \in SUBSET (0 .. MaxRows) /\ again \in SUBSET Rows

\* Rows are only added at the end.
LEMMA LogTypes ==
  ASSUME TypeOK, Log
  PROVE  LogOK'
  <1> USE DEF LogOK, Rows
  <1>1. CASE NewRow
    <2>1. top' \in 0 .. MaxRows /\ open' \in SUBSET (1 .. top')
      BY <1>1, HealAssumption DEF TypeOK, NewRow
    <2>2. began' \in SUBSET Rows /\ passed' \in SUBSET (0 .. MaxRows)
      BY <1>1 DEF TypeOK, NewRow
    <2>3. top + 1 \in Rows
      BY <1>1, HealAssumption DEF TypeOK, NewRow
    <2>4. again' \in SUBSET Rows
      BY <1>1, <2>3 DEF TypeOK, NewRow
    <2> QED
      BY <2>1, <2>2, <2>4
  <1>2. CASE UNCHANGED logVars
    BY <1>2 DEF TypeOK, logVars
  <1> QED
    BY <1>1, <1>2 DEF Log

\* The type is inductive by itself.
LEMMA TypeStep ==
  ASSUME TypeOK, [Next]_vars
  PROVE  TypeOK'
  <1>places. /\ "off" \in Places /\ "resolve" \in Places /\ "branch" \in Places
        /\ "loop" \in Places /\ "ensure" \in Places /\ "type" \in Places
        /\ "done?" \in Places /\ "failed?" \in Places /\ "alive?" \in Places
        /\ "deadline?" \in Places /\ "after" \in Places /\ "test" \in Places
        /\ "testing" \in Places /\ "delete" \in Places /\ "count" \in Places
        /\ "checkout" \in Places /\ "merge" \in Places /\ "unbranch" \in Places
        /\ "record" \in Places
    BY DEF Places
  <1>names. /\ "detecting" \in Phases /\ "skipped" \in Phases /\ "branching" \in Phases
        /\ "driving" \in Phases /\ "testing" \in Phases /\ "merging" \in Phases
        /\ "aborted" \in Phases /\ "done" \in Phases
        /\ "skipped" \in Results /\ "git_failed" \in Results /\ "terminal" \in Results
        /\ "merged" \in Results /\ "unmerged" \in Results /\ "crashed" \in Results
        /\ "idle" \in Phases /\ "none" \in Results
    BY DEF Phases, Results
  <1>seq. \A l \in Seq(Attempts) : l # <<>> => Tail(l) \in Seq(Attempts)
                                            /\ Head(l) \in Attempts
    OBVIOUS
  <1>cli. \A ok \in BOOLEAN : CliReturns(ok) /\ attempt' \in Nat =>
           /\ cliDone' \in BOOLEAN /\ dir' \in 0 .. attempt'
           /\ file' \in {"none", "done", "failed"} /\ pc' \in Places
    BY <1>places DEF CliReturns, Goto
  <1>log. Log => LogOK'
    BY LogTypes
  <1>abort. \A r \in Results : Abort(r) =>
              /\ LogOK'
              /\ phase' = "aborted" /\ result' = r /\ pc' = "record"
    BY <1>log DEF Abort, Return, Goto
  <1> USE <1>places, <1>names, <1>log, HealAssumption DEF TypeOK, LogOK, Rows,
             Goto, logVars, runVars, waitVars, termVars, gitVars
  <1>1. CASE Start
    BY <1>1 DEF Start
  <1>2. CASE Resolve
    BY <1>2 DEF Resolve, Return
  <1>3. CASE Branch
    <2>1. CASE Abort("git_failed") /\ head' \in {"main", "heal"}
      BY <1>3, <1>abort, <2>1 DEF Branch
    <2>2. CASE ~ (Abort("git_failed") /\ head' \in {"main", "heal"})
      BY <1>3, <2>2 DEF Branch
    <2> QED
      BY <2>1, <2>2
  <1>4. CASE TakeIssue
    BY <1>4 DEF TakeIssue, First, RoundLeft
  <1>5. CASE LoopEnds
    <2>1. LogOK'
      BY <1>5 DEF LoopEnds
    <2> QED
      BY <1>5, <2>1 DEF LoopEnds
  <1>6. CASE EnsureTerminal
    <2>1. CASE Abort("terminal")
      BY <1>6, <1>abort, <2>1 DEF EnsureTerminal
    <2>2. CASE ~ Abort("terminal")
      BY <1>6, <2>2 DEF EnsureTerminal
    <2> QED
      BY <2>1, <2>2
  <1>7. CASE TypeCommand
    <2>1. attempt + 1 \in Attempts /\ attempt' \in Nat /\ dir' \in 0 .. attempt'
      BY <1>7 DEF TypeCommand, Attempts
    <2>2. lines' \in Seq(Attempts)
      BY <1>7, <2>1 DEF TypeCommand
    <2> QED
      BY <1>7, <2>1, <2>2 DEF TypeCommand
  <1>8. CASE TypeFails
    <2>1. attempt' \in Nat
      BY <1>8 DEF TypeFails
    <2>2. /\ cliDone' \in BOOLEAN /\ dir' \in 0 .. attempt'
          /\ file' \in {"none", "done", "failed"} /\ pc' \in Places
      BY <1>8, <2>1, <1>cli DEF TypeFails
    <2> QED
      BY <1>8, <2>1, <2>2 DEF TypeFails
  <1>9. CASE PollDone
    <2>1. CASE file = "done"
      BY <1>9, <1>cli, <2>1 DEF PollDone
    <2>2. CASE ~(file = "done")
      BY <1>9, <2>2 DEF PollDone
    <2> QED
      BY <2>1, <2>2
  <1>10. CASE PollFailed
    <2>1. CASE file = "failed"
      BY <1>10, <1>cli, <2>1 DEF PollFailed
    <2>2. CASE ~(file = "failed")
      BY <1>10, <2>2 DEF PollFailed
    <2> QED
      BY <2>1, <2>2
  <1>11. CASE PollAlive
    <2>1. CASE term = "dead"
      BY <1>11, <1>cli, <2>1 DEF PollAlive
    <2>2. CASE ~(term = "dead")
      BY <1>11, <2>2 DEF PollAlive
    <2> QED
      BY <2>1, <2>2
  <1>12. CASE PollDeadline
    <2>1. CASE late
      BY <1>12, <1>cli, <2>1 DEF PollDeadline
    <2>2. CASE ~(late)
      BY <1>12, <2>2 DEF PollDeadline
    <2> QED
      BY <2>1, <2>2
  <1>13. CASE AfterCli
    BY <1>13 DEF AfterCli, Abort, Return
  <1>14. CASE TestsStart
    BY <1>14 DEF TestsStart
  <1>15. CASE TestsPass
    BY <1>15 DEF TestsPass
  <1>16. CASE TestsFail
    BY <1>16 DEF TestsFail
  <1>17. CASE DeleteRow
    <2>1. open' \subseteq open /\ UNCHANGED <<began, passed, again>>
      BY <1>17 DEF DeleteRow
    <2>2. CASE issue = top
      <3>1. top' \in 0 .. (top - 1) /\ \A e \in open' : e <= top'
        BY <1>17, <2>2 DEF DeleteRow, Left
      <3>2. top' \in 0 .. MaxRows /\ open' \in SUBSET (1 .. top')
        BY <2>1, <2>2, <3>1
      <3> QED
        BY <1>17, <2>1, <3>2 DEF DeleteRow
    <2>3. CASE issue # top
      BY <1>17, <2>1, <2>3 DEF DeleteRow
    <2> QED
      BY <2>2, <2>3
  <1>18. CASE DeleteFails
    BY <1>18 DEF DeleteFails
  <1>19. CASE Count
    BY <1>19 DEF Count, Return, Remaining
  <1>20. CASE Checkout
    BY <1>20 DEF Checkout
  <1>21. CASE Merge
    BY <1>21 DEF Merge
  <1>22. CASE DeleteBranch
    BY <1>22 DEF DeleteBranch, Return
  <1>23. CASE GitFails
    BY <1>23 DEF GitFails, Abort, Return
  <1>24. CASE Crash
    BY <1>24 DEF Crash, Return
  <1>25. CASE Record
    BY <1>25 DEF Record
  <1>26. CASE DeadlinePasses
    BY <1>26 DEF DeadlinePasses
  <1>27. CASE CliEdits
    BY <1>27 DEF CliEdits
  <1>28. ASSUME NEW ok \in BOOLEAN, CliExits(ok) PROVE TypeOK'
    <2>1. Head(lines) \in Attempts /\ Tail(lines) \in Seq(Attempts)
      BY <1>28, <1>seq DEF CliExits
    <2>2. lines' \in Seq(Attempts) /\ exit0' \in SUBSET Attempts
      BY <1>28, <2>1 DEF CliExits
    <2> QED
      BY <1>28, <2>2 DEF CliExits
  <1>29. CASE TerminalDies
    BY <1>29 DEF TerminalDies
  <1>30. CASE RowAppears
    BY <1>30 DEF RowAppears, Log
  <1>31. CASE RowsGo
    BY <1>31 DEF RowsGo, Left
  <1>32. CASE Restart
    <2>1. running' = FALSE /\ phase' = "idle" /\ last' = "none" /\ pc' = "off"
          /\ result' = "none" /\ iter' = 0 /\ issue' = 0
      BY <1>32 DEF Restart
    <2>2. cliDone' = FALSE /\ dir' = 0 /\ file' = "none" /\ late' = FALSE
          /\ term' = "dead" /\ lines' = <<>> /\ attempt' = attempt
      BY <1>32 DEF Restart
    <2>3. lines' \in Seq(Attempts) /\ dir' \in 0 .. attempt'
      BY <2>2
    <2>4. head' \in {"main", "heal"}
      BY <1>32 DEF Restart
    <2>5. UNCHANGED <<logVars, runs, attempt, exit0, dirty, edited>>
      BY <1>32 DEF Restart
    <2>6. /\ LogOK'
          /\ runs' \in 0 .. MaxRuns /\ attempt' \in Nat /\ exit0' \in SUBSET Attempts
          /\ dirty' \in BOOLEAN /\ edited' \in BOOLEAN
      BY <2>5
    <2>7. running' \in BOOLEAN
      BY <2>1
    <2>8. last' \in Results /\ result' \in Results
      BY <2>1, <1>names
    <2>9. phase' \in Phases /\ pc' \in Places
      BY <2>1, <1>names, <1>places
    <2>10. iter' \in 0 .. MaxIter /\ issue' \in 0 .. MaxRows
      BY <2>1, HealAssumption
    <2> QED
      BY <2>2, <2>3, <2>4, <2>6, <2>7, <2>8, <2>9, <2>10
  <1>33. CASE UNCHANGED vars
    BY <1>33 DEF vars
  <1> QED
    BY <1>1, <1>2, <1>3, <1>4, <1>5, <1>6, <1>7, <1>8, <1>9, <1>10, <1>11, <1>12,
       <1>13, <1>14, <1>15, <1>16, <1>17, <1>18, <1>19, <1>20, <1>21, <1>22,
       <1>23, <1>24, <1>25, <1>26, <1>27, <1>28, <1>29, <1>30, <1>31, <1>32, <1>33
       DEF Next, Run, Others

\* The sentinel group, and with it DoneIsOwn.
LEMMA SentinelStep ==
  ASSUME TypeOK, Sentinel, DoneIsOwn, [Next]_vars
  PROVE  Sentinel' /\ DoneIsOwn'
  <1> USE DEF TypeOK, Attempts, Sentinel, DoneIsOwn,
             Goto, logVars, runVars, waitVars, termVars, gitVars
  <1>1. CASE Start
    BY <1>1 DEF Start
  <1>2. CASE Resolve
    BY <1>2 DEF Resolve, Return
  <1>3. CASE Branch
    BY <1>3 DEF Branch, Abort, Log, Return
  <1>4. CASE TakeIssue
    BY <1>4 DEF TakeIssue, First, RoundLeft
  <1>5. CASE LoopEnds
    BY <1>5 DEF LoopEnds, Log, RoundLeft
  <1>6. CASE EnsureTerminal
    BY <1>6 DEF EnsureTerminal, Abort, Log, Return
  <1>7. CASE TypeCommand
    BY <1>7 DEF TypeCommand
  <1>8. CASE TypeFails
    BY <1>8 DEF TypeFails, Log, CliReturns
  <1>9. CASE PollDone
    BY <1>9 DEF PollDone, CliReturns
  <1>10. CASE PollFailed
    BY <1>10 DEF PollFailed, Log, CliReturns
  <1>11. CASE PollAlive
    BY <1>11 DEF PollAlive, Log, CliReturns
  <1>12. CASE PollDeadline
    BY <1>12 DEF PollDeadline, Log, CliReturns
  <1>13. CASE AfterCli
    BY <1>13 DEF AfterCli, Abort, Log, Return
  <1>14. CASE TestsStart
    BY <1>14 DEF TestsStart
  <1>15. CASE TestsPass
    BY <1>15 DEF TestsPass
  <1>16. CASE TestsFail
    BY <1>16 DEF TestsFail, Log
  <1>17. CASE DeleteRow
    BY <1>17 DEF DeleteRow, Doomed
  <1>18. CASE DeleteFails
    BY <1>18 DEF DeleteFails, Log
  <1>19. CASE Count
    BY <1>19 DEF Count, Log, Return, Remaining
  <1>20. CASE Checkout
    BY <1>20 DEF Checkout
  <1>21. CASE Merge
    BY <1>21 DEF Merge
  <1>22. CASE DeleteBranch
    BY <1>22 DEF DeleteBranch, Return
  <1>23. CASE GitFails
    BY <1>23 DEF GitFails, Abort, Log, Return
  <1>24. CASE Crash
    BY <1>24 DEF Crash, Log, Return
  <1>25. CASE Record
    BY <1>25 DEF Record
  <1>26. CASE DeadlinePasses
    BY <1>26 DEF DeadlinePasses
  <1>27. CASE CliEdits
    BY <1>27 DEF CliEdits
  <1>28. ASSUME NEW ok \in BOOLEAN, CliExits(ok) PROVE Sentinel' /\ DoneIsOwn'
    BY <1>28 DEF CliExits, Touches
  <1>29. CASE TerminalDies
    BY <1>29 DEF TerminalDies
  <1>30. CASE RowAppears
    BY <1>30 DEF RowAppears
  <1>31. CASE RowsGo
    BY <1>31 DEF RowsGo
  <1>32. CASE Restart
    BY <1>32 DEF Restart
  <1>33. CASE UNCHANGED vars
    BY <1>33 DEF vars
  <1> QED
    BY <1>1, <1>2, <1>3, <1>4, <1>5, <1>6, <1>7, <1>8, <1>9, <1>10, <1>11, <1>12,
       <1>13, <1>14, <1>15, <1>16, <1>17, <1>18, <1>19, <1>20, <1>21, <1>22,
       <1>23, <1>24, <1>25, <1>26, <1>27, <1>28, <1>29, <1>30, <1>31, <1>32, <1>33
       DEF Next, Run, Others

\* The status group.
LEMMA ReportsStep ==
  ASSUME TypeOK, Reports, [Next]_vars
  PROVE  Reports'
  <1> USE DEF TypeOK, Reports, Agrees, OnBranch, Results, Phases, Places,
             Goto, logVars, runVars, waitVars, termVars, gitVars
  <1>1. CASE Start
    BY <1>1 DEF Start
  <1>2. CASE Resolve
    BY <1>2 DEF Resolve, Return
  <1>3. CASE Branch
    BY <1>3 DEF Branch, Abort, Log, Return
  <1>4. CASE TakeIssue
    BY <1>4 DEF TakeIssue, First, RoundLeft
  <1>5. CASE LoopEnds
    BY <1>5 DEF LoopEnds, Log, RoundLeft
  <1>6. CASE EnsureTerminal
    BY <1>6 DEF EnsureTerminal, Abort, Log, Return
  <1>7. CASE TypeCommand
    BY <1>7 DEF TypeCommand
  <1>8. CASE TypeFails
    BY <1>8 DEF TypeFails, Log, CliReturns
  <1>9. CASE PollDone
    BY <1>9 DEF PollDone, CliReturns
  <1>10. CASE PollFailed
    BY <1>10 DEF PollFailed, Log, CliReturns
  <1>11. CASE PollAlive
    BY <1>11 DEF PollAlive, Log, CliReturns
  <1>12. CASE PollDeadline
    BY <1>12 DEF PollDeadline, Log, CliReturns
  <1>13. CASE AfterCli
    BY <1>13 DEF AfterCli, Abort, Log, Return
  <1>14. CASE TestsStart
    BY <1>14 DEF TestsStart
  <1>15. CASE TestsPass
    BY <1>15 DEF TestsPass
  <1>16. CASE TestsFail
    BY <1>16 DEF TestsFail, Log
  <1>17. CASE DeleteRow
    BY <1>17 DEF DeleteRow, Doomed
  <1>18. CASE DeleteFails
    BY <1>18 DEF DeleteFails, Log
  <1>19. CASE Count
    BY <1>19 DEF Count, Log, Return, Remaining
  <1>20. CASE Checkout
    BY <1>20 DEF Checkout
  <1>21. CASE Merge
    BY <1>21 DEF Merge
  <1>22. CASE DeleteBranch
    BY <1>22 DEF DeleteBranch, Return
  <1>23. CASE GitFails
    BY <1>23 DEF GitFails, Abort, Log, Return
  <1>24. CASE Crash
    BY <1>24 DEF Crash, Log, Return
  <1>25. CASE Record
    BY <1>25 DEF Record
  <1>26. CASE DeadlinePasses
    BY <1>26 DEF DeadlinePasses
  <1>27. CASE CliEdits
    BY <1>27 DEF CliEdits
  <1>28. ASSUME NEW ok \in BOOLEAN, CliExits(ok) PROVE Reports'
    BY <1>28 DEF CliExits, Touches
  <1>29. CASE TerminalDies
    BY <1>29 DEF TerminalDies
  <1>30. CASE RowAppears
    BY <1>30 DEF RowAppears
  <1>31. CASE RowsGo
    BY <1>31 DEF RowsGo
  <1>32. CASE Restart
    BY <1>32 DEF Restart
  <1>33. CASE UNCHANGED vars
    BY <1>33 DEF vars
  <1> QED
    BY <1>1, <1>2, <1>3, <1>4, <1>5, <1>6, <1>7, <1>8, <1>9, <1>10, <1>11, <1>12,
       <1>13, <1>14, <1>15, <1>16, <1>17, <1>18, <1>19, <1>20, <1>21, <1>22,
       <1>23, <1>24, <1>25, <1>26, <1>27, <1>28, <1>29, <1>30, <1>31, <1>32, <1>33
       DEF Next, Run, Others

\* A count of 0 is an empty table: a count that fails is no count of 0.
LEMMA CountedNone ==
  ASSUME TypeOK, Remaining(0)
  PROVE  open = {}
  <1>1. IsFiniteSet(open)
    <2>1. IsFiniteSet(1 .. top) /\ open \subseteq 1 .. top
      BY FS_Interval, HealAssumption DEF TypeOK
    <2> QED
      BY <2>1, FS_Subset
  <1> QED
    BY <1>1, FS_EmptySet DEF Remaining

\* What a merge knows about the rows.
LEMMA HealedStep ==
  ASSUME TypeOK, Reports, Healed, [Next]_vars
  PROVE  Healed'
  <1> USE HealAssumption DEF TypeOK, Rows, Reports, Healed, Merging,
             Goto, logVars, runVars, waitVars, termVars, gitVars
  <1>1. CASE Start
    BY <1>1 DEF Start
  <1>2. CASE Resolve
    BY <1>2 DEF Resolve, Return
  <1>3. CASE Branch
    BY <1>3 DEF Branch, Abort, Log, NewRow, Return
  <1>4. CASE TakeIssue
    BY <1>4 DEF TakeIssue, First, RoundLeft
  <1>5. CASE LoopEnds
    BY <1>5 DEF LoopEnds, Log, NewRow, RoundLeft
  <1>6. CASE EnsureTerminal
    BY <1>6 DEF EnsureTerminal, Abort, Log, NewRow, Return
  <1>7. CASE TypeCommand
    BY <1>7 DEF TypeCommand
  <1>8. CASE TypeFails
    BY <1>8 DEF TypeFails, Log, NewRow, CliReturns
  <1>9. CASE PollDone
    BY <1>9 DEF PollDone, CliReturns
  <1>10. CASE PollFailed
    BY <1>10 DEF PollFailed, Log, NewRow, CliReturns
  <1>11. CASE PollAlive
    BY <1>11 DEF PollAlive, Log, NewRow, CliReturns
  <1>12. CASE PollDeadline
    BY <1>12 DEF PollDeadline, Log, NewRow, CliReturns
  <1>13. CASE AfterCli
    BY <1>13 DEF AfterCli, Abort, Log, NewRow, Return
  <1>14. CASE TestsStart
    BY <1>14 DEF TestsStart
  <1>15. CASE TestsPass
    BY <1>15 DEF TestsPass
  <1>16. CASE TestsFail
    BY <1>16 DEF TestsFail, Log, NewRow
  <1>17. CASE DeleteRow
    BY <1>17 DEF DeleteRow, Doomed
  <1>18. CASE DeleteFails
    BY <1>18 DEF DeleteFails, Log, NewRow
  <1>19. CASE Count
    <2>1. /\ pc' \in {"checkout", "record"}
          /\ pc' = "record" => result' = "unmerged"
          /\ pc' = "checkout" => Remaining(0) /\ open' = open
      BY <1>19 DEF Count, Log, NewRow, Return
    <2>2. pc' = "checkout" => open' = {}
      BY <2>1, CountedNone
    <2> QED
      BY <2>1, <2>2
  <1>20. CASE Checkout
    BY <1>20 DEF Checkout
  <1>21. CASE Merge
    BY <1>21 DEF Merge
  <1>22. CASE DeleteBranch
    BY <1>22 DEF DeleteBranch, Return
  <1>23. CASE GitFails
    BY <1>23 DEF GitFails, Abort, Log, NewRow, Return
  <1>24. CASE Crash
    BY <1>24 DEF Crash, Log, NewRow, Return
  <1>25. CASE Record
    BY <1>25 DEF Record
  <1>26. CASE DeadlinePasses
    BY <1>26 DEF DeadlinePasses
  <1>27. CASE CliEdits
    BY <1>27 DEF CliEdits
  <1>28. ASSUME NEW ok \in BOOLEAN, CliExits(ok) PROVE Healed'
    BY <1>28 DEF CliExits, Touches
  <1>29. CASE TerminalDies
    BY <1>29 DEF TerminalDies
  <1>30. CASE RowAppears
    BY <1>30 DEF RowAppears, NewRow
  <1>31. CASE RowsGo
    BY <1>31 DEF RowsGo
  <1>32. CASE Restart
    BY <1>32 DEF Restart
  <1>33. CASE UNCHANGED vars
    BY <1>33 DEF vars
  <1> QED
    BY <1>1, <1>2, <1>3, <1>4, <1>5, <1>6, <1>7, <1>8, <1>9, <1>10, <1>11, <1>12,
       <1>13, <1>14, <1>15, <1>16, <1>17, <1>18, <1>19, <1>20, <1>21, <1>22,
       <1>23, <1>24, <1>25, <1>26, <1>27, <1>28, <1>29, <1>30, <1>31, <1>32, <1>33
       DEF Next, Run, Others

-----------------------------------------------------------------------------
LEMMA IInvInit ==
  ASSUME Init
  PROVE  IInv
  <1>1. /\ top \in 0 .. MaxRows /\ open \in SUBSET (1 .. top)
        /\ running \in BOOLEAN /\ last \in Results /\ result \in Results
        /\ phase \in Phases /\ pc \in Places
    BY DEF Init, Results, Phases, Places
  <1>2. /\ runs \in 0 .. MaxRuns /\ iter \in 0 .. MaxIter /\ issue \in 0 .. MaxRows
        /\ attempt \in Nat /\ dir \in 0 .. attempt
    BY HealAssumption DEF Init
  <1>3. TypeOK
    <2>1. lines \in Seq(Attempts)
      BY DEF Init
    <2> QED
      BY <1>1, <1>2, <2>1 DEF Init, TypeOK
  <1>4. Sentinel /\ DoneIsOwn /\ Reports /\ Healed
    BY DEF Init, Sentinel, DoneIsOwn, Reports, Agrees, OnBranch, Healed, Merging
  <1> QED
    BY <1>3, <1>4 DEF IInv

\* IInv holds in every reachable state of the orchestrator.
THEOREM Inductive == Spec => []IInv
  <1>1. Init => IInv
    BY IInvInit
  <1>2. IInv /\ [Next]_vars => IInv'
    BY TypeStep, SentinelStep, ReportsStep, HealedStep DEF IInv
  <1> QED
    BY <1>1, <1>2, PTL DEF Spec

\* Type correctness, among it: the rounds of a run never exceed max_iter.
THEOREM TypeCorrect == Spec => []TypeOK
  BY Inductive, PTL DEF IInv

\* A CLI pass counts as finished only if the CLI of this very attempt exited 0,
\* also when the CLI of an attempt that timed out ends later (wait_for_done).
THEOREM OwnSentinel == Spec => []DoneIsOwn
  BY Inductive, PTL DEF IInv

\* What GET /api/self-heal/status shows of a run that is over, and the branch it left
\* checked out (the end of run_self_heal and _run_thread_target).
THEOREM HonestStatus == Spec => []StatusHonest
  <1>1. IInv => StatusHonest
    BY DEF IInv, Reports, Agrees, StatusHonest
  <1> QED
    BY <1>1, Inductive, PTL

\* A merged run left none of the rows it started with.
THEOREM MergeHeals == Spec => []MergedMeansHealed
  <1>1. IInv => MergedMeansHealed
    BY DEF IInv, Reports, Healed, MergedMeansHealed
  <1> QED
    BY <1>1, Inductive, PTL

-----------------------------------------------------------------------------
(* The row                                                                 *)

\* Of the row about to be deleted, either the tests just passed for it, or it was
\* written after the run took up another row of that id.
Tested == pc = "delete" => issue \in passed \cup again

LEMMA TestedStep ==
  ASSUME Tested, [Next]_vars
  PROVE  Tested'
  <1>1. CASE Start \/ Resolve \/ Branch \/ TakeIssue \/ LoopEnds \/ EnsureTerminal
    BY <1>1 DEF Start, Resolve, Branch, TakeIssue, LoopEnds, EnsureTerminal, Goto, Return,
                Abort, Tested
  <1>2. CASE TypeCommand \/ TypeFails \/ PollDone \/ PollFailed \/ PollAlive \/ PollDeadline
    BY <1>2 DEF TypeCommand, TypeFails, PollDone, PollFailed, PollAlive, PollDeadline, Goto,
                CliReturns, Tested
  <1>3. CASE AfterCli \/ TestsStart \/ TestsFail \/ DeleteRow \/ DeleteFails
    BY <1>3 DEF AfterCli, TestsStart, TestsFail, DeleteRow, DeleteFails, Goto, Return, Abort,
                Tested
  <1>4. CASE TestsPass
    BY <1>4 DEF TestsPass, runVars, Tested
  <1>5. CASE Count \/ Checkout \/ Merge \/ DeleteBranch \/ GitFails \/ Crash \/ Record
    BY <1>5 DEF Count, Checkout, Merge, DeleteBranch, GitFails, Crash, Record, Goto, Return,
                Abort, Tested
  <1>6. CASE RowAppears
    BY <1>6 DEF RowAppears, NewRow, runVars, Tested
  <1>7. CASE \/ DeadlinePasses \/ CliEdits \/ \E ok \in BOOLEAN : CliExits(ok)
             \/ TerminalDies \/ RowsGo \/ UNCHANGED vars
    BY <1>7 DEF DeadlinePasses, CliEdits, CliExits, TerminalDies, RowsGo, vars, runVars,
                logVars, Tested
  <1>8. CASE Restart
    BY <1>8 DEF Restart, Goto, Tested
  <1> QED
    BY <1>1, <1>2, <1>3, <1>4, <1>5, <1>6, <1>7, <1>8 DEF Next, Run, Others

\* delete_log_entry takes away the row the run worked on, and only after the tests
\* passed for it, whatever rows others write, resolve or purge between the test and
\* the delete; unless the row was purged and its id given to a later row meanwhile.
THEOREM DeletesTested == Spec => DeletesWhatItTested
  <1>1. Init => Tested
    BY DEF Init, Tested
  <1>2. Tested /\ [Next]_vars => Tested'
    BY TestedStep
  <1>3. ASSUME Tested, [Next]_vars, pc = "delete", pc' = "loop"
        PROVE  open \ open' \subseteq passed \cup again
    <2>1. CASE DeleteRow
      BY <1>3, <2>1 DEF DeleteRow, Doomed, Tested
    <2>2. CASE ~DeleteRow
      <3>1. CASE Start \/ Resolve \/ Branch \/ TakeIssue \/ LoopEnds \/ EnsureTerminal
        BY <1>3, <3>1 DEF Start, Resolve, Branch, TakeIssue, LoopEnds, EnsureTerminal, Goto
      <3>2. CASE TypeCommand \/ TypeFails \/ PollDone \/ PollFailed \/ PollAlive \/ PollDeadline
        BY <1>3, <3>2 DEF TypeCommand, TypeFails, PollDone, PollFailed, PollAlive, PollDeadline
      <3>3. CASE AfterCli \/ TestsStart \/ TestsPass \/ TestsFail \/ DeleteFails
        BY <1>3, <3>3 DEF AfterCli, TestsStart, TestsPass, TestsFail, DeleteFails, Goto
      <3>4. CASE Count \/ Checkout \/ Merge \/ DeleteBranch \/ GitFails \/ Crash \/ Record
        BY <1>3, <3>4 DEF Count, Checkout, Merge, DeleteBranch, GitFails, Crash, Record
      <3>5. CASE DeadlinePasses \/ Others \/ UNCHANGED vars
        BY <1>3, <3>5 DEF DeadlinePasses, Others, CliEdits, CliExits, TerminalDies, RowAppears,
                          RowsGo, vars
      <3>6. CASE Restart
        BY <1>3, <3>6 DEF Restart, Goto
      <3> QED
        BY <1>3, <2>2, <3>1, <3>2, <3>3, <3>4, <3>5, <3>6 DEF Next, Run
    <2> QED
      BY <2>1, <2>2
  <1>4. Tested /\ [Next]_vars => (pc = "delete" /\ pc' = "loop" => open \ open' \subseteq passed \cup again)
    BY <1>3
  <1> QED
    BY <1>1, <1>2, <1>4, PTL DEF Spec, DeletesWhatItTested
=============================================================================
