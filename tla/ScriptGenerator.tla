-------------------------- MODULE ScriptGenerator --------------------------
(***************************************************************************)
(* How deploy scripts come to be: a developer creates the next one with    *)
(* "yarn create:deployment <name>" on a branch, the branch is merged, and  *)
(* a run executes what the stage counter does not skip.  The number in the *)
(* name of the file is all that orders the scripts and all that the        *)
(* counter knows of them.                                                  *)
(***************************************************************************)
EXTENDS Integers, FiniteSetsExt

CONSTANTS
  Developers,
  Words,        \* names of scripts that do not start with a digit
  DigitWords,   \* names that do (a token called "3crv"), with that digit
  HandNumbers,  \* numbers developers put in front of a name themselves
  LastScript,   \* the number of the newest script at the start
  MaxBranches   \* bound on branches that are open at a time

ASSUME GeneratorAssumption ==
  /\ LastScript \in Nat /\ MaxBranches \in Nat /\ HandNumbers \subseteq Nat
  /\ \A w \in DigitWords : w[1] \in 0..9

\* The number that parseInt finds in front of a word is not ahead of the task's own:
\* the directory is past 009.
ASSUME DigitAssumption == \A w \in DigitWords : w[1] <= LastScript

\* The stage of a script whose name has no number before its first underscore.
NaN == -1

VARIABLES
  master,    \* the scripts of the main branch
  branch,    \* developer -> scripts of the branch
  open,      \* developers who have a branch
  last,      \* last_deployment_stage
  executed,  \* scripts that have been run to their end
  pending    \* what the current run has still to visit

vars == <<master, branch, open, last, executed, pending>>

\* A file of the directory deploy/: what parseInt makes of its first three characters,
\* what getCurrentStage makes of what comes before the underscore, and its name.
File(parsed, stage, word, byHand) ==
  [parsed |-> parsed, stage |-> stage, word |-> word, byHand |-> byHand]

Newest == File(LastScript, LastScript, "newest", FALSE)

\* The numbers have three digits, so the files are sorted by them; a name that starts
\* with another digit than 0 comes after them.
Before(f, g) == \/ f.stage # NaN /\ g.stage = NaN
                \/ f.stage # NaN /\ g.stage # NaN /\ f.stage < g.stage

-----------------------------------------------------------------------------
(***************************************************************************)
(* The task.                                                               *)
(***************************************************************************)
\* Mutant: the number of the newest script is taken, not the next one.
LastNumber(files) == Max({f.parsed : f \in files})

NextNumber(files) == Max({f.parsed : f \in files}) + 1

\* No file is overwritten (overwriteError); that each word is used once in a checkout
\* is a bound of the model.
Add(d, file) ==
  /\ d \in open
  /\ \A f \in branch[d] : f.word # file.word
  /\ branch' = [branch EXCEPT ![d] = @ \cup {file}]
  /\ UNCHANGED <<master, open, last, executed, pending>>

Create(d, word) ==
  LET number == NextNumber(branch[d])
  IN  Add(d, File(number, number, word, FALSE))

\* The name comes with three digits: it is used as it is.
CreateNumbered(d, number, word) == Add(d, File(number, number, word, TRUE))

\* parseInt finds a number here too; the name is taken to have its prefix.
CreateFromDigit(d, word) == Add(d, File(word[1], NaN, word[2], FALSE))

-----------------------------------------------------------------------------
(***************************************************************************)
(* Branches and runs.                                                      *)
(***************************************************************************)
OpenBranch(d) ==
  /\ d \notin open /\ Cardinality(open) < MaxBranches
  /\ open' = open \cup {d}
  /\ branch' = [branch EXCEPT ![d] = master]
  /\ UNCHANGED <<master, last, executed, pending>>

Merge(d) ==
  /\ d \in open
  /\ master' = master \cup branch[d]
  /\ open' = open \ {d}
  /\ branch' = [branch EXCEPT ![d] = {}]
  /\ UNCHANGED <<last, executed, pending>>

\* "hardhat deploy" on the main branch ...
StartRun ==
  /\ pending = {}
  /\ pending' = master
  /\ UNCHANGED <<master, branch, open, last, executed>>

\* ... sorted by file name.  (Scripts with one number come in any order.)
IsNext(f) == f \in pending /\ \A g \in pending : ~Before(g, f)

\* Mutant: <= for <.
FinishedInclusive(f) == f.stage # NaN /\ f.stage <= last

\* NaN < last is false.
StageAlreadyFinished(f) == f.stage # NaN /\ f.stage < last

SkipScript(f) ==
  /\ IsNext(f) /\ StageAlreadyFinished(f)
  /\ pending' = pending \ {f}
  /\ UNCHANGED <<master, branch, open, last, executed>>

\* NaN + 1 becomes null in the file, and null || 0 is 0.
ExecuteScript(f) ==
  /\ IsNext(f) /\ ~StageAlreadyFinished(f)
  /\ executed' = executed \cup {f}
  /\ last' = IF f.stage = NaN THEN 0 ELSE f.stage + 1
  /\ pending' = pending \ {f}
  /\ UNCHANGED <<master, branch, open>>

Init ==
  /\ master = {Newest} /\ branch = [d \in Developers |-> {}] /\ open = {}
  /\ last = LastScript + 1 /\ executed = {Newest} /\ pending = {}

Deploy == StartRun \/ \E f \in pending : SkipScript(f) \/ ExecuteScript(f)

Develop ==
  \E d \in Developers :
    \/ OpenBranch(d)
    \/ Merge(d)
    \/ \E word \in Words : Create(d, word)
    \/ \E word \in Words, number \in HandNumbers : CreateNumbered(d, number, word)
    \/ \E word \in DigitWords : CreateFromDigit(d, word)

Next == Deploy \/ Develop

Spec == Init /\ [][Next]_vars

\* Somebody deploys what has been merged, again and again.
FairSpec == Spec /\ WF_vars(Deploy)

-----------------------------------------------------------------------------
(***************************************************************************)
(* Properties.                                                             *)
(***************************************************************************)
\* One branch at a time, and no number but the task's.
Orderly ==
  /\ Cardinality(open) <= 1
  /\ \A f \in master \cup UNION {branch[d] : d \in Developers} : ~f.byHand /\ f.stage # NaN

\* A script that was merged is run by some deployment, if developers merge before they
\* branch again and leave the numbers to the task: none of them gets one that the
\* counter has passed, however merges and runs are interleaved.
EveryScriptRuns ==
  []Orderly => \A word \in Words :
    (\E f \in master : f.word = word) ~> (\E f \in executed : f.word = word)

\* Two branches may give one number to two scripts, and the second one to be merged
\* may find the counter beyond it.  A script is passed over for no other reason but
\* a number that somebody put there by hand.
SkippedForCause ==
  \A f \in master \ executed : StageAlreadyFinished(f) =>
    \/ f.byHand
    \/ \E g \in master : g.byHand
    \/ \E g \in executed : g.stage = f.stage
=============================================================================
