-------------------------- MODULE GeneratorProofs ---------------------------
(***************************************************************************)
(* Why a script is passed over, for any number of developers, branches,    *)
(* scripts and runs.  As long as nobody numbers a file by hand every       *)
(* checkout has a script for each number up to its newest one, so what is  *)
(* below the counter has been executed under that number.                  *)
(***************************************************************************)
EXTENDS ScriptGenerator, TLAPS

\* What a checkout holds: files, the newest one of the start among them, and one that
\* no other is ahead of.
IsFile(f) == f.parsed \in Nat /\ f.stage \in Nat \cup {NaN} /\ f.byHand \in BOOLEAN
Checkout(files) ==
  /\ Newest \in files
  /\ \A f \in files : IsFile(f)
  /\ \E f \in files : \A g \in files : g.parsed <= f.parsed

NoneByHand(files) == \A f \in files : ~f.byHand

\* The number of a script is what parseInt reads, and there are scripts for all numbers
\* before it.
Numbered(n, files) == \E f \in files : f.stage = n
Gapless(files) ==
  \A f \in files :
    /\ f.stage = NaN => f.parsed <= LastScript
    /\ f.stage # NaN => /\ f.parsed = f.stage /\ f.stage >= LastScript
                        /\ \A n \in LastScript..f.stage : Numbered(n, files)

FilesOK ==
  /\ open \subseteq Developers
  /\ DOMAIN branch = Developers
  /\ Checkout(master) /\ \A d \in open : Checkout(branch[d])
  /\ \A f \in pending : IsFile(f)
  /\ last \in Nat

\* The counter and the run have left nothing behind.
CounterOK == \A n \in LastScript..(last - 1) : Numbered(n, executed)
RunOK ==
  \A f \in pending : f.stage # NaN =>
    \A n \in LastScript..f.stage : Numbered(n, executed \cup pending)

GeneratorInvariant ==
  /\ FilesOK
  /\ \A d \in open : NoneByHand(branch[d]) => Gapless(branch[d])
  /\ NoneByHand(master) => Gapless(master) /\ CounterOK /\ RunOK

-----------------------------------------------------------------------------
(***************************************************************************)
(* Checkouts.                                                              *)
(***************************************************************************)
\* The number after the newest one is NextNumber's.
LEMMA NextNumberIs ==
  ASSUME NEW files, Checkout(files)
  PROVE  /\ NextNumber(files) \in Nat
         /\ \A f \in files : f.parsed < NextNumber(files)
         /\ \E f \in files : f.parsed + 1 = NextNumber(files)
<1> DEFINE numbers == {f.parsed : f \in files}
<1>1. \A n \in numbers : n \in Nat
  BY DEF Checkout, IsFile
<1>2. \E n \in numbers : \A m \in numbers : n >= m
  BY <1>1 DEF Checkout
<1>3. Max(numbers) \in numbers /\ \A m \in numbers : Max(numbers) >= m
  BY <1>2 DEF Max
<1>4. NextNumber(files) = Max(numbers) + 1
  BY DEF NextNumber
<1> HIDE DEF numbers
<1>5. NextNumber(files) \in Nat /\ \A m \in numbers : m < NextNumber(files)
  BY <1>1, <1>3, <1>4
<1>6. PICK f \in files : f.parsed = Max(numbers)
  BY <1>3 DEF numbers
<1> QED BY <1>4, <1>5, <1>6 DEF numbers

\* A checkout stays one when a file is added ...
LEMMA CheckoutGrows ==
  ASSUME NEW files, Checkout(files), NEW file, IsFile(file)
  PROVE  Checkout(files \cup {file})
<1>1. PICK f \in files : \A g \in files : g.parsed <= f.parsed
  BY DEF Checkout
<1>2. \A g \in files \cup {file} : g.parsed \in Nat
  BY DEF Checkout, IsFile
<1>3. \E h \in files \cup {file} : \A g \in files \cup {file} : g.parsed <= h.parsed
  <2>1. CASE file.parsed <= f.parsed
    BY <1>1, <2>1
  <2>2. CASE f.parsed <= file.parsed
    BY <1>1, <1>2, <2>2
  <2> QED BY <1>2, <2>1, <2>2
<1> QED BY <1>3 DEF Checkout

\* ... and when it is merged with another one.
LEMMA CheckoutsMerge ==
  ASSUME NEW a, Checkout(a), NEW b, Checkout(b)
  PROVE  Checkout(a \cup b)
<1>1. PICK f \in a : \A g \in a : g.parsed <= f.parsed
  BY DEF Checkout
<1>2. PICK h \in b : \A g \in b : g.parsed <= h.parsed
  BY DEF Checkout
<1>3. \A g \in a \cup b : g.parsed \in Nat
  BY DEF Checkout, IsFile
<1>4. \E k \in a \cup b : \A g \in a \cup b : g.parsed <= k.parsed
  <2>1. CASE h.parsed <= f.parsed
    BY <1>1, <1>2, <1>3, <2>1
  <2>2. CASE f.parsed <= h.parsed
    BY <1>1, <1>2, <1>3, <2>2
  <2> QED BY <1>3, <2>1, <2>2
<1> QED BY <1>4 DEF Checkout

LEMMA GaplessMerge ==
  ASSUME NEW a, Gapless(a), NEW b, Gapless(b)
  PROVE  Gapless(a \cup b)
BY DEF Gapless, Numbered

\* The task leaves no gap: the newest number is that of a script, not just what
\* parseInt finds in front of a word.
LEMMA CreateLeavesNoGap ==
  ASSUME NEW files, Checkout(files), Gapless(files), NEW word,
         NEW number, number = NextNumber(files)
  PROVE  Gapless(files \cup {File(number, number, word, FALSE)})
<1> DEFINE file == File(number, number, word, FALSE)
<1> USE GeneratorAssumption
<1>1. PICK f \in files : f.parsed + 1 = number
  BY NextNumberIs
<1>2. /\ number \in Nat /\ f.parsed \in Nat /\ f.stage \in Nat \cup {NaN}
      /\ LastScript < number
  <2>1. Newest \in files /\ Newest.parsed = LastScript
    BY DEF Checkout, Newest, File
  <2> QED BY <2>1, NextNumberIs DEF Checkout, IsFile
<1>3. \A n \in LastScript..f.parsed : Numbered(n, files)
  <2>1. CASE f.stage # NaN
    BY <2>1 DEF Gapless
  <2>2. CASE f.stage = NaN
    <3>1. f.parsed = LastScript
      BY <1>1, <1>2, <2>2 DEF Gapless
    <3>2. Newest \in files /\ Newest.stage = LastScript
      BY DEF Checkout, Newest, File
    <3> QED BY <1>2, <3>1, <3>2 DEF Numbered
  <2> QED BY <2>1, <2>2
<1>4. file.parsed = number /\ file.stage = number /\ number # NaN
  BY <1>2 DEF File, NaN
<1>5. ASSUME NEW n \in LastScript..number PROVE Numbered(n, files \cup {file})
  <2>1. CASE n = number
    BY <1>4, <2>1 DEF Numbered
  <2>2. CASE n # number
    <3>1. n \in LastScript..f.parsed
      BY <1>1, <1>2, <2>2
    <3> QED BY <1>3, <3>1 DEF Numbered
  <2> QED BY <2>1, <2>2
<1> HIDE DEF file
<1>6. ASSUME NEW g \in files \cup {file}
      PROVE  /\ g.stage = NaN => g.parsed <= LastScript
             /\ g.stage # NaN => /\ g.parsed = g.stage /\ g.stage >= LastScript
                                 /\ \A n \in LastScript..g.stage : Numbered(n, files \cup {file})
  <2>1. CASE g \in files
    BY <2>1 DEF Gapless, Numbered
  <2>2. CASE g = file
    BY <1>2, <1>4, <1>5, <2>2
  <2> QED BY <2>1, <2>2
<1>7. Gapless(files \cup {file})
  BY <1>6 DEF Gapless
<1> QED BY <1>7 DEF file

\* A word with a digit in front has no stage, and its digit is not ahead.
LEMMA DigitLeavesNoGap ==
  ASSUME NEW files, Gapless(files), NEW word \in DigitWords
  PROVE  Gapless(files \cup {File(word[1], NaN, word[2], FALSE)})
<1> DEFINE file == File(word[1], NaN, word[2], FALSE)
<1>1. file.parsed <= LastScript /\ file.stage = NaN
  BY DigitAssumption DEF File
<1> HIDE DEF file
<1>2. Gapless(files \cup {file})
  BY <1>1 DEF Gapless, Numbered
<1> QED BY <1>2 DEF file

-----------------------------------------------------------------------------
(***************************************************************************)
(* The steps.                                                              *)
(***************************************************************************)
LEMMA GeneratorInit == Init => GeneratorInvariant
<1> SUFFICES ASSUME Init PROVE GeneratorInvariant
  OBVIOUS
<1> USE GeneratorAssumption
<1>1. /\ Newest.parsed = LastScript /\ Newest.stage = LastScript /\ Newest.byHand = FALSE
      /\ LastScript # NaN
  BY DEF Newest, File, NaN
<1>2. Checkout({Newest}) /\ Gapless({Newest})
  <2>1. \A n \in LastScript..LastScript : Numbered(n, {Newest})
    BY <1>1 DEF Numbered
  <2>2. IsFile(Newest) /\ Newest.parsed <= Newest.parsed
    BY <1>1 DEF IsFile, Newest, File
  <2>3. Checkout({Newest})
    BY <2>2 DEF Checkout
  <2>4. Gapless({Newest})
    BY <1>1, <2>1 DEF Gapless
  <2> QED BY <2>3, <2>4
<1>3. \A n \in LastScript..(LastScript + 1 - 1) : n = LastScript
  OBVIOUS
<1> QED BY <1>1, <1>2, <1>3
        DEF Init, GeneratorInvariant, FilesOK, CounterOK, RunOK, Numbered

\* What the three ways to create a script have in common: one more file in a branch,
\* which stays without gaps unless it has been numbered by hand.
LEMMA AddStep ==
  ASSUME GeneratorInvariant, NEW d \in Developers, NEW file, Add(d, file), IsFile(file),
         ~file.byHand /\ Gapless(branch[d]) => Gapless(branch[d] \cup {file})
  PROVE  GeneratorInvariant'
<1> DEFINE new == branch[d] \cup {file}
<1>1. /\ d \in open /\ open \subseteq Developers /\ DOMAIN branch = Developers
      /\ open' = open /\ master' = master /\ pending' = pending /\ last' = last
      /\ executed' = executed /\ branch' = [branch EXCEPT ![d] = new]
  BY DEF Add, GeneratorInvariant, FilesOK
<1>2. branch'[d] = new /\ \A e \in open : e # d => branch'[e] = branch[e]
  BY <1>1
<1>3. Checkout(new)
  BY <1>1, CheckoutGrows DEF GeneratorInvariant, FilesOK
<1>4. NoneByHand(new) => Gapless(new)
  <2> SUFFICES ASSUME NoneByHand(new) PROVE Gapless(new)
    OBVIOUS
  <2>1. NoneByHand(branch[d]) /\ ~file.byHand
    BY DEF NoneByHand
  <2> QED BY <1>1, <2>1 DEF GeneratorInvariant
<1> HIDE DEF new
<1>5. FilesOK'
  BY <1>1, <1>2, <1>3 DEF GeneratorInvariant, FilesOK, Checkout
<1>6. \A e \in open' : NoneByHand(branch'[e]) => Gapless(branch'[e])
  BY <1>1, <1>2, <1>4 DEF GeneratorInvariant
<1>7. (\A e \in open : NoneByHand(branch[e]) => Gapless(branch[e]))'
  BY <1>6 DEF NoneByHand, Gapless, Numbered
<1> QED BY <1>1, <1>5, <1>7
        DEF GeneratorInvariant, NoneByHand, Gapless, CounterOK, RunOK, Numbered

LEMMA CreateStep ==
  ASSUME GeneratorInvariant, NEW d \in Developers, NEW word, Create(d, word)
  PROVE  GeneratorInvariant'
<1> DEFINE number == NextNumber(branch[d])
           file   == File(number, number, word, FALSE)
<1>1. Add(d, file)
  BY DEF Create
<1>2. Checkout(branch[d])
  BY <1>1 DEF Add, GeneratorInvariant, FilesOK
<1>3. Gapless(branch[d]) => Gapless(branch[d] \cup {file})
  BY <1>2, CreateLeavesNoGap
<1>4. number \in Nat
  BY <1>2, NextNumberIs
<1>5. IsFile(file)
  BY <1>4 DEF IsFile, File
<1> QED BY <1>1, <1>3, <1>5, AddStep

LEMMA CreateNumberedStep ==
  ASSUME GeneratorInvariant, NEW d \in Developers, NEW word, NEW number \in HandNumbers,
         CreateNumbered(d, number, word)
  PROVE  GeneratorInvariant'
<1> DEFINE file == File(number, number, word, TRUE)
<1>1. Add(d, file) /\ IsFile(file) /\ file.byHand
  BY GeneratorAssumption DEF CreateNumbered, IsFile, File
<1> HIDE DEF file
<1> QED BY <1>1, AddStep

LEMMA CreateFromDigitStep ==
  ASSUME GeneratorInvariant, NEW d \in Developers, NEW word \in DigitWords,
         CreateFromDigit(d, word)
  PROVE  GeneratorInvariant'
<1> DEFINE file == File(word[1], NaN, word[2], FALSE)
<1>1. Add(d, file)
  BY DEF CreateFromDigit
<1>2. IsFile(file)
  BY GeneratorAssumption DEF IsFile, File
<1>3. Gapless(branch[d]) => Gapless(branch[d] \cup {file})
  BY DigitLeavesNoGap
<1> QED BY <1>1, <1>2, <1>3, AddStep

LEMMA OpenBranchStep ==
  ASSUME GeneratorInvariant, NEW d \in Developers, OpenBranch(d)
  PROVE  GeneratorInvariant'
<1>1. /\ open' = open \cup {d} /\ open \subseteq Developers /\ DOMAIN branch = Developers
      /\ branch' = [branch EXCEPT ![d] = master]
      /\ master' = master /\ pending' = pending /\ last' = last /\ executed' = executed
  BY DEF OpenBranch, GeneratorInvariant, FilesOK
<1>2. branch'[d] = master /\ \A e \in open : e # d => branch'[e] = branch[e]
  BY <1>1
<1>3. FilesOK'
  BY <1>1, <1>2 DEF GeneratorInvariant, FilesOK, Checkout
<1>4. \A e \in open' : NoneByHand(branch'[e]) => Gapless(branch'[e])
  BY <1>1, <1>2 DEF GeneratorInvariant
<1>5. (\A e \in open : NoneByHand(branch[e]) => Gapless(branch[e]))'
  BY <1>4 DEF NoneByHand, Gapless, Numbered
<1> QED BY <1>1, <1>3, <1>5
        DEF GeneratorInvariant, NoneByHand, Gapless, CounterOK, RunOK, Numbered

\* What is merged has gaps only if one of the two sides has a number by hand.
LEMMA MergeStep ==
  ASSUME GeneratorInvariant, NEW d \in Developers, Merge(d)
  PROVE  GeneratorInvariant'
<1>1. /\ d \in open /\ open' = open \ {d} /\ open \subseteq Developers
      /\ DOMAIN branch = Developers
      /\ branch' = [branch EXCEPT ![d] = {}] /\ master' = master \cup branch[d]
      /\ pending' = pending /\ last' = last /\ executed' = executed
  BY DEF Merge, GeneratorInvariant, FilesOK
<1>2. \A e \in open' : branch'[e] = branch[e]
  BY <1>1
<1>3. Checkout(master')
  BY <1>1, CheckoutsMerge DEF GeneratorInvariant, FilesOK
<1>4. FilesOK'
  BY <1>1, <1>2, <1>3 DEF GeneratorInvariant, FilesOK, Checkout
<1>5. \A e \in open' : NoneByHand(branch'[e]) => Gapless(branch'[e])
  BY <1>1, <1>2 DEF GeneratorInvariant
<1>6. (\A e \in open : NoneByHand(branch[e]) => Gapless(branch[e]))'
  BY <1>5 DEF NoneByHand, Gapless, Numbered
<1>7. ASSUME NoneByHand(master') PROVE Gapless(master') /\ CounterOK /\ RunOK
  <2>1. NoneByHand(master) /\ NoneByHand(branch[d])
    BY <1>1, <1>7 DEF NoneByHand
  <2>2. Gapless(master) /\ Gapless(branch[d]) /\ CounterOK /\ RunOK
    BY <1>1, <2>1 DEF GeneratorInvariant
  <2> QED BY <1>1, <2>2, GaplessMerge
<1>8. (NoneByHand(master) => Gapless(master) /\ CounterOK /\ RunOK)'
  BY <1>1, <1>7 DEF NoneByHand, Gapless, Numbered, CounterOK, RunOK
<1> QED BY <1>4, <1>6, <1>8 DEF GeneratorInvariant

\* The steps of a run leave the files alone.
LEMMA FilesKept ==
  ASSUME GeneratorInvariant, UNCHANGED <<master, branch, open>>,
         \A f \in pending' : f \in pending \cup master, last' \in Nat,
         NoneByHand(master) /\ Gapless(master) /\ CounterOK /\ RunOK => CounterOK' /\ RunOK'
  PROVE  GeneratorInvariant'
<1>1. FilesOK'
  BY DEF GeneratorInvariant, FilesOK, Checkout
<1>2. (\A e \in open : NoneByHand(branch[e]) => Gapless(branch[e]))'
  BY DEF GeneratorInvariant, NoneByHand, Gapless, Numbered
<1>3. NoneByHand(master)' => NoneByHand(master)
  BY DEF NoneByHand
<1>4. Gapless(master) => Gapless(master)'
  BY DEF Gapless, Numbered
<1> QED BY <1>1, <1>2, <1>3, <1>4 DEF GeneratorInvariant

LEMMA StartRunStep ==
  ASSUME GeneratorInvariant, StartRun
  PROVE  GeneratorInvariant'
<1>1. pending' = master /\ last' = last /\ executed' = executed /\ last \in Nat
  BY DEF StartRun, GeneratorInvariant, FilesOK
<1>2. CounterOK => CounterOK'
  BY <1>1 DEF CounterOK, Numbered
<1>3. Gapless(master) => RunOK'
  BY <1>1 DEF Gapless, RunOK, Numbered
<1> QED BY <1>1, <1>2, <1>3, FilesKept DEF StartRun

\* A script that is skipped has a namesake in number that has been executed.
LEMMA SkipStep ==
  ASSUME GeneratorInvariant, NEW f \in pending, SkipScript(f)
  PROVE  GeneratorInvariant'
<1>1. /\ pending' = pending \ {f} /\ last' = last /\ executed' = executed /\ last \in Nat
      /\ f.stage # NaN /\ f.stage < last /\ f.stage \in Nat
  BY DEF SkipScript, StageAlreadyFinished, GeneratorInvariant, FilesOK, IsFile
<1>2. CounterOK => CounterOK'
  BY <1>1 DEF CounterOK, Numbered
<1>3. ASSUME CounterOK, RunOK PROVE RunOK'
  <2>1. SUFFICES ASSUME NEW g \in pending', g.stage # NaN, NEW n \in LastScript..g.stage
                 PROVE  Numbered(n, executed \cup pending')
    BY <1>1 DEF RunOK, Numbered
  <2>2. PICK h \in executed \cup pending : h.stage = n
    BY <1>1, <1>3, <2>1 DEF RunOK, Numbered
  <2>3. CASE h = f
    <3>1. n \in LastScript..(last - 1)
      BY <1>1, <2>2, <2>3, GeneratorAssumption
    <3> QED BY <1>3, <3>1 DEF CounterOK, Numbered
  <2>4. CASE h # f
    BY <1>1, <2>2, <2>4 DEF Numbered
  <2> QED BY <2>3, <2>4
<1> QED BY <1>1, <1>2, <1>3, FilesKept DEF SkipScript

\* The scripts come in the order of their numbers: those below have been visited.
LEMMA ExecuteStep ==
  ASSUME GeneratorInvariant, NEW f \in pending, ExecuteScript(f)
  PROVE  GeneratorInvariant'
<1> USE GeneratorAssumption
<1>1. /\ pending' = pending \ {f} /\ executed' = executed \cup {f}
      /\ last' = IF f.stage = NaN THEN 0 ELSE f.stage + 1
      /\ \A g \in pending : ~Before(g, f)
      /\ \A g \in pending : g.stage \in Nat \cup {NaN}
  BY DEF ExecuteScript, IsNext, GeneratorInvariant, FilesOK, IsFile
<1>2. last' \in Nat
  BY <1>1 DEF NaN
<1>3. ASSUME RunOK PROVE CounterOK'
  <2>1. CASE f.stage = NaN
    <3>1. \A n \in LastScript..(last' - 1) : FALSE
      BY <1>1, <2>1
    <3> QED BY <3>1 DEF CounterOK
  <2>2. CASE f.stage # NaN
    <3>1. SUFFICES ASSUME NEW n \in LastScript..f.stage PROVE Numbered(n, executed')
      <4>1. last' - 1 = f.stage
        BY <1>1, <2>2
      <4> QED BY <3>1, <4>1 DEF CounterOK, Numbered
    <3>2. PICK h \in executed \cup pending : h.stage = n
      BY <1>3, <2>2 DEF RunOK, Numbered
    <3>3. CASE n = f.stage
      BY <1>1, <3>3 DEF Numbered
    <3>4. CASE n # f.stage
      <4>1. n \in Nat /\ n < f.stage /\ n # NaN
        BY <1>1, <2>2, <3>1, <3>4 DEF NaN
      <4>2. h \notin pending
        BY <1>1, <2>2, <3>2, <4>1 DEF Before
      <4> QED BY <1>1, <3>2, <4>2 DEF Numbered
    <3> QED BY <3>3, <3>4
  <2> QED BY <2>1, <2>2
<1>4. RunOK => RunOK'
  <2>1. executed' \cup pending' = executed \cup pending
    BY <1>1
  <2>2. \A n : Numbered(n, executed \cup pending) => Numbered(n, executed' \cup pending')
    BY <2>1
  <2>3. ASSUME RunOK, NEW g \in pending', g.stage # NaN, NEW n \in LastScript..g.stage
        PROVE  \E h \in executed' \cup pending' : h.stage = n
    BY <1>1, <2>1, <2>3 DEF RunOK, Numbered
  <2> QED BY <2>3 DEF RunOK, Numbered
<1> QED BY <1>1, <1>2, <1>3, <1>4, FilesKept DEF ExecuteScript

\* A script of the main branch that no run will execute has a number that another one
\* was executed under, or somebody has numbered a script by hand.
THEOREM NoScriptIsSkippedForNothing == Spec => []SkippedForCause
<1>1. Init => GeneratorInvariant
  BY GeneratorInit
<1>2. GeneratorInvariant /\ [Next]_vars => GeneratorInvariant'
  <2> SUFFICES ASSUME GeneratorInvariant, [Next]_vars PROVE GeneratorInvariant'
    OBVIOUS
  <2>1. CASE StartRun
    BY <2>1, StartRunStep
  <2>2. ASSUME NEW f \in pending, SkipScript(f) \/ ExecuteScript(f)
        PROVE  GeneratorInvariant'
    BY <2>2, SkipStep, ExecuteStep
  <2>3. ASSUME NEW d \in Developers, OpenBranch(d) \/ Merge(d) PROVE GeneratorInvariant'
    BY <2>3, OpenBranchStep, MergeStep
  <2>4. ASSUME NEW d \in Developers, NEW word \in Words, Create(d, word)
        PROVE  GeneratorInvariant'
    BY <2>4, CreateStep
  <2>5. ASSUME NEW d \in Developers, NEW word \in Words, NEW number \in HandNumbers,
               CreateNumbered(d, number, word)
        PROVE  GeneratorInvariant'
    BY <2>5, CreateNumberedStep
  <2>6. ASSUME NEW d \in Developers, NEW word \in DigitWords, CreateFromDigit(d, word)
        PROVE  GeneratorInvariant'
    BY <2>6, CreateFromDigitStep
  <2>7. CASE UNCHANGED vars
    BY <2>7, FilesKept DEF vars, GeneratorInvariant, FilesOK, CounterOK, RunOK, Numbered
  <2> QED BY <2>1, <2>2, <2>3, <2>4, <2>5, <2>6, <2>7 DEF Next, Deploy, Develop
<1>3. GeneratorInvariant => SkippedForCause
  <2> SUFFICES ASSUME GeneratorInvariant, NEW f \in master \ executed,
                      StageAlreadyFinished(f), NoneByHand(master)
               PROVE  \E g \in executed : g.stage = f.stage
    BY DEF SkippedForCause, NoneByHand
  <2>1. /\ f.stage \in Nat /\ f.stage < last /\ last \in Nat /\ f.stage >= LastScript
        /\ CounterOK
    BY DEF StageAlreadyFinished, GeneratorInvariant, FilesOK, Checkout, IsFile, Gapless
  <2>2. f.stage \in LastScript..(last - 1)
    BY <2>1, GeneratorAssumption
  <2> QED BY <2>1, <2>2 DEF CounterOK, Numbered
<1> QED BY <1>1, <1>2, <1>3, PTL DEF Spec
=============================================================================
