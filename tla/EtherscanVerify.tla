-------------------------- MODULE EtherscanVerify --------------------------
(***************************************************************************)
(* The task set:etherscan:verify (tasks/etherscanVerify.ts) and the runs   *)
(* of module Deployment: two writers of one outputs file.                  *)
(*                                                                         *)
(* The task reads the document once, submits one after the other the       *)
(* contracts whose record says verified = false, notes each success in the *)
(* document it has read, and writes that document back when it has been    *)
(* through all of them, minutes later.  Nothing but the operator's care    *)
(* keeps a run from starting in between, or a task during a run; overlaps  *)
(* counts how often the care fails.                                        *)
(***************************************************************************)
EXTENDS Deployment

CONSTANTS
  MaxOverlaps,     \* bound on runs and tasks started while the other is active
  MaxFailures,     \* bound on submissions that end in an error
  MaxTaskCrashes   \* bound on tasks that are killed

ASSUME TaskAssumption == {MaxOverlaps, MaxFailures, MaxTaskCrashes} \subseteq Nat

VARIABLES
  task,        \* "idle" or "busy"
  snapshot,    \* the document the task has read, with the flags it has set
  cursor,      \* the task is through with the records below this key
  published,   \* addresses whose source Etherscan shows
  overlaps, failures, taskCrashes

taskState == <<task, snapshot, cursor>>
taskVars  == <<taskState, published, overlaps, failures, taskCrashes>>
allVars   == <<vars, taskVars>>

-----------------------------------------------------------------------------
(***************************************************************************)
(* The loop.                                                               *)
(***************************************************************************)
\* deployment.contractAddress && deployment.verified === false
Submittable(record) == record.contractAddress # NoAddress /\ ~record.verified

Ahead == {k \in DOMAIN snapshot.transactions :
            k >= cursor /\ Submittable(snapshot.transactions[k])}

SetVerified(o, k) == [o EXCEPT !.transactions[k].verified = TRUE]

\* Starting with the other process active is an overlap.
Overlap(active) == /\ active => overlaps < MaxOverlaps
                   /\ overlaps' = IF active THEN overlaps + 1 ELSE overlaps

\* Mutant: the document of an earlier task is used again.
StartWithOldSnapshot ==
  /\ task = "idle" /\ Overlap(pc # "idle")
  /\ task' = "busy" /\ cursor' = 0
  /\ UNCHANGED <<vars, snapshot, published, failures, taskCrashes>>

\* The operator types "hardhat set:etherscan:verify".
StartVerify ==
  /\ task = "idle" /\ Overlap(pc # "idle")
  /\ task' = "busy" /\ snapshot' = outputs /\ cursor' = 0
  /\ UNCHANGED <<vars, published, failures, taskCrashes>>

\* Mutant: the flag is forgotten.
VerifiedUnflagged ==
  /\ task = "busy" /\ Ahead # {}
  /\ published' = published \cup {snapshot.transactions[Min(Ahead)].contractAddress}
  /\ cursor' = Min(Ahead) + 1
  /\ UNCHANGED <<vars, task, snapshot, overlaps, failures, taskCrashes>>

\* verify:verify returns.
Verified ==
  /\ task = "busy" /\ Ahead # {}
  /\ LET k == Min(Ahead) IN
     /\ published' = published \cup {snapshot.transactions[k].contractAddress}
     /\ snapshot' = SetVerified(snapshot, k)
     /\ cursor' = k + 1
  /\ UNCHANGED <<vars, overlaps, task, failures, taskCrashes>>

\* Mutant: the flag is set whether or not verify:verify throws.
FailedAndFlagged ==
  /\ task = "busy" /\ Ahead # {} /\ failures < MaxFailures
  /\ failures' = failures + 1
  /\ snapshot' = SetVerified(snapshot, Min(Ahead))
  /\ cursor' = Min(Ahead) + 1
  /\ UNCHANGED <<vars, overlaps, task, published, taskCrashes>>

\* verify:verify throws: Etherscan refused, or was not reached, or accepted and its
\* answer was lost.  The loop goes on.
Failed ==
  /\ task = "busy" /\ Ahead # {} /\ failures < MaxFailures
  /\ failures' = failures + 1
  /\ LET address == snapshot.transactions[Min(Ahead)].contractAddress
     IN  published' \in {published, published \cup {address}}
  /\ cursor' = Min(Ahead) + 1
  /\ UNCHANGED <<vars, overlaps, task, snapshot, taskCrashes>>

\* verify:verify may also throw because the source is there already.
AlreadyVerified ==
  /\ task = "busy" /\ Ahead # {}
  /\ snapshot.transactions[Min(Ahead)].contractAddress \in published
  /\ cursor' = Min(Ahead) + 1
  /\ UNCHANGED <<vars, overlaps, task, snapshot, published, failures, taskCrashes>>

\* After the loop the whole document is written.
WriteBack ==
  /\ task = "busy" /\ Ahead = {}
  /\ task' = "idle"
  /\ outputs' = snapshot
  /\ UNCHANGED <<world, pc, stage, step, environment,
                 snapshot, cursor, published, overlaps, failures, taskCrashes>>

-----------------------------------------------------------------------------
(***************************************************************************)
(* A task that is killed: between two calls, or within the write.          *)
(***************************************************************************)
KillTask ==
  /\ task = "busy" /\ taskCrashes < MaxTaskCrashes
  /\ taskCrashes' = taskCrashes + 1
  /\ task' = "idle"
  /\ UNCHANGED <<vars, overlaps, snapshot, cursor, published, failures>>

TearWriteBack ==
  /\ task = "busy" /\ Ahead = {} /\ tornWrites < MaxTornWrites
  /\ tornWrites' = tornWrites + 1
  /\ task' = "idle"
  /\ outputs' = EmptyOutputs
  /\ UNCHANGED <<world, pc, stage, step, crashes, checkouts,
                 snapshot, cursor, published, overlaps, failures, taskCrashes>>

-----------------------------------------------------------------------------
VerifyInit ==
  /\ Init
  /\ task = "idle" /\ snapshot = EmptyOutputs /\ cursor = 0
  /\ published = {} /\ overlaps = 0 /\ failures = 0 /\ taskCrashes = 0

DeploymentStep == /\ Progress
                  /\ Overlap(pc = "idle" /\ task = "busy")
                  /\ UNCHANGED <<taskState, published, failures, taskCrashes>>
DeploymentHalt == Interruption /\ UNCHANGED taskVars
TaskStep       == Verified \/ AlreadyVerified \/ WriteBack
TaskTrouble    == Failed \/ KillTask \/ TearWriteBack

VerifyNext == DeploymentStep \/ DeploymentHalt \/ StartVerify \/ TaskStep \/ TaskTrouble

VerifySpec == VerifyInit /\ [][VerifyNext]_allVars

\* The operator starts runs and tasks again and again, and both go on.
FairVerifySpec == /\ VerifySpec
                  /\ SF_allVars(DeploymentStep)
                  /\ SF_allVars(StartVerify)
                  /\ WF_allVars(TaskStep)

-----------------------------------------------------------------------------
(***************************************************************************)
(* Properties.                                                             *)
(***************************************************************************)
\* The task works on a document, and is at one of its keys or past the last.
TaskTypeOK ==
  /\ TypeOK
  /\ task \in {"idle", "busy"}
  /\ IsDocument(snapshot)
  /\ cursor \in Nat
  /\ published \subseteq Address
  /\ overlaps \in 0..MaxOverlaps /\ failures \in 0..MaxFailures
  /\ taskCrashes \in 0..MaxTaskCrashes

Flagged(o) == {o.transactions[k].contractAddress :
                 k \in {x \in DOMAIN o.transactions : o.transactions[x].verified}}
Offered(o) == {o.transactions[k].contractAddress : k \in DOMAIN o.transactions}
                \ {NoAddress}

\* A flag is never a lie: Etherscan shows the source of every contract the file, or
\* the document in the hands of the task, calls verified.  This holds however runs
\* and tasks are interleaved and interrupted.
FlagsAreTrue == Flagged(outputs) \cup Flagged(snapshot) \subseteq published

\* A flag that is missing has a reason: an answer that was an error or a task that
\* was killed.  Without these, the file knows all that Etherscan shows.
FlagsComplete ==
  (task = "idle" /\ overlaps = 0 /\ failures = 0 /\ taskCrashes = 0 /\ tornWrites = 0) =>
    published \subseteq Flagged(outputs)

\* What may happen to the records of a document: they become verified.
FlagsAdded(old, new) ==
  \A k \in DOMAIN old.transactions :
    /\ k \in DOMAIN new.transactions
    /\ new.transactions[k] \in
         {old.transactions[k], [old.transactions[k] EXCEPT !.verified = TRUE]}

\* While runs and tasks take turns, the document a task writes back is the one it
\* found, with flags added: no address, record or stage is lost by it.
TaskKeepsLedger ==
  [][(overlaps = 0 /\ tornWrites' = tornWrites) =>
       AddressesKept /\ FlagsAdded(outputs, outputs') /\ StageKept]_allVars

\* However submissions fail and tasks are killed, in the end Etherscan shows every
\* contract that a record of the ledger offers for verification.
EventuallyPublished == <>[](Offered(outputs) \subseteq published)

-----------------------------------------------------------------------------
(***************************************************************************)
(* The inductive invariant of the turns: while a task is busy no run is    *)
(* active, and the document it holds differs from the file by flags only.  *)
(***************************************************************************)
SnapshotCurrent ==
  (overlaps = 0 /\ task = "busy") =>
    /\ pc = "idle"
    /\ snapshot.state = outputs.state
    /\ snapshot.addresses = outputs.addresses
    /\ DOMAIN snapshot.transactions = DOMAIN outputs.transactions
    /\ FlagsAdded(outputs, snapshot)

\* As long as runs and tasks take turns, the place of a run is what the ledger says
\* is done, whichever of the two wrote it last.
TurnsKeepRunInvariant == overlaps = 0 => RunInvariant /\ SnapshotCurrent
=============================================================================
