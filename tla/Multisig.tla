------------------------------ MODULE Multisig ------------------------------
(***************************************************************************)
(* The third phase of a deployment (README.md, "Multisig Operations"): the *)
(* owners of the treasury's wallet execute the calls that the scripts have *)
(* saved as deferred transactions.  They read the committed outputs file,  *)
(* take the records in whatever order they like, when they like, also in   *)
(* the middle of a run, and are told by nobody which are done already.     *)
(***************************************************************************)
EXTENDS Deployment

CONSTANT Owner  \* the name under which the scripts hand over the managers

Calls        == {s \in Steps : s.kind = "call"}
Handovers(s) == {k \in CallSteps(s) : Script[s][k].op = "operator"}

\* The wallet's address is the same before and after the file is torn: the table of
\* dependencies.ts has it, or the deployer's address stands in for it.
ASSUME OwnerAssumption ==
  /\ Owner \in Names
  /\ Owner \in KnownDependencies \/
       \A s \in Providers(Owner) : s.kind = "mock" /\ s.value = "deployer"
  /\ \A h \in Handover : h.subject = Owner

\* A script hands over a manager after everything else it calls, and no other does.
ASSUME HandedOverOnceAssumption ==
  \A s, t \in Stages : \A h \in Handovers(s) :
    /\ \A k \in CallSteps(s) : k < h => Script[s][k].op \in {"adapter", "caller"}
    /\ \A g \in Handovers(t) : Script[t][g].target = Script[s][h].target => t = s /\ g = h

\* The manager called name decides about call c: it is the target, or the first
\* argument of the extension that is.
Manages(name, c) ==
  \/ c.op \in {"adapter", "operator"} /\ name = c.target
  \/ /\ c.op = "caller" /\ c.target \notin KnownDependencies
     /\ \A s \in Providers(c.target) : s.kind = "deploy" /\ s.args # <<>> /\ s.args[1] = name

\* A script with a call that may be deferred hands over the manager it is about.
ASSUME DeferrableAssumption ==
  \A s \in Stages : \A k \in CallSteps(s) :
    (\E c \in Calls : c.deferrable /\ StepDescription(c) = StepDescription(Script[s][k])) =>
      \E h \in Handovers(s) : Manages(Script[s][h].target, Script[s][k])

\* No two managers get the same extension, or the same caller, by calls that may wait.
ASSUME SubjectAssumption ==
  \A c, d \in Calls : (c.deferrable /\ c.op = d.op /\ c.op # "operator") =>
    c.target = d.target \/ Apart(c.subject, d.subject)

\* The wallet is where the table of dependencies.ts has it, also on mainnet staging, where
\* scripts write the deployer's address into the ledger under the wallet's name.  Without an
\* entry in the table it is that stand-in.
Wallet == IF Owner \in KnownDependencies THEN KnownAddress(Owner)
                                         ELSE GetContractAddress(outputs, Owner)

\* The call a deferred record describes (saveDeferredTransactionData keeps its
\* calldata, the name of its contract and a description).
CallOf(record) == [op |-> record.description[1], target |-> record.description[2],
                   subject |-> record.description[3]]

Pending == {k \in DOMAIN outputs.transactions : outputs.transactions[k].deferred}

\* The addresses a call mentions are those the ledger has for its names.
Addressed(call) == Resolve(call.target) # NoAddress /\ Resolve(call.subject) # NoAddress

\* The manager accepts the wallet as its operator; it refuses an extension it has.
Accepted(call) == /\ Addressed(call)
                  /\ OperatorOf(ManagerOf(call)) = Wallet
                  /\ call.op = "adapter" => Effect(call) \notin effects

Execute(k) ==
  LET call == CallOf(outputs.transactions[k]) IN
  /\ k \in Pending /\ Accepted(call)
  /\ effects' = effects \cup {Effect(call)}
  /\ chain' = IF call.op = "operator"
                THEN [chain EXCEPT ![Resolve(call.target)[2]].operator =
                        Resolve(call.subject)]
                ELSE chain
  /\ UNCHANGED <<outputs, cache, randoms, pc, stage, step, environment>>

OwnersStep == \E k \in Pending : Execute(k)

OwnersNext == Next \/ OwnersStep

OwnersSpec == Init /\ [][OwnersNext]_vars

\* The owners get round to every record.  A run goes on as in Deployment.
FairOwnersSpec == OwnersSpec /\ WF_vars(Progress) /\ WF_vars(OwnersStep)

-----------------------------------------------------------------------------
(***************************************************************************)
(* Properties.                                                             *)
(***************************************************************************)
\* setOperator is the last call of a script because the deployer can do nothing
\* after it.  Whatever runs were cut short and run again: a manager that the
\* deployer has lost is one all of whose other calls were made or are on the list,
\* as long as there is a list.
HandedOverLast ==
  tornWrites = 0 => \A s \in Stages : \A h \in Handovers(s) :
    LET manager == Resolve(Script[s][h].target) IN
    (manager[1] = "contract" /\ OperatorOf(manager) # Deployer) =>
      \A k \in CallSteps(s) : k < h =>
        Effect(Script[s][k]) \in effects \/ Deferrals(Script[s][k]) # {}

\* A deferred call of a stage that later runs skip is one the owners can execute, or
\* it has been executed: no record waits for an authority the wallet never gets.
DeferredIsExecutable ==
  \A s \in Stages : StageAlreadyFinished(s) =>
    \A k \in CallSteps(s) : Deferrals(Script[s][k]) # {} =>
      \/ Effect(Script[s][k]) \in effects
      \/ Accepted(Script[s][k])

\* The deployer's key has no power over a manager whose stage is finished, if its
\* script hands the manager over.
DeployerRetired ==
  \A s \in Stages : StageAlreadyFinished(s) =>
    \A h \in Handovers(s) : OperatorOf(Resolve(Script[s][h].target)) = Wallet

\* Power over a manager moves once, from the deployer to the wallet, by the setOperator of
\* a script: no interruption, repetition or act of the owners gives it back or moves it
\* again.  And what has taken effect stays in effect.
AuthorityMovesOnce ==
  [][/\ effects \subseteq effects'
     /\ \A i \in DOMAIN chain : chain'[i].operator # chain[i].operator =>
          /\ chain[i].operator = Deployer /\ chain'[i].operator = Wallet
          /\ AtStep("call") /\ Current.op = "operator"]_vars

\* Scripts, interrupted runs and owners together: every call of every script takes
\* effect in the end, the ones the deployer could no longer make included.
EventuallyEffective ==
  <>[](\A s \in Stages : \A k \in CallSteps(s) :
         LET call == Script[s][k] IN
         Addressed(call) /\ (Effect(call) \in effects \/ CallUnneeded(call)))

=============================================================================
