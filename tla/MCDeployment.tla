---------------------------- MODULE MCDeployment ----------------------------
(***************************************************************************)
(* Small scripts with the shapes of the repository's: one of each kind of  *)
(* step, in the order in which stages 000, 009, 019 and 007 have them.     *)
(***************************************************************************)
EXTENDS Deployment

MCNames == {"TREASURY", "OPS", "MODULE", "Token", "VestingA", "VestingB",
            "Manager", "Extension"}
MCTypes == {"Token", "Vesting", "Manager", "Extension"}

deploy(name, type, salt, args, saver) ==
  [kind |-> "deploy", name |-> name, type |-> type, salt |-> salt,
   fresh |-> type = "Vesting" /\ NetworkConstant = "development",
   args |-> args, saver |-> saver]
mock(name, value, polyfill) ==
  [kind |-> "mock", name |-> name, value |-> value, polyfill |-> polyfill]
call(op, target, subject, deferrable) ==
  [kind |-> "call", op |-> op, target |-> target, subject |-> subject, deferrable |-> deferrable]

\* As 000: a stand-in, the token, two vestings of one type, two transfers.
Base == << mock("TREASURY", "deployer", FALSE),
           deploy("Token", "Token", "", <<"deployer">>, "write"),
           deploy("VestingA", "Vesting", "a", <<"Token", "TREASURY">>, "write"),
           deploy("VestingB", "Vesting", "b", <<"Token", "TREASURY">>, "save"),
           call("transfer", "Token", "deployer", FALSE),
           call("transfer", "Token", "VestingA", FALSE) >>

\* As 019: polyfills, a manager and its extension, the three calls.
Manager == << mock("OPS", "random", TRUE),
              mock("MODULE", "random", TRUE),
              deploy("Manager", "Manager", "", <<"MODULE", "deployer">>, "save"),
              deploy("Extension", "Extension", "", <<"Manager", "MODULE">>, "save"),
              call("adapter", "Manager", "Extension", TRUE),
              call("caller", "Extension", "OPS", TRUE),
              call("operator", "Manager", "TREASURY", TRUE) >>

Scripts == <<Base, <<>>, Manager>>
MCScript == [s \in 0..2 |-> Scripts[s + 1]]
MCRetired == {1}

\* As 007 and 012: an extension with a new mock and a manager without, and a call that
\* is sent whoever the operator is.  Their managers change hands outside of the scripts, if
\* at all; here the script does it.  If the ledger is torn afterwards, the next run finds
\* the same manager and deploys another extension, and the manager refuses it.
LateManager == << mock("OPS", "random", TRUE),
                  mock("MODULE", "random", TRUE),
                  deploy("Manager", "Manager", "", <<"deployer">>, "save"),
                  deploy("Extension", "Extension", "", <<"Manager", "MODULE">>, "save"),
                  call("adapter", "Manager", "Extension", FALSE),
                  call("caller", "Extension", "TREASURY", TRUE),
                  call("operator", "Manager", "OPS", TRUE) >>

\* Another extension of a manager that was handed over, whose call addExtension defers.
LateExtension == << deploy("Second", "Extension", "", <<"Manager">>, "save"),
                    call("adapter", "Manager", "Second", TRUE) >>

\* The last stage reads an address that no stage records.
FaultyScripts == <<Base, LateManager, LateExtension,
                   <<deploy("Third", "Extension", "", <<"MISSING">>, "write")>>>>
MCFaultyScript == [s \in 0..3 |-> FaultyScripts[s + 1]]
MCFaultyNames == MCNames \cup {"Second", "Third", "MISSING"}

\* The hypotheses of the theorems that are not about every script are true of these.
ASSUME HypothesesHold ==
  DeploymentsDiffer /\ CallsDiffer /\ CallsOnce /\ NothingFailsAfterDeferral
=============================================================================
