------------------------------ MODULE MCVerify ------------------------------
(***************************************************************************)
(* A short script and the Etherscan task: a stand-in, a token saved in two *)
(* writes, a manager and its extension saved in one, and one call.         *)
(***************************************************************************)
EXTENDS EtherscanVerify

MCNames == {"MODULE", "Token", "Manager", "Extension"}
MCTypes == {"Token", "Manager", "Extension"}

deploy(name, args, saver) ==
  [kind |-> "deploy", name |-> name, type |-> name, salt |-> "", fresh |-> FALSE,
   args |-> args, saver |-> saver]

TokenStage ==
  << [kind |-> "mock", name |-> "MODULE", value |-> "random", polyfill |-> TRUE],
     deploy("Token", <<"deployer">>, "write") >>
ManagerStage ==
  << deploy("Manager", <<"Token", "MODULE">>, "save"),
     deploy("Extension", <<"Manager">>, "save"),
     [kind |-> "call", op |-> "adapter", target |-> "Manager", subject |-> "Extension",
      deferrable |-> TRUE] >>

Scripts == <<TokenStage, ManagerStage>>
MCScript == [s \in 0..1 |-> Scripts[s + 1]]
=============================================================================
