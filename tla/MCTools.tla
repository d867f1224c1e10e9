------------------------------- MODULE MCTools -------------------------------
(* What is around the SDK: a behaviour is that of the wallet commands of three  *)
(* processes, or of the storage commands of one account, or of the deployment   *)
(* or upgrade of the contracts, or of a reader of the chain.                    *)
EXTENDS Keystore, Deployment, StorageCommands, ChainReader

VARIABLE mode

mcVars == <<mode, vars, commandVars, deployVars, readerVars>>
-----------------------------------------------------------------------------
KeyOf(p) == CASE p = 1 -> "k1" [] p = 2 -> "k2" [] p = 3 -> "k3"
FirstOf(S) == IF "a" \in S THEN "a" ELSE "b"

Trim == [w \in {"", " ", "bkt", " bkt ", "b", "f", " f", "dir/f", "out"} |->
           CASE w = " " -> "" [] w = " bkt " -> "bkt" [] w = " f" -> "f" [] OTHER -> w]
BaseOf == [w \in {"f", "dir/f", "out"} |-> IF w = "dir/f" THEN "f" ELSE w]
Lists == {<<>>, <<"bkt">>, <<" bkt ">>, <<"b">>, <<" ">>, <<"bkt", "f">>, <<" bkt ", "dir/f">>, <<"bkt", "f", "out">>}

\* An upload of two chunks, and one of their continuations; calldata with lists of other
\* lengths, a CID that does not parse, sizes that are no int64, and another method.
Block(d, s) == [cid |-> <<cidPrefix, d>>, size |-> s]
Uploaded == {<<[cid |-> "c0", size |-> 5, index |-> 0, blocks |-> <<Block("a", 3), Block("b", 2)>>],
               [cid |-> "c1", size |-> 3, index |-> 1, blocks |-> <<Block("b", 2)>>]>>,
             <<[cid |-> "c2", size |-> 7, index |-> 2, blocks |-> <<Block("c", 7)>>]>>}
Other == [method |-> "addFileChunks", cids |-> <<"c3">>, sizes |-> <<17>>, blockCIDs |-> <<<<<<"a">>>>>>, blockSizes |-> <<<<9>>>>, start |-> 15]
Others == {Other, [Other EXCEPT !.blockCIDs = <<>>], [Other EXCEPT !.sizes = <<>>], [Other EXCEPT !.blockSizes = <<<<>>>>],
           [Other EXCEPT !.cids = <<"invalid">>], [Other EXCEPT !.method = "other"]}
-----------------------------------------------------------------------------
MCInit ==
  /\ mode \in {"wallets", "commands", "contracts", "reader"}
  /\ Init /\ (mode # "wallets" => readable /\ command = [p \in Process |-> "create"] /\ name = [p \in Process |-> "a"])
  /\ CommandInit
  /\ DeployInit /\ (mode # "contracts" => ~upgrade)
  /\ ReaderInit /\ (mode # "reader" => kind = "blocks")

MCNext ==
  \/ mode = "wallets" /\ Next /\ UNCHANGED <<mode, commandVars, deployVars, readerVars>>
  \/ mode = "commands" /\ CommandNext /\ UNCHANGED <<mode, vars, deployVars, readerVars>>
  \/ mode = "contracts" /\ DeployNext /\ UNCHANGED <<mode, vars, commandVars, readerVars>>
  \/ mode = "reader" /\ ReaderNext /\ UNCHANGED <<mode, vars, commandVars, deployVars>>

MCSpec == MCInit /\ [][MCNext]_mcVars
=============================================================================
