----------------------------- MODULE Deployment ------------------------------
(***************************************************************************)
(* DeployContracts and UpgradeStorage of the contract client: transactions *)
(* that deploy contracts and connect them, each sent when the receipt of   *)
(* the one before has been seen.  A transaction can be refused, executed   *)
(* late or with an error, and its receipt cannot always be fetched.        *)
(***************************************************************************)
EXTENDS Naturals, Sequences

CONSTANTS MaxFaults   \* requests that fail and transactions that are reverted

ASSUME DeploymentAssumption == MaxFaults \in Nat

VARIABLES
  upgrade,   \* whether UpgradeStorage runs, on an earlier deployment
  contracts, \* what is on the chain: the names of what has been deployed or set
  sent,      \* the transaction whose receipt is waited for
  status,    \* "none", "pending", "success" or "failed"
  next,      \* number of the next transaction
  client,    \* what the client under construction refers to, a set
  deployPc,  \* "send", "wait", "ok" or "error"
  faults     \* MaxFaults counts down

deployVars == <<upgrade, contracts, sent, status, next, client, deployPc, faults>>

\* The transactions of a run: what each sets, what it needs there, and the field it fills.
Deployed == <<
  [sets |-> "token", needs |-> {}, field |-> "Token"],
  [sets |-> "implementation", needs |-> {}, field |-> "StorageImpl"],
  [sets |-> "proxy", needs |-> {"implementation", "token"}, field |-> "Storage"],
  [sets |-> "minter", needs |-> {"token", "proxy"}, field |-> "none"],
  [sets |-> "access manager", needs |-> {"proxy"}, field |-> "AccessManager"],
  [sets |-> "proxy's access manager", needs |-> {"proxy", "access manager"}, field |-> "none"]>>

Upgraded == <<
  [sets |-> "new implementation", needs |-> {}, field |-> "newImplementationAddr"],
  [sets |-> "proxy's implementation", needs |-> {"proxy", "new implementation"}, field |-> "none"]>>

Steps == IF upgrade THEN Upgraded ELSE Deployed
Fault == faults > 0 /\ faults' = faults - 1

DeployInit ==
  /\ upgrade \in BOOLEAN
  /\ contracts = IF upgrade THEN {t.sets : t \in {Deployed[i] : i \in DOMAIN Deployed}} ELSE {}
  /\ sent = 0 /\ status = "none" /\ next = 1 /\ client = {} /\ deployPc = "send"
  /\ faults = MaxFaults

\* The call that sends it fails, or the next receipt is waited for.
Send ==
  /\ deployPc = "send" /\ next <= Len(Steps)
  /\ \/ Fault /\ deployPc' = "error" /\ UNCHANGED <<sent, status, next>>
     \/ deployPc' = "wait" /\ sent' = next /\ status' = "pending" /\ next' = next + 1 /\ UNCHANGED faults
  /\ UNCHANGED <<upgrade, contracts, client>>

\* The chain executes it: it fails when what it needs is not there, or for want of gas.
Mine ==
  /\ status = "pending"
  /\ \/ /\ Steps[sent].needs \subseteq contracts
        /\ status' = "success" /\ contracts' = contracts \union {Steps[sent].sets} /\ UNCHANGED faults
     \/ /\ (Fault \/ (~(Steps[sent].needs \subseteq contracts) /\ UNCHANGED faults))
        /\ status' = "failed" /\ UNCHANGED contracts
  /\ UNCHANGED <<upgrade, sent, next, client, deployPc>>

AnyReceipt == status \in {"success", "failed"}   \* mutant: the status is not looked at
Successful == status = "success"

\* WaitForTx: on to the next transaction, or an error.
Wait ==
  /\ deployPc = "wait" /\ status # "pending"
  /\ IF Successful
       THEN /\ client' = client \union ({Steps[sent].field} \ {"none"})
            /\ deployPc' = IF next > Len(Steps) THEN "ok" ELSE "send"
       ELSE deployPc' = "error" /\ UNCHANGED client
  /\ UNCHANGED <<upgrade, contracts, sent, status, next, faults>>

\* The receipt cannot be fetched; the transaction may be executed all the same.
WaitFails ==
  /\ deployPc = "wait" /\ Fault /\ deployPc' = "error"
  /\ UNCHANGED <<upgrade, contracts, sent, status, next, client>>

DeployEnded == deployPc \in {"ok", "error"} /\ status # "pending" /\ UNCHANGED deployVars

DeployNext == Send \/ Mine \/ Wait \/ WaitFails \/ DeployEnded

DeploySpec == DeployInit /\ [][DeployNext]_deployVars
-----------------------------------------------------------------------------
(* Properties.                                                             *)

\* A deployment or upgrade that returns without an error is complete on the chain, with every
\* address it promises; and no transaction is sent that refers to what is not there yet.
DeploymentTruth ==
  /\ deployPc = "ok" => /\ {Steps[i].sets : i \in DOMAIN Steps} \subseteq contracts
                  /\ client = {Steps[i].field : i \in DOMAIN Steps} \ {"none"}
  /\ deployPc = "wait" => Steps[sent].needs \subseteq contracts
=============================================================================
