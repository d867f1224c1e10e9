------------------------------ MODULE Keystore -------------------------------
(***************************************************************************)
(* The wallets of the command line: a file of the keystore directory for   *)
(* every name, and the commands of several processes that create, import,  *)
(* show and use them.  A command looks whether the file exists, and writes *)
(* it later, by truncating or creating it first; it may be killed between. *)
(***************************************************************************)
EXTENDS Naturals, FiniteSets

CONSTANTS
  Process,     \* commands, each of a process of its own
  Name,        \* names of wallets
  Imported,    \* private keys that are given to import
  Generate(_), \* the private key a process generates
  First(_)     \* of a set of names, the one the directory lists first

NoFile == "no file"
Torn == "torn"
NoName == "no name"
NoKey == "no key"

\* Private keys are generated once, and none of them is one of the values above.
ASSUME KeystoreAssumption ==
  /\ \A p \in Process : Generate(p) \notin Imported /\ \A q \in Process \ {p} : Generate(p) # Generate(q)
  /\ (Imported \union {Generate(p) : p \in Process}) \cap {NoFile, Torn, NoKey} = {}
  /\ \A S \in SUBSET Name : S # {} => First(S) \in S
  /\ NoName \notin Name

VARIABLES
  readable,  \* whether the keystore directory can be searched
  wallet,    \* content of each file: NoFile, Torn or a private key
  command,   \* "create", "import" or "use" of each process
  name,      \* the wallet it is about; NoName for the first one
  key,       \* the private key it has
  pc,        \* "start", "stat", "open", "write", "read", "ok", "error" or "killed"
  before     \* the processes that had ended well when each process started (for WalletsKept)

vars == <<readable, wallet, command, name, key, pc, before>>

Exists(n) == wallet[n] # NoFile

Init ==
  /\ readable \in BOOLEAN
  /\ wallet = [n \in Name |-> NoFile]
  /\ command \in [Process -> {"create", "import", "use"}]
  /\ name \in [Process -> Name \union {NoName}]
  /\ \A p \in Process : command[p] # "use" => name[p] # NoName
  /\ key = [p \in Process |-> NoKey]
  /\ pc = [p \in Process |-> "start"]
  /\ before = [p \in Process |-> {}]

GoTo(p, l) == pc' = [pc EXCEPT ![p] = l]

\* WalletPath makes the directory; import derives the address of its key first.
Start(p) ==
  /\ pc[p] = "start"
  /\ GoTo(p, IF command[p] = "use" THEN "read" ELSE "stat")
  /\ \E k \in IF command[p] = "import" THEN Imported ELSE {NoKey} : key' = [key EXCEPT ![p] = k]
  /\ before' = [before EXCEPT ![p] = {q \in Process : pc[q] = "ok"}]
  /\ UNCHANGED <<readable, wallet, command, name>>

ImportOverwrites(p) ==   \* mutant: only create looks for the file
  command[p] = "import" \/ (readable /\ ~Exists(name[p]))

\* What a command takes for a name that is free: create insists on an error that says so,
\* import on any error.
TakenForFree(p) == IF readable THEN ~Exists(name[p]) ELSE command[p] = "import"

Stat(p) ==
  /\ pc[p] = "stat"
  /\ IF TakenForFree(p)
       THEN /\ GoTo(p, "open")
            /\ key' = [key EXCEPT ![p] = IF command[p] = "create" THEN Generate(p) ELSE @]
       ELSE GoTo(p, "error") /\ UNCHANGED key
  /\ UNCHANGED <<readable, wallet, command, name, before>>

\* os.WriteFile opens with O_TRUNC and without O_EXCL, then writes.
Open(p) ==
  /\ pc[p] = "open"
  /\ IF readable THEN wallet' = [wallet EXCEPT ![name[p]] = Torn] /\ GoTo(p, "write")
                 ELSE GoTo(p, "error") /\ UNCHANGED wallet
  /\ UNCHANGED <<readable, command, name, key, before>>

\* All wallet files are of one size: whichever is written last is there whole.
Write(p) ==
  /\ pc[p] = "write"
  /\ \/ wallet' = [wallet EXCEPT ![name[p]] = key[p]] /\ GoTo(p, "ok")
     \/ UNCHANGED wallet /\ GoTo(p, "error")
  /\ UNCHANGED <<readable, command, name, key, before>>

Killed(p) ==
  /\ pc[p] = "write" /\ GoTo(p, "killed")
  /\ UNCHANGED <<readable, wallet, command, name, key, before>>

\* PrivateKeyFromWallet without a name: the first file of the directory.
ChooseFirst(p) ==
  /\ pc[p] = "read" /\ name[p] = NoName
  /\ LET found == {n \in Name : readable /\ Exists(n)} IN
       IF found # {} THEN name' = [name EXCEPT ![p] = First(found)] /\ UNCHANGED pc
                     ELSE GoTo(p, "error") /\ UNCHANGED name
  /\ UNCHANGED <<readable, wallet, command, key, before>>

Parses(content) == content \notin {NoFile, Torn}

\* Export, and every command that signs.
Read(p) ==
  /\ pc[p] = "read" /\ name[p] # NoName
  /\ IF readable /\ Parses(wallet[name[p]])
       THEN key' = [key EXCEPT ![p] = wallet[name[p]]] /\ GoTo(p, "ok")
       ELSE GoTo(p, "error") /\ UNCHANGED key
  /\ UNCHANGED <<readable, wallet, command, name, before>>

Ended == (\A p \in Process : pc[p] \in {"ok", "error", "killed"}) /\ UNCHANGED vars

Next ==
  \/ \E p \in Process : Start(p) \/ Stat(p) \/ Open(p) \/ Write(p) \/ Killed(p) \/ ChooseFirst(p) \/ Read(p)
  \/ Ended

Spec == Init /\ [][Next]_vars
-----------------------------------------------------------------------------
(* Properties.                                                             *)

Writers(n) == {p \in Process : command[p] # "use" /\ name[p] = n}

\* Whoever uses a wallet has a whole private key that a command had for that name; and the key
\* of a command that has ended well is in its file, unless another command began before it had
\* ended: no command overwrites a wallet that was there when it began.
WalletsKept ==
  /\ \A p \in Process : command[p] = "use" /\ pc[p] = "ok" => \E q \in Writers(name[p]) : key[q] = key[p]
  /\ \A n \in Name : \A q \in Writers(n) :
       pc[q] = "ok" /\ (\A p \in Writers(n) \ {q} : pc[p] = "start" \/ q \in before[p]) => wallet[n] = key[q]
=============================================================================
