----------------------------- MODULE ToolsProofs ------------------------------
(***************************************************************************)
(* Proofs about what is around the SDK.  The wallets of the command line   *)
(* are kept, for any number of processes and any names: whoever uses a     *)
(* wallet has a key that a command had for that name, and no command       *)
(* overwrites a wallet that was there when it began.  A deployment or      *)
(* upgrade that returns without an error is complete, whatever failed.     *)
(* The storage commands show and download what was uploaded, or fail, for  *)
(* any arguments and flags.  A reader of the chain gets every answer under *)
(* its number, and from the calldata of any upload the chunks of it.       *)
(***************************************************************************)
EXTENDS Keystore, Deployment, StorageCommands, ChainReader, TLAPS

-----------------------------------------------------------------------------
(* Wallets: types and invariants *)

Writes(p) == command[p] # "use"

TypeInv ==
  /\ readable \in BOOLEAN /\ DOMAIN wallet = Name
  /\ command \in [Process -> {"create", "import", "use"}]
  /\ name \in [Process -> Name \union {NoName}]
  /\ DOMAIN key = Process
  /\ pc \in [Process -> {"start", "stat", "open", "write", "read", "ok", "error", "killed"}]
  /\ before \in [Process -> SUBSET Process]

\* The commands that write have a name and do not read; the others do nothing but read.
KindInv ==
  \A p \in Process :
    /\ Writes(p) => name[p] \in Name /\ pc[p] # "read"
    /\ ~Writes(p) => pc[p] \in {"start", "read", "ok", "error"}

\* The key that a command is about to write is a private key.
KeyInv ==
  \A p \in Process : Writes(p) =>
    /\ command[p] = "import" /\ pc[p] # "start" => key[p] \in Imported
    /\ command[p] = "create" /\ pc[p] \in {"open", "write"} => key[p] = Generate(p)

\* A command for the wallet n has ended well with the key k.
Had(n, k) == \E q \in Process : Writes(q) /\ name[q] = n /\ pc[q] = "ok" /\ key[q] = k

\* A whole wallet has the key of a command that has ended well, and whoever has read a wallet too.
WholeInv ==
  /\ \A n \in Name : wallet[n] \notin {NoFile, Torn} => Had(n, wallet[n])
  /\ \A p \in Process : ~Writes(p) /\ pc[p] = "ok" => Had(name[p], key[p])

\* What has been written is there, in a directory that can be searched.
ThereInv ==
  \A p \in Process : Writes(p) /\ pc[p] \in {"write", "ok"} => readable /\ Exists(name[p])

\* A command that began when another had ended well does not get beyond its look at the file.
BeforeInv ==
  /\ \A p \in Process : \A q \in before[p] : pc[q] = "ok" /\ pc[p] # "start"
  /\ \A p, q \in Process :
       Writes(p) /\ Writes(q) /\ name[p] = name[q] /\ q \in before[p] => pc[p] \in {"stat", "error"}

\* Every other command for the wallet of q has yet to begin, or began when q had ended.
Undisturbed(q) == \A p \in Writers(name[q]) \ {q} : pc[p] = "start" \/ q \in before[p]

\* The key of a command that has ended well is in its file.
KeptInv ==
  \A q \in Process : Writes(q) /\ pc[q] = "ok" /\ Undisturbed(q) => wallet[name[q]] = key[q]

KeystoreInv == TypeInv /\ KindInv /\ KeyInv /\ WholeInv /\ ThereInv /\ BeforeInv /\ KeptInv
-----------------------------------------------------------------------------
(* What a step changes *)

Step(r) == Start(r) \/ Stat(r) \/ Open(r) \/ Write(r) \/ Killed(r) \/ ChooseFirst(r) \/ Read(r)

\* A step is that of one command: it leaves the others alone, and what they are given.
LEMMA StepFrame ==
  ASSUME TypeInv, NEW r \in Process, Step(r)
  PROVE  /\ readable' = readable /\ command' = command /\ pc[r] \notin {"ok", "error", "killed"}
         /\ \A p \in Process : p # r => pc'[p] = pc[p] /\ key'[p] = key[p] /\ name'[p] = name[p] /\ before'[p] = before[p]
<1>. USE DEF TypeInv, GoTo
<1>1. CASE Start(r)
  BY <1>1 DEF Start
<1>2. CASE Stat(r)
  BY <1>2 DEF Stat
<1>3. CASE Open(r)
  BY <1>3 DEF Open
<1>4. CASE Write(r)
  BY <1>4 DEF Write
<1>5. CASE Killed(r)
  BY <1>5 DEF Killed
<1>6. CASE ChooseFirst(r)
  BY <1>6 DEF ChooseFirst
<1>7. CASE Read(r)
  BY <1>7 DEF Read
<1>. QED
  BY <1>1, <1>2, <1>3, <1>4, <1>5, <1>6, <1>7 DEF Step

LEMMA TypeStep ==
  ASSUME TypeInv, KindInv, NEW r \in Process, Step(r)
  PROVE  TypeInv'
<1>. USE DEF TypeInv, GoTo
<1>1. CASE Start(r)
  BY <1>1 DEF Start
<1>2. CASE Stat(r)
  BY <1>2 DEF Stat
<1>3. CASE Open(r)
  BY <1>3 DEF Open
<1>4. CASE Write(r)
  BY <1>4 DEF Write
<1>5. CASE Killed(r)
  BY <1>5 DEF Killed
<1>6. CASE ChooseFirst(r)
  <2>. DEFINE found == {n \in Name : readable /\ Exists(n)}
  <2>1. found # {} => First(found) \in Name
    <3>1. found \in SUBSET Name
      OBVIOUS
    <3>. QED
      BY <3>1, KeystoreAssumption
  <2>2. \/ found # {} /\ name' = [name EXCEPT ![r] = First(found)] /\ pc' = pc
        \/ name' = name /\ pc' = [pc EXCEPT ![r] = "error"]
    BY <1>6 DEF ChooseFirst
  <2>3. UNCHANGED <<readable, wallet, command, key, before>>
    BY <1>6 DEF ChooseFirst
  <2>. HIDE DEF found
  <2>4. name' \in [Process -> Name \union {NoName}]
    BY <2>1, <2>2
  <2>5. pc' \in [Process -> {"start", "stat", "open", "write", "read", "ok", "error", "killed"}]
    BY <2>2
  <2>. QED
    BY <2>3, <2>4, <2>5
<1>7. CASE Read(r)
  BY <1>7 DEF Read
<1>. QED
  BY <1>1, <1>2, <1>3, <1>4, <1>5, <1>6, <1>7 DEF Step

\* The steps of a command that writes, and of one that reads, with what they do to its place,
\* its key and the file.
LEMMA WriterStep ==
  ASSUME TypeInv, KindInv, NEW r \in Process, Writes(r), Step(r)
  PROVE  /\ name' = name
         /\ \/ /\ pc[r] = "start" /\ pc'[r] = "stat" /\ wallet' = wallet
               /\ before'[r] = {q \in Process : pc[q] = "ok"}
               /\ command[r] = "import" => key'[r] \in Imported
            \/ /\ pc[r] = "stat" /\ before' = before /\ wallet' = wallet
               /\ pc'[r] = "error" \/ (pc'[r] = "open" /\ TakenForFree(r))
               /\ command[r] = "import" => key'[r] = key[r]
               /\ command[r] = "create" /\ pc'[r] = "open" => key'[r] = Generate(r)
            \/ /\ pc[r] = "open" /\ before' = before /\ key' = key
               /\ \/ readable /\ pc'[r] = "write" /\ wallet' = [wallet EXCEPT ![name[r]] = Torn]
                  \/ pc'[r] = "error" /\ wallet' = wallet
            \/ /\ pc[r] = "write" /\ before' = before /\ key' = key
               /\ \/ pc'[r] = "ok" /\ wallet' = [wallet EXCEPT ![name[r]] = key[r]]
                  \/ pc'[r] \in {"error", "killed"} /\ wallet' = wallet
<1>. USE DEF TypeInv, GoTo, Writes
<1>1. CASE Start(r)
  BY <1>1 DEF Start
<1>2. CASE Stat(r)
  BY <1>2 DEF Stat
<1>3. CASE Open(r)
  BY <1>3 DEF Open
<1>4. CASE Write(r)
  BY <1>4 DEF Write
<1>5. CASE Killed(r)
  BY <1>5 DEF Killed
<1>6. CASE ChooseFirst(r) \/ Read(r)
  BY <1>6 DEF ChooseFirst, Read, KindInv
<1>. QED
  BY <1>1, <1>2, <1>3, <1>4, <1>5, <1>6 DEF Step

LEMMA ReaderStep ==
  ASSUME TypeInv, KindInv, NEW r \in Process, ~Writes(r), Step(r)
  PROVE  /\ wallet' = wallet
         /\ \A p \in Process : p # r => key'[p] = key[p]
         /\ \/ pc[r] = "start" /\ pc'[r] = "read"
            \/ pc[r] = "read" /\ pc'[r] \in {"read", "error"} /\ before' = before
            \/ /\ pc[r] = "read" /\ pc'[r] = "ok" /\ name' = name /\ before' = before
               /\ name[r] \in Name /\ wallet[name[r]] \notin {NoFile, Torn} /\ key'[r] = wallet[name[r]]
<1>. USE DEF TypeInv, GoTo, Writes
<1>1. CASE Start(r)
  BY <1>1 DEF Start
<1>2. CASE Stat(r) \/ Open(r) \/ Write(r) \/ Killed(r)
  BY <1>2 DEF Stat, Open, Write, Killed, KindInv
<1>3. CASE ChooseFirst(r)
  BY <1>3 DEF ChooseFirst
<1>4. CASE Read(r)
  BY <1>4 DEF Read, Parses
<1>. QED
  BY <1>1, <1>2, <1>3, <1>4 DEF Step

\* A command that writes keeps its name, and one that has ended well keeps all it has.
LEMMA Settled ==
  ASSUME TypeInv, KindInv, NEW r \in Process, Step(r), NEW q \in Process
  PROVE  /\ Writes(q)' = Writes(q)
         /\ Writes(q) => name'[q] = name[q]
         /\ pc[q] = "ok" => pc'[q] = "ok" /\ key'[q] = key[q] /\ name'[q] = name[q]
         /\ pc'[q] = "start" => pc[q] = "start" /\ q # r
<1>1. Writes(q)' = Writes(q)
  BY StepFrame DEF Writes
<1>2. CASE q # r
  BY <1>1, <1>2, StepFrame
<1>3. CASE q = r
  <2>1. pc[q] # "ok"
    BY <1>3, StepFrame
  <2>2. Writes(q) => name'[q] = name[q]
    BY <1>3, WriterStep
  <2>3. pc'[q] # "start"
    BY <1>3, WriterStep, ReaderStep
  <2>. QED
    BY <1>1, <2>1, <2>2, <2>3
<1>. QED
  BY <1>2, <1>3
-----------------------------------------------------------------------------
(* Every step keeps the invariant *)

LEMMA KindStep ==
  ASSUME TypeInv, KindInv, NEW r \in Process, Step(r)
  PROVE  KindInv'
<1>1. ASSUME NEW p \in Process
      PROVE  /\ Writes(p)' => name'[p] \in Name /\ pc'[p] # "read"
             /\ ~Writes(p)' => pc'[p] \in {"start", "read", "ok", "error"}
  <2>1. CASE p # r
    BY <2>1, Settled, StepFrame DEF KindInv
  <2>2. CASE p = r /\ Writes(r)
    BY <2>2, Settled, WriterStep DEF KindInv
  <2>3. CASE p = r /\ ~Writes(r)
    BY <2>3, Settled, ReaderStep
  <2>. QED
    BY <2>1, <2>2, <2>3
<1>. QED
  BY <1>1 DEF KindInv

LEMMA KeyStep ==
  ASSUME TypeInv, KindInv, KeyInv, NEW r \in Process, Step(r)
  PROVE  KeyInv'
<1>1. ASSUME NEW p \in Process, Writes(p)
      PROVE  /\ command'[p] = "import" /\ pc'[p] # "start" => key'[p] \in Imported
             /\ command'[p] = "create" /\ pc'[p] \in {"open", "write"} => key'[p] = Generate(p)
  <2>1. CASE p # r
    BY <1>1, <2>1, StepFrame DEF KeyInv
  <2>2. CASE p = r
    <3>1. command' = command
      BY StepFrame
    <3>2. CASE pc[r] = "start"
      BY <1>1, <2>2, <3>1, <3>2, WriterStep
    <3>3. CASE pc[r] = "stat"
      BY <1>1, <2>2, <3>1, <3>3, WriterStep DEF KeyInv
    <3>4. CASE pc[r] = "open"
      BY <1>1, <2>2, <3>1, <3>4, WriterStep DEF KeyInv
    <3>5. CASE pc[r] = "write"
      BY <1>1, <2>2, <3>1, <3>5, WriterStep DEF KeyInv
    <3>. QED
      BY <1>1, <2>2, <3>2, <3>3, <3>4, <3>5, WriterStep
  <2>. QED
    BY <2>1, <2>2
<1>. QED
  BY <1>1, Settled DEF KeyInv

\* The key that is written is none of the marks of a file that is not whole.
LEMMA KeyIsKey ==
  ASSUME TypeInv, KeyInv, NEW r \in Process, Writes(r), pc[r] = "write"
  PROVE  key[r] \notin {NoFile, Torn}
<1>1. command[r] = "import" \/ command[r] = "create"
  BY DEF Writes, TypeInv
<1>2. key[r] \in Imported \/ key[r] = Generate(r)
  BY <1>1 DEF KeyInv
<1>. QED
  BY <1>2, KeystoreAssumption

\* What a step does to the file of a wallet.
LEMMA FileStep ==
  ASSUME TypeInv, KindInv, KeyInv, NEW r \in Process, Step(r), NEW n \in Name
  PROVE  \/ wallet'[n] = wallet[n]
         \/ /\ Writes(r) /\ name[r] = n /\ pc[r] = "open" /\ pc'[r] = "write" /\ readable
            /\ wallet'[n] = Torn
         \/ /\ Writes(r) /\ name[r] = n /\ pc[r] = "write" /\ pc'[r] = "ok"
            /\ wallet'[n] = key[r] /\ key'[r] = key[r] /\ key[r] \notin {NoFile, Torn}
<1>1. CASE ~Writes(r)
  BY <1>1, ReaderStep
<1>2. CASE Writes(r)
  <2>1. name[r] \in Name /\ DOMAIN wallet = Name
    BY <1>2 DEF KindInv, TypeInv
  <2>2. CASE wallet' = wallet
    BY <2>2
  <2>3. CASE pc[r] = "open" /\ readable /\ pc'[r] = "write" /\ wallet' = [wallet EXCEPT ![name[r]] = Torn]
    BY <1>2, <2>1, <2>3
  <2>4. CASE pc[r] = "write" /\ key' = key /\ pc'[r] = "ok" /\ wallet' = [wallet EXCEPT ![name[r]] = key[r]]
    BY <1>2, <2>1, <2>4, KeyIsKey
  <2>. QED
    BY <1>2, <2>2, <2>3, <2>4, WriterStep
<1>. QED
  BY <1>1, <1>2

LEMMA WholeStep ==
  ASSUME TypeInv, KindInv, KeyInv, WholeInv, NEW r \in Process, Step(r)
  PROVE  WholeInv'
<1>1. ASSUME NEW n, NEW k, Had(n, k)
      PROVE  Had(n, k)'
  <2>1. PICK q \in Process : Writes(q) /\ name[q] = n /\ pc[q] = "ok" /\ key[q] = k
    BY <1>1 DEF Had
  <2>2. Writes(q)' /\ name'[q] = n /\ pc'[q] = "ok" /\ key'[q] = k
    BY <2>1, Settled
  <2>. QED
    BY <2>2 DEF Had
<1>2. ASSUME NEW n \in Name, wallet'[n] \notin {NoFile, Torn}
      PROVE  Had(n, wallet[n])'
  <2>1. CASE wallet'[n] = wallet[n]
    <3>1. Had(n, wallet[n])
      BY <1>2, <2>1 DEF WholeInv
    <3>2. \E q \in Process : Writes(q)' /\ name'[q] = n /\ pc'[q] = "ok" /\ key'[q] = wallet[n]
      BY <1>1, <3>1 DEF Had
    <3>. QED
      BY <2>1, <3>2 DEF Had
  <2>2. CASE Writes(r) /\ name[r] = n /\ pc'[r] = "ok" /\ wallet'[n] = key[r] /\ key'[r] = key[r]
    <3>1. Writes(r)' /\ name'[r] = n
      BY <2>2, Settled
    <3>. QED
      BY <2>2, <3>1 DEF Had
  <2>. QED
    BY <1>2, <2>1, <2>2, FileStep
<1>3. ASSUME NEW p \in Process, ~Writes(p), pc'[p] = "ok"
      PROVE  Had(name[p], key[p])'
  <2>1. Had(name[p], key'[p]) /\ name'[p] = name[p]
    <3>1. CASE pc[p] = "ok"
      BY <1>3, <3>1, Settled DEF WholeInv
    <3>2. CASE pc[p] # "ok"
      <4>1. p = r
        BY <1>3, <3>2, StepFrame
      <4>. QED
        BY <1>3, <4>1, ReaderStep DEF WholeInv
    <3>. QED
      BY <3>1, <3>2
  <2>2. PICK q \in Process : Writes(q) /\ name[q] = name[p] /\ pc[q] = "ok" /\ key[q] = key'[p]
    BY <2>1 DEF Had
  <2>3. Writes(q)' /\ name'[q] = name'[p] /\ pc'[q] = "ok" /\ key'[q] = key'[p]
    BY <2>1, <2>2, Settled
  <2>. QED
    BY <2>3 DEF Had
<1>4. \A p \in Process : Writes(p)' = Writes(p)
  BY Settled
<1>. QED
  BY <1>2, <1>3, <1>4 DEF WholeInv

LEMMA ThereStep ==
  ASSUME TypeInv, KindInv, KeyInv, ThereInv, NEW r \in Process, Step(r)
  PROVE  ThereInv'
<1>1. ASSUME NEW p \in Process, Writes(p), pc'[p] \in {"write", "ok"}
      PROVE  readable' /\ wallet'[name'[p]] # NoFile
  <2>1. name'[p] = name[p] /\ name[p] \in Name /\ readable' = readable
    BY <1>1, Settled, StepFrame DEF KindInv
  <2>2. CASE pc[p] \in {"write", "ok"}
    <3>1. readable /\ wallet[name[p]] # NoFile
      BY <1>1, <2>2 DEF ThereInv, Exists
    <3>2. wallet'[name[p]] = wallet[name[p]] \/ wallet'[name[p]] = Torn \/ wallet'[name[p]] # NoFile
      BY <2>1, FileStep
    <3>. QED
      BY <2>1, <3>1, <3>2 DEF NoFile, Torn
  <2>3. CASE pc[p] \notin {"write", "ok"}
    <3>1. p = r
      BY <1>1, <2>3, StepFrame
    <3>2. readable /\ wallet' = [wallet EXCEPT ![name[p]] = Torn]
      BY <1>1, <2>3, <3>1, WriterStep
    <3>. QED
      BY <2>1, <3>2 DEF NoFile, Torn, TypeInv
  <2>. QED
    BY <2>2, <2>3
<1>. QED
  BY <1>1, Settled DEF ThereInv, Exists

LEMMA BeforeStep ==
  ASSUME TypeInv, KindInv, ThereInv, BeforeInv, NEW r \in Process, Step(r)
  PROVE  BeforeInv'
<1>1. ASSUME NEW p \in Process, NEW q \in before'[p]
      PROVE  /\ q \in Process /\ pc'[q] = "ok" /\ pc'[p] # "start"
             /\ Writes(p) /\ Writes(q) /\ name'[p] = name'[q] => pc'[p] \in {"stat", "error"}
  <2>1. CASE q \in before[p]
    <3>1. q \in Process /\ pc[q] = "ok" /\ pc[p] # "start"
      BY <2>1 DEF BeforeInv, TypeInv
    <3>2. pc'[q] = "ok" /\ pc'[p] # "start"
      BY <3>1, Settled
    <3>3. ASSUME Writes(p), Writes(q), name'[p] = name'[q]
          PROVE  pc'[p] \in {"stat", "error"}
      <4>1. name[p] = name[q]
        BY <3>1, <3>3, Settled
      <4>2. pc[p] \in {"stat", "error"}
        BY <2>1, <3>1, <3>3, <4>1 DEF BeforeInv
      <4>3. readable /\ Exists(name[p])
        BY <3>1, <3>3, <4>1 DEF ThereInv
      <4>4. ~TakenForFree(p)
        BY <4>3 DEF TakenForFree
      <4>5. CASE p # r
        BY <4>2, <4>5, StepFrame
      <4>6. CASE p = r
        BY <3>3, <4>2, <4>4, <4>6, WriterStep
      <4>. QED
        BY <4>5, <4>6
    <3>. QED
      BY <3>1, <3>2, <3>3
  <2>2. CASE q \notin before[p]
    <3>1. p = r
      BY <1>1, <2>2, StepFrame
    <3>2. Start(p)
      BY <1>1, <2>2, <3>1
      DEF Step, Stat, Open, Write, Killed, ChooseFirst, Read
    <3>3. before'[p] = {o \in Process : pc[o] = "ok"} /\ pc'[p] \in {"stat", "read"}
      BY <3>2 DEF Start, GoTo, TypeInv
    <3>4. q \in Process /\ pc[q] = "ok"
      BY <1>1, <3>3
    <3>5. pc'[q] = "ok"
      BY <3>4, Settled
    <3>6. Writes(p) => pc'[p] = "stat"
      BY <3>2 DEF Start, GoTo, TypeInv, Writes
    <3>. QED
      BY <3>3, <3>4, <3>5, <3>6
  <2>. QED
    BY <2>1, <2>2
<1>2. \A p \in Process : Writes(p)' = Writes(p)
  BY Settled
<1>. QED
  BY <1>1, <1>2 DEF BeforeInv

\* No command that could overwrite the wallet of one that has ended well is undetected: it
\* began before that one had ended.
LEMMA KeptStep ==
  ASSUME TypeInv, KindInv, KeyInv, BeforeInv, KeptInv, NEW r \in Process, Step(r)
  PROVE  KeptInv'
<1>1. ASSUME NEW q \in Process, Writes(q), pc'[q] = "ok", Undisturbed(q)'
      PROVE  wallet'[name'[q]] = key'[q]
  <2>1. name'[q] = name[q] /\ name[q] \in Name
    BY <1>1, Settled DEF KindInv
  <2>2. CASE pc[q] # "ok"
    <3>1. q = r
      BY <1>1, <2>2, StepFrame
    <3>2. wallet' = [wallet EXCEPT ![name[q]] = key[q]] /\ key' = key
      BY <1>1, <2>2, <3>1, WriterStep
    <3>. QED
      BY <2>1, <3>2 DEF TypeInv
  <2>3. CASE pc[q] = "ok"
    <3>1. q # r /\ key'[q] = key[q]
      BY <2>3, Settled, StepFrame
    <3>2. ASSUME NEW p \in Process, Writes(p), name[p] = name[q], p # q
          PROVE  (pc[p] = "start" \/ q \in before[p]) /\ (pc'[p] = "start" \/ q \in before'[p])
      <4>1. Writes(p)' /\ name'[p] = name'[q]
        BY <2>1, <3>2, Settled
      <4>2. pc'[p] = "start" \/ q \in before'[p]
        BY <1>1, <3>2, <4>1 DEF Undisturbed, Writers, Writes
      <4>3. CASE pc'[p] = "start"
        BY <4>3, Settled
      <4>4. CASE p # r
        BY <4>2, <4>4, StepFrame
      <4>5. CASE p = r
        BY <3>2, <4>2, <4>5, WriterStep
      <4>. QED
        BY <4>2, <4>4, <4>5
    <3>3. Undisturbed(q)
      BY <3>2 DEF Undisturbed, Writers, Writes
    <3>4. wallet[name[q]] = key[q]
      BY <1>1, <2>3, <3>3 DEF KeptInv
    <3>5. wallet'[name[q]] = wallet[name[q]]
      <4>1. ASSUME Writes(r), name[r] = name[q], pc[r] \in {"open", "write"}
            PROVE  FALSE
        <5>1. q \in before[r]
          BY <3>1, <3>2, <4>1
        <5>. QED
          BY <1>1, <4>1, <5>1 DEF BeforeInv
      <4>. QED
        BY <2>1, <4>1, FileStep
    <3>. QED
      BY <2>1, <3>1, <3>4, <3>5
  <2>. QED
    BY <2>2, <2>3
<1>. QED
  BY <1>1, Settled DEF KeptInv

LEMMA KeystoreInvInit == Init => KeystoreInv
<1>. SUFFICES ASSUME Init PROVE KeystoreInv
  OBVIOUS
<1>. USE DEF Init
<1>1. TypeInv
  BY DEF TypeInv
<1>2. KindInv
  BY DEF KindInv, Writes
<1>3. KeyInv /\ ThereInv /\ BeforeInv /\ KeptInv
  BY DEF KeyInv, ThereInv, BeforeInv, KeptInv
<1>4. WholeInv
  BY DEF WholeInv
<1>. QED
  BY <1>1, <1>2, <1>3, <1>4 DEF KeystoreInv

LEMMA KeystoreInvNext == KeystoreInv /\ [Next]_vars => KeystoreInv'
<1>. SUFFICES ASSUME KeystoreInv, [Next]_vars PROVE KeystoreInv'
  OBVIOUS
<1>1. ASSUME NEW r \in Process, Step(r) PROVE KeystoreInv'
  BY <1>1, TypeStep, KindStep, KeyStep, WholeStep, ThereStep, BeforeStep, KeptStep DEF KeystoreInv
<1>2. CASE UNCHANGED vars
  BY <1>2
  DEF vars, KeystoreInv, TypeInv, KindInv, KeyInv, WholeInv, ThereInv, BeforeInv, KeptInv, Writes, Writers,
      Had, Undisturbed, Exists
<1>3. (\E r \in Process : Step(r)) \/ UNCHANGED vars
  BY DEF Next, Ended, Step
<1>. QED
  BY <1>1, <1>2, <1>3

\* Whoever uses a wallet has a whole private key that a command had for that name; and no
\* command overwrites a wallet that was there when it began, so that the key of one that has
\* ended well stays in its file unless another had begun before.
THEOREM WalletsStayKept == Spec => []WalletsKept
<1>1. KeystoreInv => WalletsKept
  <2>. SUFFICES ASSUME KeystoreInv PROVE WalletsKept
    OBVIOUS
  <2>1. ASSUME NEW p \in Process, command[p] = "use", pc[p] = "ok"
        PROVE  \E q \in Writers(name[p]) : key[q] = key[p]
    BY <2>1 DEF KeystoreInv, WholeInv, Had, Writes, Writers
  <2>2. ASSUME NEW n \in Name, NEW q \in Writers(n), pc[q] = "ok",
               \A p \in Writers(n) \ {q} : pc[p] = "start" \/ q \in before[p]
        PROVE  wallet[n] = key[q]
    <3>1. q \in Process /\ Writes(q) /\ name[q] = n
      BY DEF Writers, Writes
    <3>2. Undisturbed(q)
      BY <2>2, <3>1 DEF Undisturbed
    <3>. QED
      BY <2>2, <3>1, <3>2 DEF KeystoreInv, KeptInv
  <2>. QED
    BY <2>1, <2>2 DEF WalletsKept
<1>. QED
  BY <1>1, KeystoreInvInit, KeystoreInvNext, PTL DEF Spec

-----------------------------------------------------------------------------
(* Deployments: what is on the chain, and what the client knows of it *)

SetBy(k) == {Steps[i].sets : i \in 1..k}
FilledBy(k) == {Steps[i].field : i \in 1..k} \ {"none"}

\* What is on the chain before the first transaction.
Earlier == IF upgrade THEN {Deployed[i].sets : i \in DOMAIN Deployed} ELSE {}

DeployTypeInv ==
  /\ upgrade \in BOOLEAN
  /\ sent \in 0..Len(Steps) /\ next = sent + 1
  /\ status \in {"none", "pending", "success", "failed"} /\ (status = "none" <=> sent = 0)
  /\ deployPc \in {"send", "wait", "ok", "error"}

\* Everything up to the transaction that is waited for is on the chain, and so is that one
\* when its receipt says so.
ChainHasInv ==
  /\ Earlier \subseteq contracts
  /\ deployPc \in {"send", "ok"} => SetBy(sent) \subseteq contracts
  /\ deployPc = "wait" => sent > 0 /\ SetBy(sent - 1) \subseteq contracts
  /\ deployPc = "wait" /\ status = "success" => SetBy(sent) \subseteq contracts

\* The client has the addresses of the contracts whose receipts it has seen.
ClientHasInv ==
  /\ deployPc \in {"send", "ok"} => client = FilledBy(sent)
  /\ deployPc = "wait" => client = FilledBy(sent - 1)
  /\ deployPc = "ok" => sent = Len(Steps)

DeployInv == DeployTypeInv /\ ChainHasInv /\ ClientHasInv
-----------------------------------------------------------------------------
\* The transactions come in an order in which each finds what it refers to.
LEMMA NeedsComeFirst ==
  ASSUME upgrade \in BOOLEAN, NEW i \in 1..Len(Steps)
  PROVE  Steps[i].needs \subseteq Earlier \union SetBy(i - 1)
<1>1. \A j \in 1..(i - 1) : Steps[j].sets \in SetBy(i - 1)
  BY DEF SetBy
<1>2. CASE upgrade
  <2>1. Earlier = {Deployed[k].sets : k \in DOMAIN Deployed} /\ 3 \in DOMAIN Deployed /\ Deployed[3].sets = "proxy"
    BY <1>2 DEF Earlier, Deployed
  <2>2. "proxy" \in Earlier
    BY <2>1
  <2>3. /\ Steps[1].sets = "new implementation"
        /\ Steps[1].needs = {} /\ Steps[2].needs = {"proxy", "new implementation"}
    BY <1>2 DEF Steps, Upgraded
  <2>4. i = 1 \/ i = 2
    <3>1. Len(Steps) = 2
      BY <1>2 DEF Steps, Upgraded
    <3>. QED
      BY <3>1
  <2>5. CASE i = 1
    BY <2>3, <2>5
  <2>6. CASE i = 2
    <3>1. 1 \in 1..(i - 1)
      BY <2>6
    <3>. QED
      BY <1>1, <2>2, <2>3, <2>6, <3>1
  <2>. QED
    BY <2>4, <2>5, <2>6
<1>3. CASE ~upgrade
  <2>1. /\ Steps[1].sets = "token" /\ Steps[2].sets = "implementation" /\ Steps[3].sets = "proxy"
        /\ Steps[5].sets = "access manager"
    BY <1>3 DEF Steps, Deployed
  <2>2. /\ Steps[1].needs = {} /\ Steps[2].needs = {} /\ Steps[3].needs = {"implementation", "token"}
        /\ Steps[4].needs = {"token", "proxy"} /\ Steps[5].needs = {"proxy"}
        /\ Steps[6].needs = {"proxy", "access manager"}
    BY <1>3 DEF Steps, Deployed
  <2>3. i \in {1, 2} \/ i \in {3, 4, 5, 6}
    <3>1. Len(Steps) = 6
      BY <1>3 DEF Steps, Deployed
    <3>. QED
      BY <3>1
  <2>4. CASE i \in {1, 2}
    BY <2>2, <2>4
  <2>5. CASE i \in {3, 4, 5, 6}
    <3>1. {1, 2} \subseteq 1..(i - 1) /\ (i \in {4, 5, 6} => 3 \in 1..(i - 1)) /\ (i = 6 => 5 \in 1..(i - 1))
      BY <2>5
    <3>2. {"token", "implementation"} \subseteq SetBy(i - 1)
      BY <1>1, <2>1, <3>1
    <3>3. (i \in {4, 5, 6} => "proxy" \in SetBy(i - 1)) /\ (i = 6 => "access manager" \in SetBy(i - 1))
      BY <1>1, <2>1, <3>1
    <3>. QED
      BY <2>2, <2>5, <3>2, <3>3
  <2>. QED
    BY <2>3, <2>4, <2>5
<1>. QED
  BY <1>2, <1>3

\* One more transaction sets one more name, and fills at most one more field.
LEMMA OneMore ==
  ASSUME NEW k \in Nat \ {0}
  PROVE  /\ SetBy(k) = SetBy(k - 1) \union {Steps[k].sets}
         /\ FilledBy(k) = FilledBy(k - 1) \union ({Steps[k].field} \ {"none"})
<1>1. 1..k = (1..(k - 1)) \union {k}
  OBVIOUS
<1>. QED
  BY <1>1 DEF SetBy, FilledBy

LEMMA StepsLength ==
  ASSUME upgrade \in BOOLEAN
  PROVE  Len(Steps) \in Nat /\ Len(Steps) > 0 /\ DOMAIN Steps = 1..Len(Steps)
<1>1. CASE upgrade
  BY <1>1 DEF Steps, Upgraded
<1>2. CASE ~upgrade
  BY <1>2 DEF Steps, Deployed
<1>. QED
  BY <1>1, <1>2

LEMMA DeployInvInit == DeployInit => DeployInv
<1>. SUFFICES ASSUME DeployInit PROVE DeployInv
  OBVIOUS
<1>1. DeployTypeInv
  BY StepsLength DEF DeployInit, DeployTypeInv
<1>2. Earlier = contracts
  <2>1. CASE upgrade
    BY <2>1 DEF DeployInit, Earlier
  <2>2. CASE ~upgrade
    BY <2>2 DEF DeployInit, Earlier
  <2>. QED
    BY <2>1, <2>2
<1>3. SetBy(0) = {} /\ FilledBy(0) = {}
  BY DEF SetBy, FilledBy
<1>4. sent = 0 /\ deployPc = "send" /\ client = {}
  BY DEF DeployInit
<1>. QED
  BY <1>1, <1>2, <1>3, <1>4 DEF DeployInv, ChainHasInv, ClientHasInv

\* No step changes the plan.
LEMMA PlanFrame ==
  ASSUME UNCHANGED upgrade
  PROVE  /\ Steps' = Steps /\ Earlier' = Earlier
         /\ \A k : SetBy(k)' = SetBy(k) /\ FilledBy(k)' = FilledBy(k)
  BY DEF Steps, Earlier, SetBy, FilledBy

LEMMA DeployInvNext == DeployInv /\ [DeployNext]_deployVars => DeployInv'
<1>. SUFFICES ASSUME DeployInv, [DeployNext]_deployVars PROVE DeployInv'
  OBVIOUS
<1>1. DeployTypeInv /\ ChainHasInv /\ ClientHasInv
  BY DEF DeployInv
<1>2. Len(Steps) \in Nat /\ Len(Steps) > 0
  BY <1>1, StepsLength DEF DeployTypeInv
<1>3. sent \in Nat /\ sent <= Len(Steps) /\ next = sent + 1
  BY <1>1, <1>2 DEF DeployTypeInv
<1>4. CASE Send
  <2>1. Steps' = Steps /\ Earlier' = Earlier /\ \A k : SetBy(k)' = SetBy(k) /\ FilledBy(k)' = FilledBy(k)
    BY <1>4, PlanFrame DEF Send
  <2>2. CASE deployPc' = "error" /\ UNCHANGED <<sent, status, next>>
    BY <1>1, <1>4, <2>1, <2>2 DEF Send, DeployInv, DeployTypeInv, ChainHasInv, ClientHasInv
  <2>3. CASE deployPc' = "wait" /\ sent' = next /\ status' = "pending" /\ next' = next + 1
    <3>1. sent' = sent + 1 /\ sent' \in 0..Len(Steps) /\ sent' - 1 = sent /\ deployPc = "send"
          /\ UNCHANGED <<upgrade, contracts, client>>
      BY <1>2, <1>3, <1>4, <2>3 DEF Send
    <3>2. DeployTypeInv'
      BY <1>1, <1>3, <2>1, <2>3, <3>1 DEF DeployTypeInv
    <3>3. SetBy(sent - 1)' \subseteq contracts' /\ client' = FilledBy(sent - 1)'
      BY <1>1, <2>1, <3>1 DEF ChainHasInv, ClientHasInv
    <3>. QED
      BY <1>1, <1>3, <2>1, <2>3, <3>1, <3>2, <3>3 DEF DeployInv, ChainHasInv, ClientHasInv
  <2>. QED
    BY <1>4, <2>2, <2>3 DEF Send
<1>5. CASE Mine
  <2>1. Steps' = Steps /\ Earlier' = Earlier /\ \A k : SetBy(k)' = SetBy(k) /\ FilledBy(k)' = FilledBy(k)
    BY <1>5, PlanFrame DEF Mine
  <2>2. /\ UNCHANGED <<upgrade, sent, next, client, deployPc>> /\ status = "pending"
        /\ \/ status' = "success" /\ contracts' = contracts \union {Steps[sent].sets}
           \/ status' = "failed" /\ contracts' = contracts
    BY <1>5 DEF Mine
  <2>3. DeployTypeInv' /\ sent > 0
    BY <1>1, <1>3, <2>1, <2>2 DEF DeployTypeInv
  <2>4. SetBy(sent) = SetBy(sent - 1) \union {Steps[sent].sets}
    BY <1>3, <2>3, OneMore
  <2>. QED
    BY <1>1, <2>1, <2>2, <2>3, <2>4 DEF DeployInv, ChainHasInv, ClientHasInv
<1>6. CASE Wait
  <2>1. Steps' = Steps /\ Earlier' = Earlier /\ \A k : SetBy(k)' = SetBy(k) /\ FilledBy(k)' = FilledBy(k)
    BY <1>6, PlanFrame DEF Wait
  <2>2. /\ UNCHANGED <<upgrade, contracts, sent, status, next>> /\ deployPc = "wait"
        /\ \/ /\ status = "success" /\ client' = client \union ({Steps[sent].field} \ {"none"})
              /\ deployPc' = IF next > Len(Steps) THEN "ok" ELSE "send"
           \/ deployPc' = "error"
    BY <1>6 DEF Wait, Successful
  <2>3. DeployTypeInv' /\ sent > 0
    BY <1>1, <1>3, <2>1, <2>2 DEF DeployTypeInv, ChainHasInv
  <2>4. FilledBy(sent) = FilledBy(sent - 1) \union ({Steps[sent].field} \ {"none"})
    BY <1>3, <2>3, OneMore
  <2>5. deployPc' = "ok" => sent' = Len(Steps)'
    BY <1>2, <1>3, <2>1, <2>2
  <2>. QED
    BY <1>1, <2>1, <2>2, <2>3, <2>4, <2>5 DEF DeployInv, ChainHasInv, ClientHasInv
<1>7. CASE WaitFails
  <2>1. Steps' = Steps /\ Earlier' = Earlier
    BY <1>7, PlanFrame DEF WaitFails
  <2>. QED
    BY <1>1, <1>7, <2>1 DEF WaitFails, DeployInv, DeployTypeInv, ChainHasInv, ClientHasInv
<1>8. CASE UNCHANGED deployVars
  <2>1. Steps' = Steps /\ Earlier' = Earlier /\ \A k : SetBy(k)' = SetBy(k) /\ FilledBy(k)' = FilledBy(k)
    BY <1>8, PlanFrame DEF deployVars
  <2>. QED
    BY <1>1, <1>8, <2>1 DEF deployVars, DeployInv, DeployTypeInv, ChainHasInv, ClientHasInv
<1>. QED
  BY <1>4, <1>5, <1>6, <1>7, <1>8 DEF DeployNext, DeployEnded

\* However many transactions are refused, reverted or lost sight of: a deployment or upgrade
\* that returns without an error is complete on the chain, the client has every address it
\* promises, and no transaction refers to what is not there yet.
THEOREM DeploymentTrue == DeploySpec => []DeploymentTruth
<1>1. DeployInv => DeploymentTruth
  <2>. SUFFICES ASSUME DeployInv PROVE DeploymentTruth
    OBVIOUS
  <2>1. DeployTypeInv /\ ChainHasInv /\ ClientHasInv
    BY DEF DeployInv
  <2>2. DOMAIN Steps = 1..Len(Steps) /\ Len(Steps) \in Nat
    BY <2>1, StepsLength DEF DeployTypeInv
  <2>3. ASSUME deployPc = "ok"
        PROVE  /\ {Steps[i].sets : i \in DOMAIN Steps} \subseteq contracts
               /\ client = {Steps[i].field : i \in DOMAIN Steps} \ {"none"}
    BY <2>1, <2>2, <2>3 DEF ChainHasInv, ClientHasInv, SetBy, FilledBy
  <2>4. ASSUME deployPc = "wait"
        PROVE  Steps[sent].needs \subseteq contracts
    <3>1. sent \in 1..Len(Steps) /\ SetBy(sent - 1) \subseteq contracts /\ Earlier \subseteq contracts
      BY <2>1, <2>2, <2>4 DEF DeployTypeInv, ChainHasInv
    <3>2. Steps[sent].needs \subseteq Earlier \union SetBy(sent - 1)
      BY <2>1, <3>1, NeedsComeFirst DEF DeployTypeInv
    <3>. QED
      BY <3>1, <3>2
  <2>. QED
    BY <2>3, <2>4 DEF DeploymentTruth
<1>. QED
  BY <1>1, DeployInvInit, DeployInvNext, PTL DEF DeploySpec

-----------------------------------------------------------------------------
(* Storage commands: invariant *)

\* The two names a file is stored under were given with the same flags.
NamesMatch(p) ==
  \/ p = <<Plain(p[1].text), Plain(p[2].text)>>
  \/ \E k \in EncryptionKeys :
       p = <<[text |-> p[1].text, key |-> k, path |-> "bucket"],
             [text |-> p[2].text, key |-> k, path |-> p[1].text]>>

CommandInv == CommandsTruthful /\ \A p \in DOMAIN files : NamesMatch(p)

-----------------------------------------------------------------------------
(* Storage commands: the invariant is kept *)

LEMMA PlaceMatches ==
  ASSUME NEW b, NEW n, NEW f \in Flags
  PROVE  NamesMatch(Place(b, n, f))
<1>1. CASE Hides(f)
  <2>1. f.enc \in EncryptionKeys
    BY <1>1 DEF Hides, Encrypts
  <2>2. Place(b, n, f) = <<[text |-> b, key |-> f.enc, path |-> "bucket"], [text |-> n, key |-> f.enc, path |-> b]>>
    BY <1>1 DEF Place, BucketName, FileName, Stored, PathOf
  <2>. QED
    BY <2>1, <2>2 DEF NamesMatch
<1>2. CASE ~Hides(f)
  <2>1. Place(b, n, f) = <<Plain(b), Plain(n)>>
    BY <1>2 DEF Place, BucketName, FileName, Stored
  <2>2. Plain(b).text = b /\ Plain(n).text = n
    BY DEF Plain
  <2>3. Place(b, n, f)[1] = Plain(b) /\ Place(b, n, f)[2] = Plain(n)
    BY <2>1
  <2>. QED
    BY <2>1, <2>2, <2>3 DEF NamesMatch
<1>. QED
  BY <1>1, <1>2

\* A name that was given is shown as it was given.
LEMMA GivenIsReadable ==
  ASSUME NEW t, NEW path, NEW f \in Flags
  PROVE  Readable(Stored(t, path, f), path, f) = Plain(t)
  BY DEF Readable, Stored, Plain

\* Whoever finds the bucket of a file can read the name of the file.
LEMMA FileIsReadable ==
  ASSUME NEW p, NamesMatch(p), NEW b, NEW f \in Flags, p[1] = BucketName(b, f)
  PROVE  Readable(p[2], b, f) = Plain(p[2].text)
<1>1. CASE Hides(f)
  <2>1. f.enc \in EncryptionKeys /\ f.enc # NoEncryption
    BY <1>1, StorageCommandsAssumption DEF Hides, Encrypts
  <2>2. p[1] = [text |-> b, key |-> f.enc, path |-> "bucket"]
    BY <1>1 DEF BucketName, Stored
  <2>3. p[1] # Plain(p[1].text)
    <3>1. p[1].key = f.enc
      BY <2>2
    <3>2. Plain(p[1].text).key = NoEncryption
      BY DEF Plain
    <3>. QED
      BY <2>1, <3>1, <3>2
  <2>4. PICK k \in EncryptionKeys :
          p = <<[text |-> p[1].text, key |-> k, path |-> "bucket"], [text |-> p[2].text, key |-> k, path |-> p[1].text]>>
    BY <2>3 DEF NamesMatch
  <2>5. k = f.enc /\ p[1].text = b
    BY <2>2, <2>4
  <2>6. p[2].key = f.enc /\ p[2].path = b
    BY <2>4, <2>5
  <2>. QED
    BY <1>1, <2>6 DEF Readable
<1>2. CASE ~Hides(f)
  <2>1. p[1] = Plain(b)
    BY <1>2 DEF BucketName, Stored
  <2>2. p = <<Plain(p[1].text), Plain(p[2].text)>>
    <3>1. ASSUME NEW k \in EncryptionKeys, p[1] = [text |-> p[1].text, key |-> k, path |-> "bucket"]
          PROVE  FALSE
      <4>0. Plain(b).path = ""
        BY DEF Plain
      <4>1. p[1].path = ""
        BY <2>1, <4>0
      <4>2. p[1].path = "bucket"
        BY <3>1
      <4>. QED
        BY <4>1, <4>2
    <3>. QED
      BY <3>1 DEF NamesMatch
  <2>3. p[2] = Plain(p[2].text)
    BY <2>2
  <2>. QED
    BY <1>2, <2>3 DEF Readable
<1>. QED
  BY <1>1, <1>2

LEMMA PlainIsReadable == \A t : Plain(t).key = NoEncryption /\ Plain(t) # Unreadable
  BY DEF Plain, Unreadable, NoEncryption

\* What a command has shown is readable, and it has downloaded nothing.
LEMMA EndsTruthful ==
  ASSUME NEW why, NEW shown, Ends(why, shown),
         why # "unreadable", why = "ok" => \A s \in shown : s.key = NoEncryption
  PROVE  CommandsTruthful'
  BY DEF Ends, CommandsTruthful, DownloadTruth, NamesReadable

LEMMA ShowsTruthful ==
  ASSUME NEW shown, Shows(shown), \A s \in shown : \E t : s = Plain(t)
  PROVE  CommandsTruthful' /\ UNCHANGED files
<1>1. Unreadable \notin shown /\ \A s \in shown : s.key = NoEncryption
  BY PlainIsReadable
<1>2. Ends("ok", shown) /\ UNCHANGED files
  BY <1>1 DEF Shows
<1>. QED
  BY <1>1, <1>2, EndsTruthful

LEMMA FailsTruthful ==
  ASSUME NEW why, why \notin {"ok", "unreadable"}, Fails(why)
  PROVE  CommandsTruthful' /\ UNCHANGED files
<1>1. Ends(why, {}) /\ UNCHANGED files
  BY DEF Fails
<1>. QED
  BY <1>1, EndsTruthful

LEMMA BucketCommands ==
  ASSUME CommandInv, NEW a \in Arguments, NEW f \in Flags,
         cmdCreateBucket(a, f) \/ cmdDeleteBucket(a, f) \/ cmdViewBucket(a, f) \/ cmdListBuckets(a, f)
  PROVE  CommandsTruthful' /\ UNCHANGED files
<1>1. CASE cmdCreateBucket(a, f)
  <2>1. CASE Fails("refused")
    BY <2>1, FailsTruthful
  <2>2. CASE Ends("ok", {Readable(BucketName(Head(a), f), "bucket", f)}) /\ UNCHANGED files
    <3>1. Readable(BucketName(Head(a), f), "bucket", f).key = NoEncryption
      BY GivenIsReadable, PlainIsReadable DEF BucketName
    <3>. QED
      BY <2>2, <3>1, EndsTruthful
  <2>. QED
    BY <1>1, <2>1, <2>2 DEF cmdCreateBucket
<1>2. CASE cmdDeleteBucket(a, f)
  <2>1. CASE Fails("refused")
    BY <2>1, FailsTruthful
  <2>2. CASE Ends("ok", {}) /\ UNCHANGED files
    BY <2>2, EndsTruthful
  <2>. QED
    BY <1>2, <2>1, <2>2 DEF cmdDeleteBucket
<1>3. CASE cmdViewBucket(a, f)
  <2>. DEFINE b == Given("view", a)[1]
  <2>1. CASE Fails("refused")
    BY <2>1, FailsTruthful
  <2>2. CASE Shows({Readable(BucketName(b, f), "bucket", f)})
    <3>1. Readable(BucketName(b, f), "bucket", f) = Plain(b)
      BY GivenIsReadable DEF BucketName
    <3>. QED
      BY <2>2, <3>1, ShowsTruthful
  <2>. QED
    BY <1>3, <2>1, <2>2 DEF cmdViewBucket
<1>4. CASE cmdListBuckets(a, f)
  <2>1. Ends("listed", ListBuckets(f)) /\ UNCHANGED files
    BY <1>4 DEF cmdListBuckets
  <2>. QED
    BY <2>1, EndsTruthful
<1>. QED
  BY <1>1, <1>2, <1>3, <1>4

LEMMA LookingCommands ==
  ASSUME CommandInv, NEW a \in Arguments, NEW f \in Flags,
         cmdListFiles(a, f) \/ cmdFileInfo(a, f) \/ cmdArchivalMetadata(a, f)
  PROVE  CommandsTruthful' /\ UNCHANGED files
<1>1. CASE cmdListFiles(a, f)
  <2>. DEFINE b == Given("list files", a)[1]
  <2>1. CASE Fails("refused")
    BY <2>1, FailsTruthful
  <2>2. CASE Shows(ListFiles(b, f))
    <3>1. ASSUME NEW s \in ListFiles(b, f)
          PROVE  \E t : s = Plain(t)
      <4>1. PICK p \in DOMAIN files : p[1] = BucketName(b, f) /\ s = Readable(p[2], b, f)
        BY <3>1 DEF ListFiles, FilesOf
      <4>2. NamesMatch(p)
        BY DEF CommandInv
      <4>. QED
        BY <4>1, <4>2, FileIsReadable
    <3>. QED
      BY <2>2, <3>1, ShowsTruthful
  <2>. QED
    BY <1>1, <2>1, <2>2 DEF cmdListFiles
<1>2. CASE cmdFileInfo(a, f)
  <2>. DEFINE g == Given("info", a)
  <2>1. CASE Fails("refused")
    BY <2>1, FailsTruthful
  <2>2. CASE Shows(FileInfo(g[1], g[2], f))
    <3>. DEFINE bucket == Stored(g[1], "bucket", f)
                file == Stored(g[2], g[1], f)
    <3>1. Place(g[1], g[2], f) = <<bucket, file>>
      BY DEF Place, BucketName, FileName, PathOf
    <3>2. Readable(bucket, "bucket", f) = Plain(g[1]) /\ Readable(file, g[1], f) = Plain(g[2])
      BY GivenIsReadable
    <3>3. Plain(g[1]).text = g[1]
      BY DEF Plain
    <3>. HIDE DEF bucket, file, g
    <3>4. FileInfo(g[1], g[2], f) = {Plain(g[2])}
      BY <3>1, <3>2, <3>3 DEF FileInfo
    <3>. QED
      BY <2>2, <3>4, ShowsTruthful
  <2>. QED
    BY <1>2, <2>1, <2>2 DEF cmdFileInfo
<1>3. CASE cmdArchivalMetadata(a, f)
  <2>1. CASE Fails("refused")
    BY <2>1, FailsTruthful
  <2>2. CASE Shows({})
    BY <2>2, ShowsTruthful
  <2>. QED
    BY <1>3, <2>1, <2>2 DEF cmdArchivalMetadata
<1>. QED
  BY <1>1, <1>2, <1>3

LEMMA UploadCommand ==
  ASSUME CommandInv, NEW a \in Arguments, NEW f \in Flags, cmdFileUpload(a, f)
  PROVE  CommandInv'
<1>. DEFINE p == Place(Given("upload", a)[1], Base[Given("upload", a)[2]], f)
<1>1. CASE Fails("refused")
  BY <1>1, FailsTruthful DEF CommandInv
<1>2. ASSUME NEW v, Stores(p, v), Ends("ok", {}) \/ Ends("upload", {})
      PROVE  CommandInv'
  <2>1. NamesMatch(p)
    BY PlaceMatches
  <2>. HIDE DEF p
  <2>2. DOMAIN files' = DOMAIN files \union {p}
    BY <1>2 DEF Stores
  <2>3. CommandsTruthful'
    BY <1>2, EndsTruthful
  <2>. QED
    BY <2>1, <2>2, <2>3 DEF CommandInv
<1>. QED
  BY <1>1, <1>2 DEF cmdFileUpload

LEMMA DeleteCommand ==
  ASSUME CommandInv, NEW a \in Arguments, NEW f \in Flags, cmdFileDelete(a, f)
  PROVE  CommandInv'
<1>. DEFINE g == Given("file delete", a)
            p == Place(g[1], g[2], f)
<1>1. CASE Fails("refused")
  BY <1>1, FailsTruthful DEF CommandInv
<1>2. CASE files' = [q \in DOMAIN files \ {p} |-> files[q]] /\ Ends("ok", {})
  <2>1. CommandsTruthful'
    BY <1>2, EndsTruthful
  <2>2. DOMAIN files' \subseteq DOMAIN files
    BY <1>2
  <2>. QED
    BY <2>1, <2>2 DEF CommandInv
<1>. QED
  BY <1>1, <1>2 DEF cmdFileDelete

\* A download that gives data has opened it with the key it was sealed with, and has decoded
\* it as it was coded; and it has looked the file up before it touched the destination.
LEMMA DownloadCommand ==
  ASSUME CommandInv, NEW a \in Arguments, NEW f \in Flags, cmdFileDownload(a, f)
  PROVE  CommandInv'
<1>. DEFINE g == Given("download", a)
            p == Place(g[1], g[2], f)
            v == files[p]
            got == Opened(v, Decoded(v, f), f)
<1>1. CASE Fails("refused")
  BY <1>1, FailsTruthful DEF CommandInv
<1>2. CASE /\ p \in DOMAIN files /\ got # Failed /\ UNCHANGED files
           /\ dest' = [is |-> got, content |-> v.content] /\ EndsDownload("ok", p, f)
  <2>1. f.enc # NoEncryption => Encrypts(f)
    BY <1>2 DEF cmdFileDownload, Started, Ready, Flags, Encrypts
  <2>2. Encrypts(f) => got = "data" /\ v.key = f.enc /\ f.enc # NoEncryption
    BY <1>2, StorageCommandsAssumption DEF Opened, Encrypts
  <2>3. ~Encrypts(f) /\ v.key = NoEncryption /\ v.coded = f.coding => got = "data"
    BY DEF Opened, Decoded, Failed
  <2>. HIDE DEF p, v, got
  <2>4. last' = [why |-> "ok", shown |-> {}, file |-> p, enc |-> f.enc, coding |-> f.coding]
    BY <1>2 DEF EndsDownload
  <2>5. NamesReadable'
    BY <2>4 DEF NamesReadable
  <2>6. DownloadTruth'
    BY <1>2, <2>1, <2>2, <2>3, <2>4 DEF DownloadTruth, v
  <2>. QED
    BY <1>2, <2>5, <2>6 DEF CommandInv, CommandsTruthful
<1>3. CASE p \in DOMAIN files /\ EndsDownload("download", p, f) /\ UNCHANGED files
  <2>. HIDE DEF p
  <2>1. last' = [why |-> "download", shown |-> {}, file |-> p, enc |-> f.enc, coding |-> f.coding]
    BY <1>3 DEF EndsDownload
  <2>2. CommandsTruthful'
    BY <1>3, <2>1 DEF CommandsTruthful, DownloadTruth, NamesReadable
  <2>. QED
    BY <1>3, <2>2 DEF CommandInv
<1>. QED
  BY <1>1, <1>2, <1>3 DEF cmdFileDownload, DestinationCreated

LEMMA CommandInvInit == CommandInit => CommandInv
  BY DEF CommandInit, CommandInv, CommandsTruthful, DownloadTruth, NamesReadable

LEMMA CommandInvNext == CommandInv /\ [CommandNext]_commandVars => CommandInv'
<1>. SUFFICES ASSUME CommandInv, [CommandNext]_commandVars PROVE CommandInv'
  OBVIOUS
<1>1. ASSUME NEW a \in Arguments, NEW f \in Flags,
             \/ cmdCreateBucket(a, f) \/ cmdDeleteBucket(a, f) \/ cmdViewBucket(a, f) \/ cmdListBuckets(a, f)
             \/ cmdListFiles(a, f) \/ cmdFileInfo(a, f) \/ cmdArchivalMetadata(a, f)
      PROVE  CommandInv'
  <2>1. CommandsTruthful' /\ UNCHANGED files
    BY <1>1, BucketCommands, LookingCommands
  <2>. QED
    BY <2>1 DEF CommandInv
<1>2. CASE NotStarted \/ RequestFails
  <2>1. Fails("not started") \/ Fails("node")
    BY <1>2 DEF NotStarted, RequestFails
  <2>2. CommandsTruthful' /\ UNCHANGED files
    BY <2>1, FailsTruthful
  <2>. QED
    BY <2>2 DEF CommandInv
<1>3. CASE UNCHANGED commandVars
  BY <1>3 DEF commandVars, CommandInv, CommandsTruthful, DownloadTruth, NamesReadable
<1>4. ASSUME NEW a \in Arguments, NEW f \in Flags,
             cmdFileUpload(a, f) \/ cmdFileDownload(a, f) \/ cmdFileDelete(a, f)
      PROVE  CommandInv'
  BY <1>4, UploadCommand, DownloadCommand, DeleteCommand
<1>. QED
  BY <1>1, <1>2, <1>3, <1>4 DEF CommandNext

\* Whatever commands are given, with whatever arguments and flags: a download that ends well
\* with a key leaves the file as it was uploaded, one spoils the destination only if the file
\* exists, and whoever finds a bucket can read the names in it.
THEOREM CommandsStayTruthful == CommandSpec => []CommandsTruthful
<1>1. CommandInv => CommandsTruthful
  BY DEF CommandInv
<1>. QED
  BY <1>1, CommandInvInit, CommandInvNext, PTL DEF CommandSpec

-----------------------------------------------------------------------------
(* Reader of the chain: calldata of uploads *)

\* The size and index of a chunk get through big.Int as they are.
LEMMA Int64Kept ==
  ASSUME NEW v \in 0..(Half - 1)
  PROVE  Int64(v) = v
<1>1. Half \in Nat /\ Int64Space = 2 * Half /\ Half > 0
  BY ChainReaderAssumption
<1>. HIDE DEF Half
<1>2. v \in Nat /\ v + Half < Int64Space /\ Int64Space \in Nat \ {0}
  BY <1>1
<1>3. (v + Half) % Int64Space = v + Half
  BY <1>1, <1>2
<1>. QED
  BY <1>1, <1>2, <1>3 DEF Int64

LEMMA PairTail == \A a, c : Tail(<<a, c>>) = <<c>>
  OBVIOUS

LEMMA PairJoined == \A a, c : <<a>> \o <<c>> = <<a, c>>
<1>. SUFFICES ASSUME NEW a, NEW c PROVE <<a>> \o <<c>> = <<a, c>>
  OBVIOUS
<1>. DEFINE s == <<a>> \o <<c>>
            t == <<a, c>>
<1>1. Len(s) = 2 /\ Len(t) = 2
  OBVIOUS
<1>2. s[1] = a /\ s[2] = c
  OBVIOUS
<1>3. t[1] = a /\ t[2] = c
  OBVIOUS
<1>4. s \in Seq({a, c}) /\ t \in Seq({a, c})
  OBVIOUS
<1>. HIDE DEF s, t
<1>5. s = [i \in 1..2 |-> s[i]] /\ t = [i \in 1..2 |-> t[i]]
  BY <1>1, <1>4
<1>6. s = t
  BY <1>2, <1>3, <1>5
<1>. QED
  BY <1>6 DEF s, t

\* The CID of a block is put together from its digest again.
LEMMA BlockKept ==
  ASSUME NEW k \in Blocks
  PROVE  [cid |-> FromByteArrayCID(Tail(k.cid)), size |-> Int64(k.size)] = k
<1>1. PICK d \in Digests : k.cid = <<cidPrefix, d>>
  BY DEF Blocks
<1>2. FromByteArrayCID(Tail(k.cid)) = k.cid
  BY <1>1, PairTail, PairJoined DEF FromByteArrayCID
<1>3. Int64(k.size) = k.size
  BY Int64Kept DEF Blocks
<1>4. k = [cid |-> k.cid, size |-> k.size]
  BY DEF Blocks
<1>. QED
  BY <1>2, <1>3, <1>4

\* What an upload sends, by chunk.
LEMMA Calldata ==
  ASSUME NEW b \in Batches
  PROVE  LET c == AddFileChunks(b) IN
         /\ b \in Seq(Chunks) /\ DOMAIN b = 1..Len(b) /\ 1 \in DOMAIN b
         /\ c.method = "addFileChunks"
         /\ DOMAIN c.cids = DOMAIN b /\ DOMAIN c.sizes = DOMAIN b
         /\ DOMAIN c.blockCIDs = DOMAIN b /\ DOMAIN c.blockSizes = DOMAIN b
         /\ c.start = b[1].index
         /\ \A i \in DOMAIN b :
              /\ c.cids[i] = b[i].cid /\ c.sizes[i] = b[i].size
              /\ c.blockCIDs[i] = [j \in DOMAIN b[i].blocks |-> Tail(b[i].blocks[j].cid)]
              /\ c.blockSizes[i] = [j \in DOMAIN b[i].blocks |-> b[i].blocks[j].size]
<1>1. b \in Seq(Chunks) /\ b # <<>>
  BY ChainReaderAssumption
<1>2. DOMAIN b = 1..Len(b) /\ 1 \in DOMAIN b
  BY <1>1
<1>3. LET c == AddFileChunks(b) IN
        /\ c.method = "addFileChunks"
        /\ c.cids = [i \in DOMAIN b |-> b[i].cid]
        /\ c.sizes = [i \in DOMAIN b |-> b[i].size]
        /\ c.blockCIDs = [i \in DOMAIN b |-> [j \in DOMAIN b[i].blocks |-> Tail(b[i].blocks[j].cid)]]
        /\ c.blockSizes = [i \in DOMAIN b |-> [j \in DOMAIN b[i].blocks |-> b[i].blocks[j].size]]
        /\ c.start = b[1].index
  BY DEF AddFileChunks
<1>. QED
  BY <1>1, <1>2, <1>3

LEMMA ChunkTyped ==
  ASSUME NEW b \in Batches, NEW i \in DOMAIN b
  PROVE  /\ b[i] \in Chunks /\ b[i].cid \in RootCIDs /\ b[i].size \in 0..(Half - 1)
         /\ b[i].index \in 0..(Half - 1) /\ b[i].blocks \in Seq(Blocks)
         /\ b[i] = [cid |-> b[i].cid, size |-> b[i].size, index |-> b[i].index, blocks |-> b[i].blocks]
<1>1. b[i] \in Chunks
  BY Calldata
<1>. QED
  BY <1>1 DEF Chunks

\* The chunks of an upload are parsed without an error.
LEMMA UploadParses ==
  ASSUME NEW b \in Batches
  PROVE  Outcome(AddFileChunks(b)) = "parsed"
<1>. DEFINE c == AddFileChunks(b)
<1>1. ASSUME NEW i \in DOMAIN c.cids
      PROVE  OutcomeOf(c, i) = "parsed"
  <2>1. i \in DOMAIN b /\ i \in DOMAIN c.blockCIDs /\ i \in DOMAIN c.blockSizes /\ i \in DOMAIN c.sizes
    BY <1>1, Calldata
  <2>2. ValidCID(c.cids[i])
    <3>1. c.cids[i] = b[i].cid
      BY <2>1, Calldata
    <3>2. b[i].cid \in RootCIDs
      BY <2>1, ChunkTyped
    <3>. HIDE DEF c
    <3>. QED
      BY <3>1, <3>2, ChainReaderAssumption DEF ValidCID
  <2>3. Len(c.blockCIDs[i]) = Len(c.blockSizes[i])
    <3>1. b[i].blocks \in Seq(Blocks)
      BY <2>1, ChunkTyped
    <3>2. /\ c.blockCIDs[i] = [j \in DOMAIN b[i].blocks |-> Tail(b[i].blocks[j].cid)]
          /\ c.blockSizes[i] = [j \in DOMAIN b[i].blocks |-> b[i].blocks[j].size]
      BY <2>1, Calldata
    <3>3. Len(b[i].blocks) \in Nat /\ DOMAIN b[i].blocks = 1..Len(b[i].blocks)
      BY <3>1
    <3>. HIDE DEF c
    <3>4. DOMAIN c.blockCIDs[i] = 1..Len(b[i].blocks) /\ DOMAIN c.blockSizes[i] = 1..Len(b[i].blocks)
      BY <3>2, <3>3
    <3>5. Len(c.blockCIDs[i]) = Len(b[i].blocks)
      <4>1. c.blockCIDs[i] = [j \in 1..Len(b[i].blocks) |-> Tail(b[i].blocks[j].cid)]
        BY <3>2, <3>3
      <4>. QED
        BY <3>3, <4>1
    <3>6. Len(c.blockSizes[i]) = Len(b[i].blocks)
      <4>1. c.blockSizes[i] = [j \in 1..Len(b[i].blocks) |-> b[i].blocks[j].size]
        BY <3>2, <3>3
      <4>. QED
        BY <3>3, <4>1
    <3>. QED
      BY <3>5, <3>6
  <2>. HIDE DEF c
  <2>. QED
    BY <2>1, <2>2, <2>3 DEF OutcomeOf
<1>2. c.method # "other"
  BY Calldata
<1>. HIDE DEF c
<1>3. {i \in DOMAIN c.cids : OutcomeOf(c, i) # "parsed"} = {}
  BY <1>1
<1>4. Outcome(c) = "parsed"
  BY <1>2, <1>3 DEF Outcome
<1>. QED
  BY <1>4 DEF c

\* And they are the chunks that were uploaded.
LEMMA UploadIsRead ==
  ASSUME NEW b \in Batches
  PROVE  [j \in DOMAIN AddFileChunks(b).cids |-> Chunk(AddFileChunks(b), j)] = b
<1>. DEFINE c == AddFileChunks(b)
<1>1. ASSUME NEW i \in DOMAIN b
      PROVE  Chunk(c, i) = b[i]
  <2>1. c.cids[i] = b[i].cid /\ Int64(c.sizes[i]) = b[i].size
    <3>1. c.cids[i] = b[i].cid /\ c.sizes[i] = b[i].size
      BY <1>1, Calldata
    <3>2. Int64(b[i].size) = b[i].size
      BY <1>1, ChunkTyped, Int64Kept
    <3>. HIDE DEF c
    <3>. QED
      BY <3>1, <3>2
  <2>2. IndexOf(c, i) = b[i].index
    <3>1. c.start = b[1].index /\ 1 \in DOMAIN b
      BY Calldata
    <3>2. Int64(c.start) = b[1].index
      BY <3>1, ChunkTyped, Int64Kept
    <3>3. b[i].index = b[1].index + i - 1
      BY <1>1, ChainReaderAssumption
    <3>. HIDE DEF c
    <3>. QED
      BY <3>2, <3>3 DEF IndexOf
  <2>3. [j \in DOMAIN c.blockCIDs[i] |->
           [cid |-> FromByteArrayCID(c.blockCIDs[i][j]), size |-> Int64(c.blockSizes[i][j])]] = b[i].blocks
    <3>1. b[i].blocks \in Seq(Blocks)
      BY <1>1, ChunkTyped
    <3>2. /\ c.blockCIDs[i] = [j \in DOMAIN b[i].blocks |-> Tail(b[i].blocks[j].cid)]
          /\ c.blockSizes[i] = [j \in DOMAIN b[i].blocks |-> b[i].blocks[j].size]
      BY <1>1, Calldata
    <3>. HIDE DEF c
    <3>3. ASSUME NEW j \in DOMAIN b[i].blocks
          PROVE  [cid |-> FromByteArrayCID(c.blockCIDs[i][j]), size |-> Int64(c.blockSizes[i][j])] = b[i].blocks[j]
      <4>1. c.blockCIDs[i][j] = Tail(b[i].blocks[j].cid) /\ c.blockSizes[i][j] = b[i].blocks[j].size
        BY <3>2
      <4>2. b[i].blocks[j] \in Blocks
        BY <3>1
      <4>. QED
        BY <4>1, <4>2, BlockKept
    <3>4. DOMAIN c.blockCIDs[i] = DOMAIN b[i].blocks
      BY <3>2
    <3>5. b[i].blocks = [j \in DOMAIN b[i].blocks |-> b[i].blocks[j]]
      BY <3>1
    <3>. QED
      BY <3>3, <3>4, <3>5
  <2>4. b[i] = [cid |-> b[i].cid, size |-> b[i].size, index |-> b[i].index, blocks |-> b[i].blocks]
    BY <1>1, ChunkTyped
  <2>. HIDE DEF c
  <2>. QED
    BY <2>1, <2>2, <2>3, <2>4 DEF Chunk
<1>2. DOMAIN c.cids = DOMAIN b /\ b = [j \in DOMAIN b |-> b[j]]
  BY Calldata
<1>. HIDE DEF c
<1>3. [j \in DOMAIN c.cids |-> Chunk(c, j)] = b
  BY <1>1, <1>2
<1>. QED
  BY <1>3 DEF c

LEMMA OutcomeKnown == \A call : Outcome(call) \in {"parsed", "error", "panic"}
<1>1. \A call, i : OutcomeOf(call, i) \in {"parsed", "error", "panic"}
  BY DEF OutcomeOf
<1>. QED
  BY <1>1 DEF Outcome

-----------------------------------------------------------------------------
(* Reader of the chain: invariant *)

\* A request has the answer that the chain gives: it has grown since the call was made, and
\* has not lost a block.
AnswersInv ==
  /\ DOMAIN answers = DOMAIN requests
  /\ \A i \in DOMAIN requests :
       /\ requests[i] \in 1..MaxBlocks
       /\ answers[i] = "found" => requests[i] \in DOMAIN chain
       /\ answers[i] = "null" => requests[i] > asked

\* What has been parsed is a block of the chain.
ParsedInv ==
  IF source = 0 THEN phase \notin {"parsed", "panic"}
  ELSE /\ source \in DOMAIN chain /\ phase = Outcome(chain[source])
       /\ phase = "parsed" =>
            parsed = [j \in DOMAIN chain[source].cids |-> Chunk(chain[source], j)]

ReaderInv ==
  /\ chain \in Seq(Calls) /\ asked \in 0..Len(chain)
  /\ phase \in {"idle", "asked", "returned", "parsed", "error", "panic"}
  /\ AnswersInv /\ ParsedInv
  /\ phase = "returned" => responses = Responses

LEMMA ReaderInitInv == ReaderInit => ReaderInv
  BY DEF ReaderInit, ReaderInv, AnswersInv, ParsedInv

\* Nothing has been parsed before the batch has returned.
LEMMA NothingParsed ==
  ASSUME ReaderInv, phase \in {"idle", "asked", "returned"}
  PROVE  source = 0
  BY OutcomeKnown DEF ReaderInv, ParsedInv

LEMMA MineBlockInv == ReaderInv /\ MineBlock => ReaderInv'
<1>. SUFFICES ASSUME ReaderInv, MineBlock PROVE ReaderInv'
  OBVIOUS
<1>1. PICK c \in Calls : chain' = Append(chain, c)
  BY DEF MineBlock
<1>2. phase \in {"idle", "asked"} /\ UNCHANGED <<kind, requests, asked, answers, responses, parsed, source, phase>>
  BY DEF MineBlock
<1>3. chain' \in Seq(Calls) /\ Len(chain') = Len(chain) + 1 /\ DOMAIN chain \subseteq DOMAIN chain' /\ Len(chain) \in Nat
  BY <1>1 DEF ReaderInv
<1>4. asked' \in 0..Len(chain')
  BY <1>2, <1>3 DEF ReaderInv
<1>5. AnswersInv'
  BY <1>2, <1>3 DEF ReaderInv, AnswersInv
<1>6. ParsedInv'
  BY <1>2, NothingParsed DEF ParsedInv
<1>. QED
  BY <1>2, <1>3, <1>4, <1>5, <1>6 DEF ReaderInv

LEMMA AskInv == ReaderInv /\ Ask => ReaderInv'
<1>. SUFFICES ASSUME ReaderInv, Ask PROVE ReaderInv'
  OBVIOUS
<1>1. PICK k \in 1..MaxRequests : requests' \in [1..k -> 1..MaxBlocks] /\ answers' = [i \in 1..k |-> "none"]
  BY DEF Ask
<1>2. phase = "idle" /\ phase' = "asked" /\ asked' = Len(chain) /\ UNCHANGED <<chain, kind, responses, parsed, source>>
  BY DEF Ask
<1>3. AnswersInv'
  BY <1>1 DEF AnswersInv
<1>4. ParsedInv'
  BY <1>2, NothingParsed DEF ParsedInv
<1>5. asked' \in 0..Len(chain')
  BY <1>2 DEF ReaderInv
<1>. QED
  BY <1>2, <1>3, <1>4, <1>5 DEF ReaderInv

LEMMA AnswerInv == ASSUME NEW i \in DOMAIN answers PROVE ReaderInv /\ Answer(i) => ReaderInv'
<1>. SUFFICES ASSUME ReaderInv, Answer(i) PROVE ReaderInv'
  OBVIOUS
<1>1. PICK a \in {"error", IF requests[i] \in DOMAIN chain THEN "found" ELSE "null"} :
        answers' = [answers EXCEPT ![i] = a]
  BY DEF Answer
<1>2. phase = "asked" /\ UNCHANGED <<chain, kind, requests, asked, responses, parsed, source, phase>>
  BY DEF Answer
<1>3. ASSUME a = "null"
      PROVE  requests[i] > asked
  <2>1. requests[i] \notin DOMAIN chain
    BY <1>3
  <2>2. requests[i] \in 1..MaxBlocks /\ MaxBlocks \in Nat
    BY ChainReaderAssumption DEF ReaderInv, AnswersInv
  <2>3. DOMAIN chain = 1..Len(chain) /\ Len(chain) \in Nat /\ asked \in 0..Len(chain)
    BY DEF ReaderInv
  <2>. QED
    BY <2>1, <2>2, <2>3
<1>4. a = "found" => requests[i] \in DOMAIN chain
  BY <1>1
<1>5. AnswersInv'
  BY <1>1, <1>2, <1>3, <1>4 DEF ReaderInv, AnswersInv
<1>6. ParsedInv'
  BY <1>2, NothingParsed DEF ParsedInv
<1>. QED
  BY <1>2, <1>5, <1>6 DEF ReaderInv

LEMMA CallFailsInv == ReaderInv /\ CallFails => ReaderInv'
<1>. SUFFICES ASSUME ReaderInv, CallFails PROVE ReaderInv'
  OBVIOUS
<1>1. phase = "asked" /\ phase' = "error"
      /\ UNCHANGED <<chain, kind, requests, asked, answers, responses, parsed, source>>
  BY DEF CallFails
<1>2. source' = 0
  BY <1>1, NothingParsed
<1>3. AnswersInv' /\ ParsedInv'
  BY <1>1, <1>2 DEF ReaderInv, AnswersInv, ParsedInv
<1>. QED
  BY <1>1, <1>3 DEF ReaderInv

LEMMA ReturnsInv == ReaderInv /\ Returns => ReaderInv'
<1>. SUFFICES ASSUME ReaderInv, Returns PROVE ReaderInv'
  OBVIOUS
<1>1. phase = "asked" /\ phase' = "returned" /\ responses' = Responses
      /\ UNCHANGED <<chain, kind, requests, asked, answers, parsed, source>>
  BY DEF Returns
<1>2. source' = 0
  BY <1>1, NothingParsed
<1>3. AnswersInv' /\ ParsedInv'
  BY <1>1, <1>2 DEF ReaderInv, AnswersInv, ParsedInv
<1>4. responses' = Responses'
  BY <1>1 DEF Responses
<1>. QED
  BY <1>1, <1>3, <1>4 DEF ReaderInv

LEMMA ParseInv == ReaderInv /\ Parse => ReaderInv'
<1>. SUFFICES ASSUME ReaderInv, Parse PROVE ReaderInv'
  OBVIOUS
<1>1. PICK i \in DOMAIN responses :
        LET call == chain[responses[i].item] IN
        /\ responses[i].got = "found"
        /\ source' = responses[i].item /\ phase' = Outcome(call)
        /\ parsed' = IF phase' = "parsed" THEN [j \in DOMAIN call.cids |-> Chunk(call, j)] ELSE <<>>
  BY DEF Parse
<1>2. phase = "returned" /\ UNCHANGED <<chain, kind, requests, asked, answers, responses>>
  BY DEF Parse
<1>3. i \in DOMAIN requests /\ responses[i].item = requests[i] /\ responses[i].got = answers[i]
  BY <1>2 DEF ReaderInv, Responses
<1>4. source' = requests[i] /\ answers[i] = "found"
  BY <1>1, <1>3
<1>5. source' \in DOMAIN chain /\ source' # 0
  BY <1>3, <1>4, ChainReaderAssumption DEF ReaderInv, AnswersInv
<1>6. phase' = Outcome(chain[source'])
      /\ (phase' = "parsed" => parsed' = [j \in DOMAIN chain[source'].cids |-> Chunk(chain[source'], j)])
  BY <1>1
<1>7. ParsedInv'
  BY <1>2, <1>5, <1>6 DEF ParsedInv
<1>8. phase' \in {"parsed", "error", "panic"}
  BY <1>6, OutcomeKnown
<1>9. AnswersInv'
  BY <1>2 DEF ReaderInv, AnswersInv
<1>. QED
  BY <1>2, <1>7, <1>8, <1>9 DEF ReaderInv

LEMMA ReaderStepInv == ReaderInv /\ [ReaderNext]_readerVars => ReaderInv'
<1>. SUFFICES ASSUME ReaderInv, [ReaderNext]_readerVars PROVE ReaderInv'
  OBVIOUS
<1>1. CASE UNCHANGED readerVars
  <2>1. UNCHANGED <<chain, kind, requests, asked, answers, responses, parsed, source, phase>>
    BY <1>1 DEF readerVars
  <2>. QED
    BY <2>1 DEF ReaderInv, AnswersInv, ParsedInv, Responses
<1>2. CASE ReaderEnded
  <2>1. UNCHANGED <<chain, kind, requests, asked, answers, responses, parsed, source, phase>>
    BY <1>2 DEF ReaderEnded, readerVars
  <2>. QED
    BY <2>1 DEF ReaderInv, AnswersInv, ParsedInv, Responses
<1>3. CASE ReaderNext
  BY <1>2, <1>3, MineBlockInv, AskInv, AnswerInv, CallFailsInv, ReturnsInv, ParseInv DEF ReaderNext
<1>. QED
  BY <1>1, <1>3

LEMMA ReaderInvTruth == ReaderInv => ReaderTruth
<1>. SUFFICES ASSUME ReaderInv PROVE ReaderTruth
  OBVIOUS
<1>1. ASSUME phase = "returned"
      PROVE  /\ DOMAIN responses = DOMAIN requests
             /\ \A i \in DOMAIN responses :
                  /\ responses[i].number = requests[i]
                  /\ responses[i].got # "error" => responses[i].item = requests[i]
                  /\ responses[i].got = "null" => requests[i] > asked
  <2>1. responses = [i \in DOMAIN requests |-> [number |-> requests[i], got |-> answers[i], item |-> requests[i]]]
    BY <1>1 DEF ReaderInv, Responses
  <2>2. \A i \in DOMAIN requests : answers[i] = "null" => requests[i] > asked
    BY DEF ReaderInv, AnswersInv
  <2>. QED
    BY <2>1, <2>2
<1>2. ASSUME NEW b \in Batches, source # 0, chain[source] = AddFileChunks(b)
      PROVE  phase = "parsed" /\ parsed = b
  BY <1>2, UploadParses, UploadIsRead DEF ReaderInv, ParsedInv
<1>. QED
  BY <1>1, <1>2 DEF ReaderTruth

\* However the chain grows while a batch is answered, and whatever else is on it: what was there
\* when the call was made is not reported missing, answers are under their numbers, and what
\* was parsed of an upload are the chunks that it sent.
THEOREM ReaderStaysTruthful == ReaderSpec => []ReaderTruth
<1>. QED
  BY ReaderInitInv, ReaderStepInv, ReaderInvTruth, PTL DEF ReaderSpec
===============================================================================
