--------------------------- MODULE OperationsProofs ---------------------------
(***************************************************************************)
(* What the calls that change buckets and files report of themselves, for  *)
(* any number of clients of one account, any stock of buckets and files,   *)
(* any number of retries and of lost answers.  The invariant has a part    *)
(* for the list of transactions and, for every client, what is known of    *)
(* its transactions, of its index and of its nonces; a step of another     *)
(* client leaves the parts of a client alone, whatever it does.            *)
(***************************************************************************)
EXTENDS Operations, FiniteSetTheorems, SequenceTheorems, TLAPS

Deletes == {"DeleteBucket", "DeleteFile"}
Refusals == {"BucketAlreadyExists", "Nonexists", "BucketNonempty", "IndexMismatch", "FileAlreadyExists"}

WellFormed(t) ==
  t = [op |-> t.op, bucket |-> t.bucket, file |-> t.file, index |-> t.index, client |-> t.client, status |-> t.status]

Elements(s) == {s[i] : i \in DOMAIN s}

ClientTypes ==
  /\ call \in [Client -> Call]
  /\ pc \in [Client -> {"start", "read", "send", "sending", "wait", "lookup", "done"}]
  /\ outcome \in [Client -> {"none", "nil", "read", "nonce", "EOF", "receipt", "lookup"} \union Refusals]
  /\ todo = [c \in Client |-> todo[c]] /\ index = [c \in Client |-> index[c]]
  /\ seenAt \in [Client -> Nat] /\ nonce \in [Client -> Nat] /\ beaten \in [Client -> Nat]
  /\ tries \in [Client -> 0..MaxRetries] /\ lost \in [Client -> BOOLEAN]

TypeInv ==
  /\ txs \in Seq(Elements(txs)) /\ \A t \in DOMAIN txs : WellFormed(txs[t])
  /\ mined \in 0..Len(txs)
  /\ ClientTypes

\* A transaction is pending until it is mined, and is what its client asked for.
ChainInv ==
  \A t \in DOMAIN txs :
    /\ txs[t].status = "pending" <=> t > mined
    /\ txs[t].status \in {"pending", "success"} \union Refusals
    /\ txs[t].client \in Client /\ Names(txs[t]) = Names(call[txs[t].client])
    /\ txs[t].status = "IndexMismatch" => txs[t].op \in Deletes

\* The transaction a call waits for is its own, and has succeeded when it returns nil.
OutcomeInv(c) ==
  /\ outcome[c] = "none" <=> pc[c] # "done"
  /\ pc[c] \in {"wait", "lookup"} => nonce[c] \in Own(c)
  /\ pc[c] = "lookup" \/ outcome[c] = "nil" => nonce[c] \in Own(c) /\ txs[nonce[c]].status = "success"

\* Unless an answer was lost and the call sent again, it has one transaction at most.
EffectInv(c) ==
  /\ ~lost[c] \/ call[c].op \notin Retried =>
       /\ pc[c] \in {"start", "read", "send", "sending"} => Own(c) = {}
       /\ Own(c) \subseteq {nonce[c]}
  /\ ~lost[c] /\ outcome[c] \notin {"none", "nil", "receipt", "lookup"} =>
       \A t \in Own(c) : txs[t].status \notin {"pending", "success"}

\* Another call's transaction has changed something since c read its index.
Disturbed(c) == \E t \in (seenAt[c] + 1)..mined : txs[t].client # c /\ txs[t].status = "success"

IndexValid(c) ==
  index[c] \in IF call[c].op = "DeleteBucket" THEN BucketAt(call[c].bucket)
                                              ELSE FileAt(call[c].bucket, call[c].file)

\* The last read of a deletion is that of the index.
Unread(c) ==
  IF call[c].op = "DeleteBucket" THEN {<<"bucket", "bucket index">>, <<"bucket index">>}
  ELSE {<<"bucket", "file", "file index">>, <<"file", "file index">>, <<"file index">>}

\* The index of a deletion is that of what it deletes until somebody else disturbs it.
IndexInv(c) ==
  /\ call[c].op \in Deletes =>
       /\ seenAt[c] <= mined
       /\ pc[c] \in {"start", "read"} => todo[c] \in Unread(c)
       /\ pc[c] \in {"send", "sending"} \/ (pc[c] = "wait" /\ nonce[c] > mined) => IndexValid(c) \/ Disturbed(c)
       /\ pc[c] = "wait" => txs[nonce[c]].index = index[c]
       /\ pc[c] = "wait" /\ txs[nonce[c]].status = "IndexMismatch" => Disturbed(c)
  /\ outcome[c] = "IndexMismatch" => Disturbed(c)

\* Each nonce a call has lost went to another call's transaction, each attempt was spent on
\* such a nonce or on a transaction of its own.
NonceInv(c) ==
  /\ beaten[c] <= Cardinality(DOMAIN txs \ Own(c))
  /\ pc[c] = "sending" =>
       /\ nonce[c] \in 1..(Len(txs) + 1) /\ \A t \in nonce[c]..Len(txs) : t \notin Own(c)
       /\ beaten[c] <= Cardinality((1..(nonce[c] - 1)) \ Own(c))
  /\ call[c].op \in Retried /\ pc[c] \in {"start", "send", "sending"} => tries[c] <= beaten[c] + Cardinality(Own(c))
  /\ outcome[c] = "nonce" =>
       beaten[c] + Cardinality(Own(c)) > (IF call[c].op \in Retried THEN MaxRetries ELSE 0)

ClientInv(c) == OutcomeInv(c) /\ EffectInv(c) /\ IndexInv(c) /\ NonceInv(c)

OperationsInv == TypeInv /\ ChainInv /\ \A c \in Client : ClientInv(c)
-----------------------------------------------------------------------------
(* Sequences of transactions and sets of them. *)

\* A sequence is one of its own elements.
LEMMA OverRange ==
  ASSUME NEW S, NEW s \in Seq(S)
  PROVE  s \in Seq(Elements(s))
<1>1. s \in [1..Len(s) -> Elements(s)] /\ Len(s) \in Nat
  BY DEF Elements
<1>2. Seq(Elements(s)) = UNION {[1..n -> Elements(s)] : n \in Nat}
  BY SeqDef, Zenon
<1> QED BY <1>1, <1>2

\* A transaction more (Send, AnswerLost) leaves those before it.
LEMMA Appended ==
  ASSUME NEW s, s \in Seq(Elements(s)), NEW x
  PROVE  /\ Append(s, x) \in Seq(Elements(Append(s, x)))
         /\ Len(s) \in Nat /\ DOMAIN s = 1..Len(s)
         /\ Len(Append(s, x)) = Len(s) + 1 /\ DOMAIN Append(s, x) = 1..(Len(s) + 1)
         /\ \A i \in DOMAIN s : Append(s, x)[i] = s[i]
         /\ Append(s, x)[Len(s) + 1] = x
<1>1. s \in Seq(Elements(s) \union {x}) /\ x \in Elements(s) \union {x}
  OBVIOUS
<1>2. /\ Append(s, x) \in Seq(Elements(s) \union {x}) /\ Len(s) \in Nat /\ DOMAIN s = 1..Len(s)
      /\ Len(Append(s, x)) = Len(s) + 1 /\ DOMAIN Append(s, x) = 1..(Len(s) + 1)
      /\ \A i \in DOMAIN s : Append(s, x)[i] = s[i]
      /\ Append(s, x)[Len(s) + 1] = x
  BY <1>1
<1>3. Append(s, x) \in Seq(Elements(Append(s, x)))
  BY <1>2, OverRange
<1> QED BY <1>2, <1>3

\* A receipt (Mine) leaves everything of a transaction but its status.
Receipted(s, t, m, v) ==
  /\ t \in Seq(Elements(t)) /\ Len(t) = Len(s) /\ DOMAIN t = DOMAIN s
  /\ \A i \in DOMAIN t :
       /\ WellFormed(t[i]) /\ t[i].client = s[i].client /\ t[i].index = s[i].index
       /\ Names(t[i]) = Names(s[i]) /\ t[i].op = s[i].op
       /\ t[i].status = IF i = m THEN v ELSE s[i].status

LEMMA StatusSet ==
  ASSUME NEW s, s \in Seq(Elements(s)), \A i \in DOMAIN s : WellFormed(s[i]),
         NEW m \in DOMAIN s, NEW v, NEW t, t = [s EXCEPT ![m].status = v]
  PROVE  Receipted(s, t, m, v)
<1>1. /\ DOMAIN t = DOMAIN s /\ t[m] = [s[m] EXCEPT !.status = v]
      /\ \A i \in DOMAIN s : i # m => t[i] = s[i]
  OBVIOUS
<1>2. t \in Seq(Elements(t)) /\ Len(t) = Len(s)
  <2>1. s \in Seq(Elements(s) \union {t[m]}) /\ DOMAIN s = 1..Len(s)
    OBVIOUS
  <2>2. t = [s EXCEPT ![m] = t[m]]
    BY <1>1
  <2>3. t \in Seq(Elements(s) \union {t[m]}) /\ Len(t) = Len(s)
    BY <2>1, <2>2, ExceptSeq
  <2> QED BY <2>3, OverRange
<1>3. s[m] = [op |-> s[m].op, bucket |-> s[m].bucket, file |-> s[m].file, index |-> s[m].index,
              client |-> s[m].client, status |-> s[m].status]
  BY DEF WellFormed
<1>4. t[m] = [op |-> s[m].op, bucket |-> s[m].bucket, file |-> s[m].file, index |-> s[m].index,
              client |-> s[m].client, status |-> v]
  BY <1>1, <1>3
<1>5. /\ WellFormed(t[m]) /\ t[m].client = s[m].client /\ t[m].index = s[m].index
      /\ Names(t[m]) = Names(s[m]) /\ t[m].op = s[m].op /\ t[m].status = v
  BY <1>4 DEF WellFormed, Names
<1>6. ASSUME NEW i \in DOMAIN s
      PROVE  /\ WellFormed(t[i]) /\ t[i].client = s[i].client /\ t[i].index = s[i].index
             /\ Names(t[i]) = Names(s[i]) /\ t[i].op = s[i].op
             /\ t[i].status = IF i = m THEN v ELSE s[i].status
  BY <1>1, <1>5
<1> QED BY <1>1, <1>2, <1>6 DEF Receipted

\* Transactions can be counted.
LEMMA Counted ==
  ASSUME NEW n \in Nat, NEW S, NEW T, S \subseteq T, T \subseteq 1..n
  PROVE  /\ IsFiniteSet(S) /\ IsFiniteSet(T) /\ Cardinality(S) \in Nat /\ Cardinality(T) \in Nat
         /\ Cardinality(S) <= Cardinality(T)
         /\ S # T => Cardinality(S) + 1 <= Cardinality(T)
<1>1. IsFiniteSet(1..n)
  BY FS_Interval
<1>2. IsFiniteSet(T) /\ IsFiniteSet(S)
  BY <1>1, FS_Subset
<1>3. Cardinality(S) \in Nat /\ Cardinality(T) \in Nat /\ Cardinality(S) <= Cardinality(T)
  BY <1>2, FS_CardinalityType, FS_Subset
<1>4. S # T => Cardinality(S) # Cardinality(T)
  BY <1>2, FS_Subset, Zenon
<1> QED BY <1>2, <1>3, <1>4

\* The contract refuses with one of its errors, and an index only in a deletion (Refusal).
LEMMA RefusalKinds ==
  ASSUME NEW t, t.op \in Retried \union {"DeleteBucket", "DeleteFile", "SetPublic"}
  PROVE  /\ Refusal(t) \in Refusals \union {"none"}
         /\ Refusal(t) = "IndexMismatch" =>
              /\ t.op \in Deletes
              /\ t.index \notin IF t.op = "DeleteBucket" THEN BucketAt(t.bucket) ELSE FileAt(t.bucket, t.file)
BY DEF Refusal, Refusals, Retried, Deletes
-----------------------------------------------------------------------------
(* The steps of a client. *)

\* What c does to the list of transactions: nothing, or one of its own at the end.
Lengths ==
  /\ Len(txs) \in Nat /\ DOMAIN txs = 1..Len(txs)
  /\ Len(txs') \in Nat /\ DOMAIN txs' = 1..Len(txs')
  /\ Len(txs') = Len(txs) \/ Len(txs') = Len(txs) + 1

Extended(c) ==
  /\ Lengths /\ \A t \in DOMAIN txs : t \in DOMAIN txs' /\ txs'[t] = txs[t]
  /\ Len(txs') # Len(txs) => txs'[Len(txs) + 1] = Transaction(c)

\* Whatever c does, the contract and the other clients are left as they are.
Alone(c) ==
  /\ buckets' = buckets /\ mined' = mined /\ call' = call
  /\ \A v \in Client \ {c} :
       /\ pc'[v] = pc[v] /\ todo'[v] = todo[v] /\ index'[v] = index[v] /\ seenAt'[v] = seenAt[v]
       /\ nonce'[v] = nonce[v] /\ tries'[v] = tries[v] /\ beaten'[v] = beaten[v]
       /\ lost'[v] = lost[v] /\ outcome'[v] = outcome[v]

LEMMA StepAlone ==
  ASSUME TypeInv, NEW c \in Client, ClientStep(c)
  PROVE  Alone(c) /\ (txs' = txs \/ (Accepted(c) /\ txs' = Append(txs, Transaction(c))))
<1> USE DEF TypeInv, ClientTypes, Alone, GoTo, Return, ClientOther, chainVars
<1>1. CASE Start(c)
  BY <1>1 DEF Start
<1>2. CASE ReadFound(c)
  BY <1>2 DEF ReadFound
<1>3. CASE ReadFails(c)
  BY <1>3 DEF ReadFails
<1>4. CASE Prepare(c)
  BY <1>4 DEF Prepare
<1>5. CASE Send(c)
  BY <1>5 DEF Send
<1>6. CASE NonceTaken(c)
  BY <1>6 DEF NonceTaken, SendAgain
<1>7. CASE AnswerLost(c)
  BY <1>7 DEF AnswerLost, SendAgain
<1>8. CASE WaitForTx(c)
  BY <1>8 DEF WaitForTx
<1>9. CASE WaitFails(c)
  BY <1>9 DEF WaitFails
<1>10. CASE LookupBucket(c)
  BY <1>10 DEF LookupBucket
<1> QED BY <1>1, <1>2, <1>3, <1>4, <1>5, <1>6, <1>7, <1>8, <1>9, <1>10 DEF ClientStep

LEMMA StepExtends ==
  ASSUME TypeInv, NEW c \in Client, txs' = txs \/ txs' = Append(txs, Transaction(c))
  PROVE  /\ Extended(c) /\ txs' \in Seq(Elements(txs)')
         /\ Len(txs) + 1 \in Nat /\ Len(txs') \in Nat /\ Len(txs') >= Len(txs)
         /\ \A t \in DOMAIN txs' : WellFormed(txs'[t])
<1>1. WellFormed(Transaction(c))
  BY DEF WellFormed, Transaction
<1>2. txs \in Seq(Elements(txs)) /\ \A t \in DOMAIN txs : WellFormed(txs[t])
  BY DEF TypeInv
<1>3. CASE txs' = txs
  <2>1. Len(txs) \in Nat /\ DOMAIN txs = 1..Len(txs)
    BY <1>2
  <2>2. Elements(txs)' = Elements(txs)
    BY <1>3 DEF Elements
  <2>3. Extended(c)
    BY <1>3, <2>1 DEF Extended, Lengths
  <2> QED BY <1>2, <1>3, <2>1, <2>2, <2>3
<1>4. CASE txs' = Append(txs, Transaction(c))
  <2>1. /\ txs' \in Seq(Elements(txs')) /\ Len(txs) \in Nat /\ DOMAIN txs = 1..Len(txs)
        /\ Len(txs') = Len(txs) + 1 /\ DOMAIN txs' = 1..(Len(txs) + 1)
        /\ \A i \in DOMAIN txs : txs'[i] = txs[i]
        /\ txs'[Len(txs) + 1] = Transaction(c)
    BY <1>2, <1>4, Appended
  <2>2. \A t \in DOMAIN txs' : t \in DOMAIN txs \/ t = Len(txs) + 1
    BY <2>1
  <2>3. \A t \in DOMAIN txs' : WellFormed(txs'[t])
    BY <1>1, <1>2, <2>1, <2>2, Zenon
  <2>4. Elements(txs)' = Elements(txs')
    BY DEF Elements
  <2>5. Extended(c)
    <3>1. Lengths
      BY <2>1 DEF Lengths
    <3> QED BY <2>1, <2>2, <3>1 DEF Extended
  <2>6. Len(txs) + 1 \in Nat /\ Len(txs') \in Nat /\ Len(txs') >= Len(txs)
    BY <2>1
  <2> QED BY <2>1, <2>3, <2>4, <2>5, <2>6, Zenon
<1> QED BY <1>3, <1>4

\* The types are kept.
LEMMA StepTyped ==
  ASSUME OperationsInv, NEW c \in Client, ClientStep(c)
  PROVE  TypeInv'
<1>1. TypeInv /\ ClientTypes
  BY DEF OperationsInv, TypeInv
<1>2. /\ Extended(c) /\ txs' \in Seq(Elements(txs)') /\ \A t \in DOMAIN txs' : WellFormed(txs'[t])
      /\ Len(txs) + 1 \in Nat /\ Len(txs') \in Nat /\ Len(txs') >= Len(txs)
      /\ Alone(c)
  BY <1>1, StepAlone, StepExtends
<1>3. mined' \in 0..Len(txs') /\ call' \in [Client -> Call] /\ mined \in Nat
  <2>1. mined' \in 0..Len(txs') /\ mined \in Nat
    <3>1. mined' = mined
      BY <1>2 DEF Alone
    <3>2. mined \in 0..Len(txs)
      BY <1>1 DEF TypeInv
    <3> QED BY <1>2, <3>1, <3>2
  <2>2. call' \in [Client -> Call]
    BY <1>1, <1>2 DEF Alone, ClientTypes
  <2> QED BY <2>1, <2>2
<1>4. MayRetry(c) => tries[c] + 1 \in 0..MaxRetries
  BY <1>1, OperationsAssumption DEF ClientTypes, MayRetry
<1>5. Refusal(Transaction(c)) \in Refusals \union {"none"}
  <2>1. call[c].op \in Retried \union {"DeleteBucket", "DeleteFile", "SetPublic"}
    BY <1>1, OperationsAssumption DEF ClientTypes
  <2>2. Transaction(c).op = call[c].op
    BY DEF Transaction
  <2> QED BY <2>1, <2>2, RefusalKinds
<1>6. pc[c] = "wait" /\ Receipt(c) # "pending" /\ ~Successful(c) => Receipt(c) \in Refusals
  BY DEF OperationsInv, ChainInv, ClientInv, OutcomeInv, Own, Receipt, Successful
<1> HIDE DEF Refusals
<1> DEFINE pcTyped == pc' \in [Client -> {"start", "read", "send", "sending", "wait", "lookup", "done"}]
           outcomeTyped == outcome' \in [Client -> {"none", "nil", "read", "nonce", "EOF", "receipt", "lookup"}
                                                      \union Refusals]
           countersTyped == /\ seenAt' \in [Client -> Nat] /\ nonce' \in [Client -> Nat]
                            /\ beaten' \in [Client -> Nat] /\ tries' \in [Client -> 0..MaxRetries]
           restTyped == /\ todo' = [v \in Client |-> todo'[v]] /\ index' = [v \in Client |-> index'[v]]
                        /\ lost' \in [Client -> BOOLEAN]
<1>7. pcTyped /\ outcomeTyped /\ countersTyped /\ restTyped
  <2> USE <1>1 DEF ClientTypes, GoTo, Return
  <2>1. CASE Start(c)
    BY <2>1 DEF Start
  <2>2. CASE ReadFound(c)
    <3>2. pcTyped /\ outcomeTyped
      BY <2>2 DEF ReadFound
    <3>3. countersTyped
      BY <1>3, <2>2, OperationsAssumption DEF ReadFound
    <3>4. restTyped
      BY <2>2 DEF ReadFound
    <3> QED BY <3>2, <3>3, <3>4
  <2>3. CASE ReadFails(c)
    <3>1. pcTyped /\ outcomeTyped /\ restTyped
      BY <2>3 DEF ReadFails
    <3>2. countersTyped
      BY <1>4, <2>3 DEF ReadFails
    <3> QED BY <3>1, <3>2
  <2>4. CASE Prepare(c)
    <3>1. pcTyped /\ restTyped
      BY <2>4 DEF Prepare
    <3>2. outcomeTyped
      BY <1>5, <2>4 DEF Prepare
    <3>3. countersTyped
      BY <1>2, <2>4 DEF Prepare
    <3> QED BY <3>1, <3>2, <3>3
  <2>5. CASE Send(c)
    BY <2>5 DEF Send
  <2>6. CASE NonceTaken(c)
    <3>1. pcTyped /\ outcomeTyped /\ restTyped
      BY <2>6 DEF NonceTaken, SendAgain
    <3>2. countersTyped
      BY <1>4, <2>6 DEF NonceTaken, SendAgain
    <3> QED BY <3>1, <3>2
  <2>7. CASE AnswerLost(c)
    <3>1. pcTyped /\ outcomeTyped /\ restTyped
      BY <2>7 DEF AnswerLost, SendAgain
    <3>2. countersTyped
      BY <1>4, <2>7 DEF AnswerLost, SendAgain
    <3> QED BY <3>1, <3>2
  <2>8. CASE WaitForTx(c)
    <3>1. pcTyped /\ countersTyped /\ restTyped
      BY <2>8 DEF WaitForTx
    <3>2. outcomeTyped
      BY <1>6, <2>8 DEF WaitForTx
    <3> QED BY <3>1, <3>2
  <2>9. CASE WaitFails(c)
    BY <2>9 DEF WaitFails
  <2>10. CASE LookupBucket(c)
    BY <2>10 DEF LookupBucket
  <2> QED BY <2>1, <2>2, <2>3, <2>4, <2>5, <2>6, <2>7, <2>8, <2>9, <2>10 DEF ClientStep
<1> QED BY <1>2, <1>3, <1>7 DEF TypeInv, ClientTypes

LEMMA OneMore ==
  ASSUME NEW n \in Nat, NEW m \in Nat, m = n \/ m = n + 1
  PROVE  (\A t \in 1..m : t \in 1..n \/ (t = n + 1 /\ m # n)) /\ (m # n => n + 1 \in 1..m)
OBVIOUS

\* The list of transactions grows by one at most, at its end.
LEMMA Grown ==
  ASSUME Lengths
  PROVE  /\ Len(txs) \in Nat /\ Len(txs') \in Nat /\ Len(txs) <= Len(txs')
         /\ DOMAIN txs = 1..Len(txs) /\ DOMAIN txs' = 1..Len(txs')
         /\ \A t \in DOMAIN txs' : t \in DOMAIN txs \/ (t = Len(txs) + 1 /\ Len(txs') # Len(txs))
         /\ Len(txs) + 1 \notin DOMAIN txs /\ (Len(txs') # Len(txs) => Len(txs) + 1 \in DOMAIN txs')
         /\ \A t \in Nat \ {0} : t <= Len(txs) => t \in DOMAIN txs
<1>1. Len(txs) \in Nat
  BY DEF Lengths
<1>2. Len(txs') \in Nat
  BY DEF Lengths
<1>3. DOMAIN txs = 1..Len(txs)
  BY DEF Lengths
<1>4. DOMAIN txs' = 1..Len(txs')
  BY DEF Lengths
<1>5. Len(txs') = Len(txs) \/ Len(txs') = Len(txs) + 1
  BY DEF Lengths
<1>6. Len(txs) <= Len(txs')
  BY <1>1, <1>2, <1>5
<1>7. \A t \in DOMAIN txs' : t \in DOMAIN txs \/ (t = Len(txs) + 1 /\ Len(txs') # Len(txs))
  BY <1>1, <1>2, <1>3, <1>4, <1>5, OneMore, Zenon
<1>8. Len(txs) + 1 \notin DOMAIN txs
  BY <1>1, <1>3
<1>9. Len(txs') # Len(txs) => Len(txs) + 1 \in DOMAIN txs'
  BY <1>1, <1>2, <1>4, <1>5, OneMore, Zenon
<1>10. \A t \in Nat \ {0} : t <= Len(txs) => t \in DOMAIN txs
  BY <1>1, <1>3
<1> QED BY <1>1, <1>2, <1>3, <1>4, <1>6, <1>7, <1>8, <1>9, <1>10, Zenon

\* No transaction is another's: only c can get one, and only at the end.
LEMMA StepOwn ==
  ASSUME NEW c \in Client, Extended(c)
  PROVE  /\ \A v \in Client \ {c} : Own(v)' = Own(v)
         /\ Len(txs') = Len(txs) => Own(c)' = Own(c) /\ (DOMAIN txs)' = DOMAIN txs
         /\ Len(txs') # Len(txs) => /\ Own(c)' = Own(c) \union {Len(txs) + 1}
                                    /\ (DOMAIN txs)' = DOMAIN txs \union {Len(txs) + 1}
         /\ Own(c) \subseteq DOMAIN txs /\ DOMAIN txs \subseteq (DOMAIN txs)' /\ Len(txs) + 1 \notin DOMAIN txs
<1>0. Lengths
  BY DEF Extended
<1>1. Transaction(c).client = c
  BY DEF Transaction
<1>2. \A t \in DOMAIN txs' : t \in DOMAIN txs \/ (t = Len(txs) + 1 /\ Len(txs') # Len(txs) /\ txs'[t].client = c)
  <2>1. \A t \in DOMAIN txs' : t \in DOMAIN txs \/ (t = Len(txs) + 1 /\ Len(txs') # Len(txs))
    BY <1>0, Grown
  <2> QED BY <1>1, <2>1 DEF Extended
<1>3. \A t \in DOMAIN txs : t \in DOMAIN txs' /\ txs'[t] = txs[t]
  BY DEF Extended
<1>4. Len(txs) + 1 \notin DOMAIN txs /\ (Len(txs') # Len(txs) => Len(txs) + 1 \in DOMAIN txs')
  BY <1>0, Grown
<1>5. ASSUME NEW v \in Client \ {c} PROVE Own(v)' = Own(v)
  BY <1>2, <1>3 DEF Own
<1>6. Len(txs') = Len(txs) => Own(c)' = Own(c) /\ (DOMAIN txs)' = DOMAIN txs
  BY <1>2, <1>3 DEF Own
<1>7. Len(txs') # Len(txs) => (DOMAIN txs)' = DOMAIN txs \union {Len(txs) + 1}
  BY <1>2, <1>3, <1>4
<1>8. Len(txs') # Len(txs) => Own(c)' = Own(c) \union {Len(txs) + 1}
  <2>1. SUFFICES ASSUME Len(txs') # Len(txs), NEW t
                 PROVE  t \in Own(c)' <=> t \in Own(c) \/ t = Len(txs) + 1
    BY DEF Own
  <2>2. Len(txs) + 1 \in DOMAIN txs' /\ txs'[Len(txs) + 1].client = c
    BY <1>2, <1>4, <2>1
  <2>3. t \in Own(c)' <=> t \in DOMAIN txs' /\ txs'[t].client = c
    BY DEF Own
  <2>4. t \in Own(c) <=> t \in DOMAIN txs /\ txs[t].client = c
    BY DEF Own
  <2> QED BY <1>2, <1>3, <2>2, <2>3, <2>4
<1>9. Own(c) \subseteq DOMAIN txs /\ DOMAIN txs \subseteq (DOMAIN txs)'
  BY <1>3 DEF Own
<1> QED BY <1>4, <1>5, <1>6, <1>7, <1>8, <1>9, Zenon

\* What was disturbed stays so, and another's call knows of no step of c.
LEMMA StepDisturbs ==
  ASSUME NEW c \in Client, Extended(c), mined \in 0..Len(txs), mined' = mined, NEW v \in Client,
         seenAt[v] \in Nat, seenAt'[v] = seenAt[v]
  PROVE  Disturbed(v)' <=> Disturbed(v)
<1>0. Lengths
  BY DEF Extended
<1>1. \A t \in (seenAt[v] + 1)..mined : t \in DOMAIN txs
  <2>1. Len(txs) \in Nat
    BY <1>0, Grown
  <2>2. \A t \in Nat \ {0} : t <= Len(txs) => t \in DOMAIN txs
    BY <1>0, Grown
  <2> QED BY <2>1, <2>2
<1>2. \A t \in (seenAt[v] + 1)..mined : txs'[t] = txs[t]
  BY <1>1 DEF Extended
<1> QED BY <1>2 DEF Disturbed

LEMMA OthersKept ==
  ASSUME OperationsInv, NEW c \in Client, ClientStep(c), NEW v \in Client \ {c}
  PROVE  ClientInv(v)'
<1>1. TypeInv /\ ClientTypes /\ ClientInv(v)
  BY DEF OperationsInv, TypeInv
<1>2. Extended(c) /\ Alone(c)
  BY <1>1, StepAlone, StepExtends
<1>3. /\ Own(v)' = Own(v) /\ Own(v) \subseteq DOMAIN txs
      /\ \A t \in Own(v) : txs'[t] = txs[t]
      /\ DOMAIN txs \subseteq DOMAIN txs'
  <2>1. Own(v)' = Own(v) /\ DOMAIN txs \subseteq DOMAIN txs'
    BY <1>2, StepOwn
  <2>2. Own(v) \subseteq DOMAIN txs
    BY DEF Own
  <2> QED BY <1>2, <2>1, <2>2 DEF Extended
<1>4. /\ buckets' = buckets /\ mined' = mined /\ call' = call
      /\ pc'[v] = pc[v] /\ todo'[v] = todo[v] /\ index'[v] = index[v] /\ seenAt'[v] = seenAt[v]
      /\ nonce'[v] = nonce[v] /\ tries'[v] = tries[v] /\ beaten'[v] = beaten[v]
      /\ lost'[v] = lost[v] /\ outcome'[v] = outcome[v]
  BY <1>2 DEF Alone
<1>5. OutcomeInv(v)'
  BY <1>1, <1>3, <1>4 DEF ClientInv, OutcomeInv
<1>6. EffectInv(v)'
  BY <1>1, <1>3, <1>4 DEF ClientInv, EffectInv
<1>7. IndexInv(v)'
  <2>1. Disturbed(v)' <=> Disturbed(v)
    BY <1>1, <1>2, <1>4, StepDisturbs DEF TypeInv, ClientTypes
  <2>2. IndexValid(v)' <=> IndexValid(v)
    BY <1>4 DEF IndexValid, BucketAt, FileAt, Files, Exists
  <2>3. Unread(v)' = Unread(v)
    BY <1>4 DEF Unread
  <2>4. pc[v] = "wait" => nonce[v] \in Own(v)
    BY <1>1 DEF ClientInv, OutcomeInv
  <2>5. IndexInv(v)
    BY <1>1 DEF ClientInv
  <2> QED BY <1>3, <1>4, <2>1, <2>2, <2>3, <2>4, <2>5 DEF IndexInv
<1>8. NonceInv(v)'
  <2>1. NonceInv(v) /\ beaten[v] \in Nat
    BY <1>1 DEF ClientInv, ClientTypes
  <2>2. /\ Len(txs) \in Nat /\ Len(txs') \in Nat /\ Len(txs) <= Len(txs')
        /\ DOMAIN txs = 1..Len(txs) /\ DOMAIN txs' = 1..Len(txs')
    <3>1. Lengths
      BY <1>2 DEF Extended
    <3> QED BY <3>1, Grown
  <2>3. beaten[v] <= Cardinality(DOMAIN txs' \ Own(v))
    <3>1. Cardinality(DOMAIN txs \ Own(v)) <= Cardinality(DOMAIN txs' \ Own(v))
      BY <1>3, <2>2, Counted
    <3>2. Cardinality(DOMAIN txs \ Own(v)) \in Nat /\ Cardinality(DOMAIN txs' \ Own(v)) \in Nat
      BY <1>3, <2>2, Counted
    <3> QED BY <2>1, <3>1, <3>2 DEF NonceInv
  <2>4. pc[v] = "sending" =>
          /\ nonce[v] \in 1..(Len(txs') + 1) /\ \A t \in nonce[v]..Len(txs') : t \notin Own(v)
          /\ beaten[v] <= Cardinality((1..(nonce[v] - 1)) \ Own(v))
    BY <1>3, <2>1, <2>2 DEF NonceInv
  <2> QED BY <1>3, <1>4, <2>1, <2>3, <2>4 DEF NonceInv
<1> QED BY <1>5, <1>6, <1>7, <1>8 DEF ClientInv

\* A transaction that is sent is pending and asks what its client was asked.
LEMMA ChainKept ==
  ASSUME OperationsInv, NEW c \in Client, ClientStep(c)
  PROVE  ChainInv'
<1>1. TypeInv /\ ClientTypes /\ ChainInv
  BY DEF OperationsInv, TypeInv
<1>2. Extended(c) /\ Alone(c) /\ Lengths
  BY <1>1, StepAlone, StepExtends DEF Extended
<1>3. /\ Transaction(c).status = "pending" /\ Transaction(c).client = c
      /\ Names(Transaction(c)) = Names(call[c])
  BY DEF Transaction, Names
<1>4. \A t \in DOMAIN txs' : (t \in DOMAIN txs /\ txs'[t] = txs[t]) \/ (t = Len(txs) + 1 /\ txs'[t] = Transaction(c))
  <2>1. \A t \in DOMAIN txs' : t \in DOMAIN txs \/ (t = Len(txs) + 1 /\ Len(txs') # Len(txs))
    BY <1>2, Grown
  <2> QED BY <1>2, <2>1 DEF Extended
<1>5. Len(txs) + 1 > mined
  <2>1. mined \in 0..Len(txs)
    BY <1>1 DEF TypeInv
  <2>2. Len(txs) \in Nat
    BY <1>2, Grown
  <2> QED BY <2>1, <2>2
<1>6. mined' = mined /\ call' = call
  BY <1>2 DEF Alone
<1>7. SUFFICES ASSUME NEW t \in DOMAIN txs'
               PROVE  /\ txs'[t].status = "pending" <=> t > mined
                      /\ txs'[t].status \in {"pending", "success"} \union Refusals
                      /\ txs'[t].client \in Client /\ Names(txs'[t]) = Names(call[txs'[t].client])
                      /\ txs'[t].status = "IndexMismatch" => txs'[t].op \in Deletes
  BY <1>6 DEF ChainInv, Names
<1>8. CASE t \in DOMAIN txs /\ txs'[t] = txs[t]
  BY <1>1, <1>8 DEF ChainInv
<1>9. CASE t = Len(txs) + 1 /\ txs'[t] = Transaction(c)
  BY <1>3, <1>5, <1>9
<1> QED BY <1>4, <1>8, <1>9

\* What a client knows of its transaction and of its outcome.
LEMMA OutcomeKept ==
  ASSUME OperationsInv, NEW c \in Client, ClientStep(c)
  PROVE  OutcomeInv(c)'
<1>1. TypeInv /\ ClientTypes /\ OutcomeInv(c)
  BY DEF OperationsInv, TypeInv, ClientInv
<1>2. Extended(c) /\ (txs' = txs \/ (Accepted(c) /\ txs' = Append(txs, Transaction(c))))
  BY <1>1, StepAlone, StepExtends
<1>3. /\ txs' = txs => Own(c)' = Own(c)
      /\ Own(c) \subseteq Own(c)' /\ \A t \in Own(c) : txs'[t] = txs[t]
  BY <1>2 DEF Extended, Own
<1> USE <1>1 DEF ClientTypes, OutcomeInv, GoTo, Return
<1>4. CASE Start(c)
  BY <1>3, <1>4 DEF Start, ClientOther, chainVars
<1>5. CASE ReadFound(c)
  BY <1>3, <1>5 DEF ReadFound, ClientOther, chainVars
<1>6. CASE ReadFails(c)
  BY <1>3, <1>6 DEF ReadFails, ClientOther, chainVars
<1>7. CASE Prepare(c)
  <2>1. Refusal(Transaction(c)) # "none" => Refusal(Transaction(c)) \notin {"none", "nil"}
    <3>1. Transaction(c).op = call[c].op /\ call[c].op \in Retried \union {"DeleteBucket", "DeleteFile", "SetPublic"}
      BY OperationsAssumption DEF Transaction
    <3> QED BY <3>1, RefusalKinds DEF Refusals
  <2> QED BY <1>3, <1>7, <2>1 DEF Prepare, ClientOther, chainVars
<1>8. CASE Send(c)
  <2>1. Len(txs) + 1 \in Own(c)'
    <3>1. Len(txs') # Len(txs)
      BY <1>8, Appended DEF Send, TypeInv
    <3> QED BY <1>2, <3>1, StepOwn
  <2> QED BY <1>8, <2>1 DEF Send, Accepted
<1>9. CASE NonceTaken(c)
  BY <1>3, <1>9 DEF NonceTaken, SendAgain, ClientOther, chainVars
<1>10. CASE AnswerLost(c)
  BY <1>3, <1>10 DEF AnswerLost, SendAgain
<1>11. CASE WaitForTx(c)
  <2>1. pc[c] = "wait" /\ ~Successful(c) /\ Receipt(c) # "pending" => Receipt(c) \notin {"none", "nil"}
    BY DEF OperationsInv, ChainInv, Successful, Receipt, Own, Refusals
  <2> QED BY <1>3, <1>11, <2>1 DEF WaitForTx, Successful, Receipt, ClientOther, chainVars
<1>12. CASE WaitFails(c)
  BY <1>3, <1>12 DEF WaitFails, ClientOther, chainVars
<1>13. CASE LookupBucket(c)
  BY <1>3, <1>13 DEF LookupBucket, ClientOther, chainVars
<1> QED BY <1>4, <1>5, <1>6, <1>7, <1>8, <1>9, <1>10, <1>11, <1>12, <1>13 DEF ClientStep

\* Send and AnswerLost give the client a transaction under the nonce it has read.
LEMMA Sent ==
  ASSUME OperationsInv, NEW c \in Client, Send(c) \/ AnswerLost(c)
  PROVE  /\ nonce[c] = Len(txs) + 1 /\ nonce[c] \notin DOMAIN txs
         /\ Own(c)' = Own(c) \union {nonce[c]} /\ DOMAIN txs' = DOMAIN txs \union {nonce[c]}
         /\ nonce[c] \notin Own(c) /\ DOMAIN txs' \ Own(c)' = DOMAIN txs \ Own(c)
         /\ txs'[nonce[c]] = Transaction(c)
         /\ \A t \in Own(c) : txs'[t] = txs[t]
<1>1. TypeInv
  BY DEF OperationsInv
<1>2. nonce[c] = Len(txs) + 1 /\ txs' = Append(txs, Transaction(c))
  BY DEF Send, AnswerLost, Accepted
<1>3. Extended(c)
  BY <1>1, <1>2, StepExtends
<1>4. Len(txs') # Len(txs)
  BY <1>1, <1>2, Appended DEF TypeInv
<1>5. /\ Own(c)' = Own(c) \union {Len(txs) + 1} /\ DOMAIN txs' = DOMAIN txs \union {Len(txs) + 1}
      /\ Len(txs) + 1 \notin DOMAIN txs
  BY <1>3, <1>4, StepOwn
<1>6. txs'[Len(txs) + 1] = Transaction(c) /\ \A t \in Own(c) : txs'[t] = txs[t]
  BY <1>3, <1>4 DEF Extended, Own
<1>7. Len(txs) + 1 \notin Own(c) /\ DOMAIN txs' \ Own(c)' = DOMAIN txs \ Own(c)
  <2>1. Own(c) \subseteq DOMAIN txs
    BY DEF Own
  <2> QED BY <1>5, <2>1
<1> QED BY <1>2, <1>5, <1>6, <1>7, Zenon

\* An error means no effect, and no call acts twice, unless an answer was lost.
LEMMA EffectKept ==
  ASSUME OperationsInv, NEW c \in Client, ClientStep(c)
  PROVE  EffectInv(c)'
<1>1. ClientTypes /\ EffectInv(c) /\ OutcomeInv(c)
  BY DEF OperationsInv, TypeInv, ClientInv
<1>2. txs' = txs => Own(c)' = Own(c)
  BY DEF Own
<1> USE <1>1 DEF ClientTypes, EffectInv, GoTo, Return
<1>4. CASE Start(c)
  BY <1>2, <1>4 DEF Start, ClientOther, chainVars, OutcomeInv
<1>5. CASE ReadFound(c)
  BY <1>2, <1>5 DEF ReadFound, ClientOther, chainVars, OutcomeInv
<1>6. CASE ReadFails(c)
  BY <1>2, <1>6 DEF ReadFails, ClientOther, chainVars, OutcomeInv
<1>7. CASE Prepare(c)
  BY <1>2, <1>7 DEF Prepare, ClientOther, chainVars, OutcomeInv
<1>8. CASE Send(c)
  <2>1. Own(c)' = Own(c) \union {nonce[c]}
    BY <1>8, Sent
  <2>2. call' = call /\ lost' = lost /\ nonce' = nonce /\ outcome'[c] = "none" /\ pc'[c] = "wait" /\ pc[c] = "sending"
    BY <1>8 DEF Send, OutcomeInv
  <2> QED BY <2>1, <2>2
<1>9. CASE NonceTaken(c)
  BY <1>2, <1>9 DEF NonceTaken, SendAgain, ClientOther, chainVars, OutcomeInv
<1>10. CASE AnswerLost(c)
  <2>1. Own(c)' = Own(c) \union {nonce[c]}
    BY <1>10, Sent
  <2>2. /\ call' = call /\ lost'[c] /\ nonce' = nonce /\ pc[c] = "sending"
        /\ call[c].op \notin Retried => pc'[c] = "done"
    BY <1>10 DEF AnswerLost, SendAgain, MayRetry
  <2> QED BY <2>1, <2>2
<1>11. CASE WaitForTx(c)
  <2>1. /\ txs' = txs /\ call' = call /\ lost' = lost /\ nonce' = nonce /\ pc[c] = "wait"
        /\ pc'[c] \in {"lookup", "done"} /\ txs[nonce[c]].status # "pending"
        /\ outcome'[c] \notin {"none", "nil"} => txs[nonce[c]].status # "success"
    BY <1>11 DEF WaitForTx, ClientOther, chainVars, OutcomeInv, Receipt, Successful
  <2> QED BY <1>2, <2>1
<1>12. CASE WaitFails(c)
  BY <1>2, <1>12 DEF WaitFails, ClientOther, chainVars, OutcomeInv
<1>13. CASE LookupBucket(c)
  BY <1>2, <1>13 DEF LookupBucket, ClientOther, chainVars, OutcomeInv
<1> QED BY <1>4, <1>5, <1>6, <1>7, <1>8, <1>9, <1>10, <1>11, <1>12, <1>13 DEF ClientStep

\* Lists of reads are short.
LEMMA TailOfOne ==
  ASSUME NEW x, NEW s, s = <<x>>
  PROVE  Head(s) = x /\ Len(s) = 1 /\ s # <<>>
OBVIOUS

LEMMA TailOfTwo ==
  ASSUME NEW x, NEW y, NEW s, s = <<x, y>>
  PROVE  Tail(s) = <<y>> /\ Len(s) # 1 /\ s # <<>>
OBVIOUS

LEMMA TailOfThree ==
  ASSUME NEW x, NEW y, NEW z, NEW s, s = <<x, y, z>>
  PROVE  Tail(s) = <<y, z>> /\ Len(s) # 1 /\ s # <<>>
OBVIOUS

\* What a deletion has still to read ends with its index.
LEMMA LastRead ==
  ASSUME NEW c, todo[c] \in Unread(c)
  PROVE  /\ todo[c] # <<>>
         /\ Len(todo[c]) # 1 => Tail(todo[c]) \in Unread(c)
         /\ Len(todo[c]) = 1 => Head(todo[c]) = IF call[c].op = "DeleteBucket" THEN "bucket index" ELSE "file index"
<1>1. CASE call[c].op = "DeleteBucket"
  <2>1. Unread(c) = {<<"bucket", "bucket index">>, <<"bucket index">>}
    BY <1>1, Zenon DEF Unread
  <2>2. CASE todo[c] = <<"bucket", "bucket index">>
    <3>1. Tail(todo[c]) = <<"bucket index">> /\ Len(todo[c]) # 1 /\ todo[c] # <<>>
      BY <2>2, TailOfTwo, Zenon
    <3>2. Tail(todo[c]) \in Unread(c)
      BY <2>1, <3>1, Zenon
    <3> QED BY <3>1, <3>2
  <2>3. CASE todo[c] = <<"bucket index">>
    BY <1>1, <2>1, <2>3, TailOfOne, Zenon
  <2> QED BY <2>1, <2>2, <2>3, Zenon
<1>2. CASE call[c].op # "DeleteBucket"
  <2>1. Unread(c) = {<<"bucket", "file", "file index">>, <<"file", "file index">>, <<"file index">>}
    BY <1>2, Zenon DEF Unread
  <2>2. CASE todo[c] = <<"bucket", "file", "file index">>
    <3>1. Tail(todo[c]) = <<"file", "file index">> /\ Len(todo[c]) # 1 /\ todo[c] # <<>>
      BY <2>2, TailOfThree, Zenon
    <3>2. Tail(todo[c]) \in Unread(c)
      BY <2>1, <3>1, Zenon
    <3> QED BY <3>1, <3>2
  <2>3. CASE todo[c] = <<"file", "file index">>
    <3>1. Tail(todo[c]) = <<"file index">> /\ Len(todo[c]) # 1 /\ todo[c] # <<>>
      BY <2>3, TailOfTwo, Zenon
    <3>2. Tail(todo[c]) \in Unread(c)
      BY <2>1, <3>1, Zenon
    <3> QED BY <3>1, <3>2
  <2>4. CASE todo[c] = <<"file index">>
    BY <1>2, <2>1, <2>4, TailOfOne, Zenon
  <2> QED BY <2>1, <2>2, <2>3, <2>4, Zenon
<1> QED BY <1>1, <1>2

\* The index of a deletion is good, or somebody has changed something since it was read.
LEMMA IndexKept ==
  ASSUME OperationsInv, NEW c \in Client, ClientStep(c)
  PROVE  IndexInv(c)'
<1>1. TypeInv /\ ClientTypes /\ IndexInv(c) /\ OutcomeInv(c)
  BY DEF OperationsInv, TypeInv, ClientInv
<1>2. Extended(c) /\ buckets' = buckets /\ mined' = mined /\ call' = call
  BY <1>1, StepAlone, StepExtends DEF Alone
<1>3. seenAt'[c] = seenAt[c] => (Disturbed(c)' <=> Disturbed(c))
  BY <1>1, <1>2, StepDisturbs DEF TypeInv, ClientTypes
<1>4. index' = index => (IndexValid(c)' <=> IndexValid(c))
  BY <1>2 DEF IndexValid, BucketAt, FileAt, Files, Exists
<1>5. Unread(c)' = Unread(c)
  BY <1>2 DEF Unread
<1>6. mined \in Nat
  BY <1>1 DEF TypeInv
<1> DEFINE W == call[c].op \in Deletes
           SeenInv == W => seenAt[c] <= mined
           TodoInv == W /\ pc[c] \in {"start", "read"} => todo[c] \in Unread(c)
           ValidInv == W /\ (pc[c] \in {"send", "sending"} \/ (pc[c] = "wait" /\ nonce[c] > mined))
                         => IndexValid(c) \/ Disturbed(c)
           SentInv == /\ W /\ pc[c] = "wait" => txs[nonce[c]].index = index[c]
                      /\ W /\ pc[c] = "wait" /\ txs[nonce[c]].status = "IndexMismatch" => Disturbed(c)
           RefusedInv == outcome[c] = "IndexMismatch" => Disturbed(c)
<1>7. IndexInv(c) <=> SeenInv /\ TodoInv /\ ValidInv /\ SentInv /\ RefusedInv
  BY DEF IndexInv
<1>8. IndexInv(c)' <=> SeenInv' /\ TodoInv' /\ ValidInv' /\ SentInv' /\ RefusedInv'
  BY DEF IndexInv
<1>9. SeenInv' /\ TodoInv' /\ ValidInv' /\ SentInv' /\ RefusedInv'
  <2> USE <1>1, <1>2, <1>7 DEF ClientTypes, OutcomeInv, GoTo, Return
  <2> HIDE DEF IndexInv
  <2>1. CASE Start(c)
    <3>1. W => todo[c] # <<>>
      BY <2>1, LastRead DEF Start
    <3> QED BY <1>3, <1>4, <1>5, <2>1, <3>1 DEF Start
  <2>2. CASE ReadFound(c)
    <3>1. SeenInv' /\ RefusedInv' /\ SentInv'
      BY <1>6, <2>2 DEF ReadFound
    <3>2. TodoInv'
      BY <1>5, <2>2, LastRead DEF ReadFound
    <3>3. ASSUME W, Len(todo[c]) = 1
          PROVE  IndexValid(c)'
      <4>1. Head(todo[c]) = IF call[c].op = "DeleteBucket" THEN "bucket index" ELSE "file index"
        BY <2>2, <3>3, LastRead DEF ReadFound
      <4>2. Found(c) = IF call[c].op = "DeleteBucket" THEN BucketAt(call[c].bucket)
                                                     ELSE FileAt(call[c].bucket, call[c].file)
        BY <4>1 DEF Found
      <4>3. index'[c] \in Found(c)
        BY <2>2 DEF ReadFound, IndexSent
      <4>4. /\ BucketAt(call[c].bucket)' = BucketAt(call[c].bucket)
            /\ FileAt(call[c].bucket, call[c].file)' = FileAt(call[c].bucket, call[c].file)
        BY DEF BucketAt, FileAt, Files, Exists
      <4> QED BY <4>2, <4>3, <4>4 DEF IndexValid
    <3>4. ValidInv'
      BY <2>2, <3>3 DEF ReadFound
    <3> QED BY <3>1, <3>2, <3>4
  <2>3. CASE ReadFails(c)
    BY <1>3, <1>4, <1>5, <2>3 DEF ReadFails
  <2>4. CASE Prepare(c)
    <3>1. Refusal(Transaction(c)) = "IndexMismatch" => W /\ ~IndexValid(c)
      <4>1. /\ Transaction(c).op = call[c].op /\ Transaction(c).bucket = call[c].bucket
            /\ Transaction(c).file = call[c].file /\ Transaction(c).index = index[c]
        BY DEF Transaction
      <4>2. call[c].op \in Retried \union {"DeleteBucket", "DeleteFile", "SetPublic"}
        BY OperationsAssumption
      <4> QED BY <4>1, <4>2, RefusalKinds DEF IndexValid
    <3>2. seenAt' = seenAt /\ index' = index /\ todo' = todo /\ pc[c] = "send" /\ pc'[c] \in {"sending", "done"}
      BY <2>4 DEF Prepare
    <3>3. outcome'[c] = "IndexMismatch" => Refusal(Transaction(c)) = "IndexMismatch"
      BY <2>4 DEF Prepare
    <3> QED BY <1>3, <1>4, <3>1, <3>2, <3>3
  <2>5. CASE Send(c)
    <3>1. txs'[nonce[c]] = Transaction(c)
      BY <2>5, Sent
    <3>2. txs'[nonce[c]].index = index[c] /\ txs'[nonce[c]].status = "pending"
      BY <3>1 DEF Transaction
    <3> QED BY <1>3, <1>4, <2>5, <3>2 DEF Send
  <2>6. CASE NonceTaken(c)
    BY <1>3, <1>4, <2>6 DEF NonceTaken, SendAgain
  <2>7. CASE AnswerLost(c)
    BY <1>3, <1>4, <2>7 DEF AnswerLost, SendAgain
  <2>8. CASE WaitForTx(c)
    <3>1. pc[c] = "wait" /\ Receipt(c) = "IndexMismatch" => W
      BY DEF OperationsInv, ChainInv, Own, Receipt, Names
    <3>2. /\ seenAt' = seenAt /\ index' = index /\ pc[c] = "wait" /\ pc'[c] \in {"lookup", "done"}
          /\ outcome'[c] = "IndexMismatch" => Receipt(c) = "IndexMismatch"
      BY <2>8 DEF WaitForTx
    <3> QED BY <1>3, <3>1, <3>2 DEF Receipt
  <2>9. CASE WaitFails(c)
    BY <1>3, <2>9 DEF WaitFails
  <2>10. CASE LookupBucket(c)
    BY <1>3, <2>10 DEF LookupBucket
  <2> QED BY <2>1, <2>2, <2>3, <2>4, <2>5, <2>6, <2>7, <2>8, <2>9, <2>10 DEF ClientStep
<1> QED BY <1>8, <1>9

\* Every nonce that was lost is another's, and every attempt was spent on one or on a
\* transaction of the client's own.
LEMMA NonceKept ==
  ASSUME OperationsInv, NEW c \in Client, ClientStep(c)
  PROVE  NonceInv(c)'
<1>1. ClientTypes /\ NonceInv(c) /\ OutcomeInv(c) /\ Extended(c) /\ Lengths
  BY StepAlone, StepExtends DEF OperationsInv, TypeInv, ClientInv, Extended
<1>2. txs' = txs => Own(c)' = Own(c)
  BY DEF Own
<1>3. Len(txs) \in Nat /\ DOMAIN txs = 1..Len(txs) /\ Own(c) \subseteq 1..Len(txs)
  BY <1>1, Grown DEF Own
<1>4. /\ Cardinality(Own(c)) \in Nat /\ beaten[c] \in Nat /\ tries[c] \in 0..MaxRetries
      /\ Cardinality(DOMAIN txs \ Own(c)) \in Nat
  BY <1>1, <1>3, Counted DEF ClientTypes
<1>5. MaxRetries \in Nat
  BY OperationsAssumption
<1>6. Refusal(Transaction(c)) # "nonce"
  <2>1. Transaction(c).op = call[c].op /\ call[c].op \in Retried \union {"DeleteBucket", "DeleteFile", "SetPublic"}
    BY <1>1, OperationsAssumption DEF Transaction, ClientTypes
  <2> QED BY <2>1, RefusalKinds DEF Refusals
<1>7. pc[c] = "wait" /\ Receipt(c) # "pending" /\ ~Successful(c) => Receipt(c) # "nonce"
  BY <1>1 DEF OutcomeInv, OperationsInv, ChainInv, Successful, Receipt, Own, Refusals
<1> DEFINE LostInv == beaten[c] <= Cardinality(DOMAIN txs \ Own(c))
           AimInv == pc[c] = "sending" =>
                       /\ nonce[c] \in 1..(Len(txs) + 1) /\ \A t \in nonce[c]..Len(txs) : t \notin Own(c)
                       /\ beaten[c] <= Cardinality((1..(nonce[c] - 1)) \ Own(c))
           TriesInv == call[c].op \in Retried /\ pc[c] \in {"start", "send", "sending"}
                         => tries[c] <= beaten[c] + Cardinality(Own(c))
           GivenUpInv == outcome[c] = "nonce" =>
                       beaten[c] + Cardinality(Own(c)) > (IF call[c].op \in Retried THEN MaxRetries ELSE 0)
<1>8. NonceInv(c) <=> LostInv /\ AimInv /\ TriesInv /\ GivenUpInv
  BY DEF NonceInv
<1>9. NonceInv(c)' <=> LostInv' /\ AimInv' /\ TriesInv' /\ GivenUpInv'
  BY DEF NonceInv
<1>10. LostInv' /\ AimInv' /\ TriesInv' /\ GivenUpInv'
  <2> USE <1>1, <1>8 DEF ClientTypes, OutcomeInv, GoTo, Return
  <2>1. CASE Start(c)
    BY <1>2, <2>1 DEF Start, ClientOther, chainVars
  <2>2. CASE ReadFound(c)
    BY <1>2, <1>4, <2>2 DEF ReadFound, ClientOther, chainVars
  <2>3. CASE ReadFails(c)
    BY <1>2, <2>3 DEF ReadFails, ClientOther, chainVars
  <2>4. CASE Prepare(c)
    <3>1. /\ Own(c)' = Own(c) /\ txs' = txs /\ call' = call /\ tries' = tries /\ beaten' = beaten /\ pc[c] = "send"
          /\ \/ pc'[c] = "sending" /\ nonce'[c] = Len(txs) + 1 /\ outcome' = outcome
             \/ pc'[c] = "done" /\ outcome'[c] = Refusal(Transaction(c))
      BY <1>2, <2>4 DEF Prepare, ClientOther, chainVars
    <3>2. LostInv' /\ TriesInv' /\ GivenUpInv'
      BY <1>6, <3>1
    <3>3. ASSUME pc'[c] = "sending"
          PROVE  /\ nonce'[c] \in 1..(Len(txs) + 1) /\ \A t \in nonce'[c]..Len(txs) : FALSE
                 /\ 1..(nonce'[c] - 1) = DOMAIN txs
      BY <1>3, <3>1, <3>3
    <3>4. AimInv'
      BY <3>1, <3>3
    <3> QED BY <3>2, <3>4
  <2>5. CASE Send(c)
    <3>1. /\ call' = call /\ tries' = tries /\ beaten' = beaten /\ pc'[c] = "wait" /\ outcome'[c] = "none"
      BY <2>5 DEF Send
    <3>2. DOMAIN txs' \ Own(c)' = DOMAIN txs \ Own(c)
      BY <2>5, Sent, Zenon
    <3> QED BY <3>1, <3>2
  <2>6. CASE NonceTaken(c)
    <3>1. /\ Own(c)' = Own(c) /\ txs' = txs /\ call' = call /\ nonce' = nonce /\ beaten'[c] = beaten[c] + 1
          /\ pc[c] = "sending" /\ pc'[c] # "sending" /\ nonce[c] # Len(txs) + 1
          /\ \/ MayRetry(c) /\ tries'[c] = tries[c] + 1 /\ outcome'[c] = "none"
             \/ ~MayRetry(c) /\ tries'[c] = tries[c] /\ pc'[c] = "done"
      BY <1>2, <2>6 DEF NonceTaken, SendAgain, ClientOther, chainVars, Accepted
    <3>2. nonce[c] \in DOMAIN txs /\ nonce[c] \notin Own(c)
      BY <1>3, <3>1
    <3>3. beaten[c] + 1 <= Cardinality(DOMAIN txs \ Own(c))
      <4>1. (1..(nonce[c] - 1)) \ Own(c) \subseteq DOMAIN txs \ Own(c)
        BY <1>3, <3>2
      <4>2. nonce[c] \notin 1..(nonce[c] - 1)
        BY <1>3, <3>2
      <4>3. (1..(nonce[c] - 1)) \ Own(c) # DOMAIN txs \ Own(c)
        BY <3>2, <4>2
      <4>4. /\ Cardinality((1..(nonce[c] - 1)) \ Own(c)) \in Nat
            /\ Cardinality((1..(nonce[c] - 1)) \ Own(c)) + 1 <= Cardinality(DOMAIN txs \ Own(c))
        BY <1>3, <4>1, <4>3, Counted
      <4>5. beaten[c] <= Cardinality((1..(nonce[c] - 1)) \ Own(c))
        BY <3>1
      <4> QED BY <1>4, <4>4, <4>5
    <3>4. LostInv' /\ AimInv'
      BY <3>1, <3>3
    <3>5. call[c].op \in Retried => tries[c] <= beaten[c] + Cardinality(Own(c))
      BY <3>1
    <3>6. TriesInv'
      BY <1>4, <3>1, <3>5
    <3>7. call[c].op \in Retried /\ ~MayRetry(c) => tries[c] = MaxRetries
      BY <1>4, <1>5 DEF MayRetry
    <3>8. GivenUpInv'
      BY <1>4, <1>5, <3>1, <3>5, <3>7
    <3> QED BY <3>4, <3>6, <3>8
  <2>7. CASE AnswerLost(c)
    <3>1. /\ call' = call /\ beaten' = beaten /\ pc[c] = "sending" /\ pc'[c] # "sending"
          /\ \/ tries'[c] = tries[c] + 1 /\ outcome'[c] = "none"
             \/ tries'[c] = tries[c] /\ outcome'[c] = "EOF"
      BY <2>7 DEF AnswerLost, SendAgain
    <3>2. /\ DOMAIN txs' \ Own(c)' = DOMAIN txs \ Own(c)
          /\ Own(c)' = Own(c) \union {nonce[c]} /\ nonce[c] \notin Own(c) /\ nonce[c] = Len(txs) + 1
      BY <2>7, Sent, Zenon
    <3>3. LostInv' /\ AimInv' /\ GivenUpInv'
      BY <3>1, <3>2
    <3>4. Cardinality(Own(c)) + 1 <= Cardinality(Own(c)') /\ Cardinality(Own(c)') \in Nat
      <4>1. Own(c) \subseteq Own(c)' /\ Own(c) # Own(c)'
        BY <3>2
      <4>2. Own(c)' \subseteq 1..(Len(txs) + 1) /\ Len(txs) + 1 \in Nat
        BY <1>3, <3>2
      <4> QED BY <4>1, <4>2, Counted
    <3>5. TriesInv'
      <4>1. call[c].op \in Retried => tries[c] <= beaten[c] + Cardinality(Own(c))
        BY <3>1
      <4> QED BY <1>4, <3>1, <3>4, <4>1
    <3> QED BY <3>3, <3>5
  <2>8. CASE WaitForTx(c)
    <3>1. /\ Own(c)' = Own(c) /\ txs' = txs /\ call' = call /\ beaten' = beaten /\ pc'[c] \in {"lookup", "done"}
          /\ outcome'[c] # "nonce"
      BY <1>2, <1>7, <2>8 DEF WaitForTx, ClientOther, chainVars
    <3> QED BY <3>1
  <2>9. CASE WaitFails(c)
    BY <1>2, <2>9 DEF WaitFails, ClientOther, chainVars
  <2>10. CASE LookupBucket(c)
    BY <1>2, <2>10 DEF LookupBucket, ClientOther, chainVars
  <2> QED BY <2>1, <2>2, <2>3, <2>4, <2>5, <2>6, <2>7, <2>8, <2>9, <2>10 DEF ClientStep
<1> QED BY <1>9, <1>10
-----------------------------------------------------------------------------
(* A transaction is mined. *)

\* A transaction of a call has a receipt, and the contract has changed only if it was accepted.
LEMMA MinedOne ==
  ASSUME OperationsInv, Mine
  PROVE  /\ TypeInv' /\ clientVars' = clientVars /\ mined' = mined + 1 /\ mined \in Nat
         /\ mined + 1 \in DOMAIN txs /\ DOMAIN txs' = DOMAIN txs /\ Len(txs') = Len(txs)
         /\ \A t \in DOMAIN txs :
              /\ txs'[t].client = txs[t].client /\ txs'[t].index = txs[t].index
              /\ Names(txs'[t]) = Names(txs[t]) /\ txs'[t].op = txs[t].op
              /\ t # mined + 1 => txs'[t].status = txs[t].status
         /\ txs'[mined + 1].status = "success" \/ (txs'[mined + 1].status \in Refusals /\ buckets' = buckets
                /\ txs'[mined + 1].status = Refusal(txs[mined + 1]))
<1>1. TypeInv /\ ClientTypes /\ ChainInv
  BY DEF OperationsInv, TypeInv
<1>2. mined \in Nat /\ Len(txs) \in Nat /\ DOMAIN txs = 1..Len(txs)
  BY <1>1 DEF TypeInv
<1>3. mined < Len(txs) /\ mined' = mined + 1 /\ clientVars' = clientVars
  BY DEF Mine
<1>4. mined + 1 \in DOMAIN txs
  BY <1>2, <1>3
<1>5. Refusal(txs[mined + 1]) \in Refusals \union {"none"}
  <2>1. txs[mined + 1].client \in Client /\ Names(txs[mined + 1]) = Names(call[txs[mined + 1].client])
    BY <1>1, <1>4 DEF ChainInv
  <2>2. txs[mined + 1].op = call[txs[mined + 1].client].op
    BY <2>1 DEF Names
  <2>3. txs[mined + 1].op \in Retried \union {"DeleteBucket", "DeleteFile", "SetPublic"}
    BY <1>1, <2>1, <2>2, OperationsAssumption DEF ClientTypes
  <2> QED BY <2>3, RefusalKinds
<1>6. PICK v : /\ txs' = [txs EXCEPT ![mined + 1].status = v]
               /\ v = "success" \/ (v \in Refusals /\ buckets' = buckets /\ v = Refusal(txs[mined + 1]))
  <2>1. CASE Refusal(txs[mined + 1]) = "none"
    BY <2>1 DEF Mine
  <2>2. CASE Refusal(txs[mined + 1]) # "none"
    BY <1>5, <2>2 DEF Mine
  <2> QED BY <2>1, <2>2
<1>7. Receipted(txs, txs', mined + 1, v)
  <2>1. txs \in Seq(Elements(txs)) /\ \A i \in DOMAIN txs : WellFormed(txs[i])
    BY <1>1 DEF TypeInv
  <2>2. txs' = [txs EXCEPT ![mined + 1].status = v]
    BY <1>6
  <2> QED BY <1>4, <2>1, <2>2, StatusSet, Zenon
<1>8. TypeInv'
  <2>1. mined' \in 0..Len(txs')
    BY <1>2, <1>3, <1>7 DEF Receipted
  <2>2. ClientTypes'
    BY <1>1, <1>3 DEF ClientTypes, clientVars
  <2>3. Elements(txs)' = Elements(txs')
    BY DEF Elements
  <2> QED BY <1>7, <2>1, <2>2, <2>3 DEF TypeInv, Receipted
<1> QED BY <1>2, <1>3, <1>4, <1>6, <1>7, <1>8 DEF Receipted

LEMMA MinedChain ==
  ASSUME OperationsInv, Mine
  PROVE  ChainInv'
<1>1. ChainInv /\ call' = call /\ mined' = mined + 1 /\ mined \in Nat /\ DOMAIN txs' = DOMAIN txs
  BY MinedOne DEF OperationsInv, clientVars
<1>2. SUFFICES ASSUME NEW t \in DOMAIN txs
               PROVE  /\ txs'[t].status = "pending" <=> t > mined + 1
                      /\ txs'[t].status \in {"pending", "success"} \union Refusals
                      /\ txs'[t].client \in Client /\ Names(txs'[t]) = Names(call[txs'[t].client])
                      /\ txs'[t].status = "IndexMismatch" => txs'[t].op \in Deletes
  BY <1>1 DEF ChainInv, Names
<1>3. /\ txs'[t].client = txs[t].client /\ Names(txs'[t]) = Names(txs[t]) /\ txs'[t].op = txs[t].op
      /\ t # mined + 1 => txs'[t].status = txs[t].status
  BY MinedOne
<1>4. t \in Nat
  <2>1. Len(txs) \in Nat /\ DOMAIN txs = 1..Len(txs)
    BY DEF OperationsInv, TypeInv
  <2> QED BY <2>1
<1>5. txs'[t].client \in Client /\ Names(txs'[t]) = Names(call[txs'[t].client])
  BY <1>1, <1>3 DEF ChainInv
<1>6. CASE t # mined + 1
  BY <1>1, <1>3, <1>4, <1>5, <1>6 DEF ChainInv
<1>7. CASE t = mined + 1
  <2>1. \/ txs'[t].status = "success"
        \/ txs'[t].status \in Refusals /\ txs'[t].status = Refusal(txs[t])
    BY <1>7, MinedOne
  <2>2. txs[t].op = call[txs[t].client].op /\ txs[t].client \in Client
    BY <1>1 DEF ChainInv, Names
  <2>3. call[txs[t].client].op \in Retried \union {"DeleteBucket", "DeleteFile", "SetPublic"}
    BY <2>2, OperationsAssumption DEF OperationsInv, TypeInv, ClientTypes
  <2>4. Refusal(txs[t]) = "IndexMismatch" => txs[t].op \in Deletes
    BY <2>2, <2>3, RefusalKinds
  <2>5. txs'[t].status # "pending" /\ txs'[t].status \in {"success"} \union Refusals
    BY <2>1 DEF Refusals
  <2>6. txs'[t].status = "IndexMismatch" => txs'[t].op \in Deletes
    BY <1>3, <2>1, <2>4
  <2>7. ~(t > mined + 1)
    BY <1>1, <1>4, <1>7
  <2> QED BY <1>5, <2>5, <2>6, <2>7
<1> QED BY <1>6, <1>7

\* A receipt is no news to a call but to the one that waits for it; a change of the contract
\* by another call is what disturbs the index a deletion has read.
LEMMA MinedClient ==
  ASSUME OperationsInv, Mine, NEW v \in Client
  PROVE  ClientInv(v)'
<1>1. /\ TypeInv /\ ClientTypes /\ ChainInv /\ OutcomeInv(v) /\ EffectInv(v) /\ IndexInv(v) /\ NonceInv(v)
  BY DEF OperationsInv, TypeInv, ClientInv
<1>2. mined' = mined + 1 /\ mined \in Nat /\ DOMAIN txs' = DOMAIN txs /\ Len(txs') = Len(txs) /\ mined + 1 \in DOMAIN txs
  BY MinedOne
<1>3. /\ call' = call /\ pc' = pc /\ todo' = todo /\ index' = index /\ seenAt' = seenAt /\ nonce' = nonce
      /\ tries' = tries /\ beaten' = beaten /\ lost' = lost /\ outcome' = outcome
  BY MinedOne DEF clientVars
<1>4. \A t \in DOMAIN txs :
        /\ txs'[t].client = txs[t].client /\ txs'[t].index = txs[t].index
        /\ t # mined + 1 => txs'[t].status = txs[t].status
  BY MinedOne
<1>5. Own(v)' = Own(v) /\ Own(v) \subseteq DOMAIN txs
  BY <1>2, <1>4 DEF Own
<1>6. \A t \in DOMAIN txs : txs[t].status # "pending" => txs'[t].status = txs[t].status
  <2>1. \A t \in DOMAIN txs : txs[t].status # "pending" => ~(t > mined)
    BY <1>1 DEF ChainInv
  <2>2. mined + 1 > mined
    BY <1>2
  <2> QED BY <1>4, <2>1, <2>2
<1>7. OutcomeInv(v)'
  BY <1>1, <1>3, <1>5, <1>6 DEF OutcomeInv
<1>8. EffectInv(v)'
  BY <1>1, <1>3, <1>5, <1>6 DEF EffectInv
<1>9. NonceInv(v)'
  BY <1>1, <1>2, <1>3, <1>5 DEF NonceInv
<1>10. IndexInv(v)'
  <2> USE <1>1, <1>3
  <2>1. seenAt[v] \in Nat /\ \A t \in (seenAt[v] + 1)..mined : t \in DOMAIN txs /\ t \in (seenAt[v] + 1)..mined'
    <3>1. seenAt[v] \in Nat
      BY DEF ClientTypes
    <3>2. mined \in 0..Len(txs) /\ Len(txs) \in Nat /\ DOMAIN txs = 1..Len(txs)
      BY DEF TypeInv
    <3>3. \A t \in (seenAt[v] + 1)..mined : t \in 1..Len(txs) /\ t \in (seenAt[v] + 1)..(mined + 1)
      BY <3>1, <3>2
    <3> QED BY <1>2, <3>1, <3>2, <3>3
  <2>2. Disturbed(v) => Disturbed(v)'
    BY <1>4, <1>6, <2>1 DEF Disturbed
  <2>3. seenAt[v] <= mined /\ mined + 1 \notin Own(v) /\ txs'[mined + 1].status = "success" => Disturbed(v)'
    <3>1. SUFFICES ASSUME seenAt[v] <= mined, mined + 1 \notin Own(v), txs'[mined + 1].status = "success"
                   PROVE  Disturbed(v)'
      OBVIOUS
    <3>2. mined + 1 \in (seenAt[v] + 1)..mined'
      BY <1>2, <2>1, <3>1
    <3>3. txs'[mined + 1].client # v
      BY <1>2, <1>4, <3>1 DEF Own
    <3> QED BY <3>1, <3>2, <3>3 DEF Disturbed
  <2>4. buckets' = buckets => (IndexValid(v)' <=> IndexValid(v))
    BY DEF IndexValid, BucketAt, FileAt, Files, Exists
  <2>5. txs'[mined + 1].status # "success" =>
          buckets' = buckets /\ txs'[mined + 1].status = Refusal(txs[mined + 1])
    BY MinedOne
  <2>6. CASE call[v].op \in Deletes
    <3>1. /\ pc[v] \in {"send", "sending"} => Own(v) = {}
          /\ Own(v) \subseteq {nonce[v]} /\ seenAt[v] <= mined
      BY <2>6 DEF EffectInv, IndexInv, Deletes, Retried
    <3>2. ASSUME pc[v] \in {"send", "sending"} \/ (pc[v] = "wait" /\ nonce[v] > mined + 1)
          PROVE  IndexValid(v)' \/ Disturbed(v)'
      <4>1. mined + 1 \notin Own(v)
        BY <1>2, <3>1, <3>2
      <4>2. IndexValid(v) \/ Disturbed(v)
        <5>1. pc[v] = "wait" => nonce[v] \in Nat
          BY DEF ClientTypes
        <5> QED BY <1>2, <2>6, <3>2, <5>1 DEF IndexInv
      <4> QED BY <2>2, <2>3, <2>4, <2>5, <3>1, <4>1, <4>2
    <3>3. ASSUME pc[v] = "wait" PROVE txs'[nonce[v]].index = index[v]
      <4>1. nonce[v] \in DOMAIN txs
        BY <1>5, <3>3 DEF OutcomeInv
      <4> QED BY <1>4, <2>6, <3>3, <4>1 DEF IndexInv
    <3>4. ASSUME pc[v] = "wait", txs'[nonce[v]].status = "IndexMismatch" PROVE Disturbed(v)'
      <4>1. nonce[v] \in DOMAIN txs /\ nonce[v] \in Own(v)
        BY <1>5, <3>4 DEF OutcomeInv
      <4>2. CASE nonce[v] # mined + 1
        <5>1. txs[nonce[v]].status = "IndexMismatch"
          BY <1>4, <3>4, <4>1, <4>2
        <5> QED BY <2>2, <2>6, <3>4, <5>1 DEF IndexInv
      <4>3. CASE nonce[v] = mined + 1
        <5>1. Refusal(txs[mined + 1]) = "IndexMismatch"
          BY <2>5, <3>4, <4>3
        <5>2. txs[mined + 1].client = v /\ Names(txs[mined + 1]) = Names(call[v])
          BY <4>1, <4>3 DEF Own, ChainInv
        <5>3. /\ txs[mined + 1].op = call[v].op /\ txs[mined + 1].bucket = call[v].bucket
              /\ txs[mined + 1].file = call[v].file
          BY <5>2 DEF Names
        <5>4. txs[mined + 1].index = index[v]
          BY <2>6, <3>4, <4>3 DEF IndexInv
        <5>5. ~IndexValid(v)
          <6>1. call[v].op \in Retried \union {"DeleteBucket", "DeleteFile", "SetPublic"}
            BY <2>6 DEF Deletes
          <6> QED BY <5>1, <5>3, <5>4, <6>1, RefusalKinds DEF IndexValid
        <5>6. nonce[v] > mined
          BY <1>2, <4>3
        <5>7. Disturbed(v)
          BY <2>6, <3>4, <5>5, <5>6 DEF IndexInv
        <5> QED BY <2>2, <5>7
      <4> QED BY <4>2, <4>3
    <3>5. seenAt[v] <= mined + 1
      BY <1>2, <2>1, <3>1
    <3>6. pc[v] \in {"start", "read"} => todo[v] \in Unread(v)'
      BY <2>6 DEF IndexInv, Unread
    <3>7. outcome[v] = "IndexMismatch" => Disturbed(v)'
      BY <2>2 DEF IndexInv
    <3> QED BY <1>2, <3>2, <3>3, <3>4, <3>5, <3>6, <3>7 DEF IndexInv
  <2>7. CASE call[v].op \notin Deletes
    BY <2>2, <2>7 DEF IndexInv
  <2> QED BY <2>6, <2>7
<1> QED BY <1>7, <1>8, <1>9, <1>10 DEF ClientInv
-----------------------------------------------------------------------------
(* The theorems. *)

LEMMA InitInv == Init => OperationsInv
<1> SUFFICES ASSUME Init PROVE OperationsInv
  OBVIOUS
<1>1. txs = <<>> /\ mined = 0 /\ txs \in Seq(Elements(txs)) /\ DOMAIN txs = {} /\ Len(txs) = 0
  <2>1. txs = <<>> /\ mined = 0
    BY DEF Init
  <2>2. <<>> \in Seq(Elements(<<>>)) /\ DOMAIN <<>> = {} /\ Len(<<>>) = 0
    OBVIOUS
  <2> QED BY <2>1, <2>2
<1>2. ClientTypes
  BY OperationsAssumption DEF Init, ClientTypes
<1>3. TypeInv /\ ChainInv
  BY <1>1, <1>2 DEF TypeInv, ChainInv
<1>4. ASSUME NEW c \in Client PROVE ClientInv(c)
  <2>1. /\ pc[c] = "start" /\ outcome[c] = "none" /\ tries[c] = 0 /\ beaten[c] = 0 /\ seenAt[c] = 0
        /\ todo[c] = Reads(call[c].op)
    BY DEF Init
  <2>2. Own(c) = {}
    BY <1>1 DEF Own
  <2>3. OutcomeInv(c) /\ EffectInv(c)
    BY <2>1, <2>2 DEF OutcomeInv, EffectInv
  <2>4. ASSUME call[c].op \in Deletes PROVE todo[c] \in Unread(c)
    <3>1. CASE call[c].op = "DeleteBucket"
      <4>1. todo[c] = <<"bucket", "bucket index">>
        BY <2>1, <3>1 DEF Reads
      <4> QED BY <3>1, <4>1, Zenon DEF Unread
    <3>2. CASE call[c].op = "DeleteFile"
      <4>1. todo[c] = <<"bucket", "file", "file index">>
        BY <2>1, <3>2 DEF Reads
      <4>2. call[c].op # "DeleteBucket"
        BY <3>2
      <4> QED BY <4>1, <4>2, Zenon DEF Unread
    <3> QED BY <2>4, <3>1, <3>2 DEF Deletes
  <2>5. IndexInv(c)
    BY <1>1, <2>1, <2>4 DEF IndexInv
  <2>6. NonceInv(c)
    <3>1. Cardinality(Own(c)) = 0 /\ Cardinality(DOMAIN txs \ Own(c)) = 0
      BY <1>1, <2>2, FS_EmptySet
    <3> QED BY <2>1, <3>1 DEF NonceInv
  <2> QED BY <2>3, <2>5, <2>6 DEF ClientInv
<1> QED BY <1>3, <1>4 DEF OperationsInv

LEMMA NextInv == OperationsInv /\ [Next]_vars => OperationsInv'
<1> SUFFICES ASSUME OperationsInv, [Next]_vars PROVE OperationsInv'
  OBVIOUS
<1>1. CASE Mine
  BY <1>1, MinedOne, MinedChain, MinedClient DEF OperationsInv
<1>2. ASSUME NEW c \in Client, ClientStep(c) PROVE OperationsInv'
  <2>1. TypeInv' /\ ChainInv'
    BY <1>2, StepTyped, ChainKept
  <2>2. ClientInv(c)'
    BY <1>2, OutcomeKept, EffectKept, IndexKept, NonceKept DEF ClientInv
  <2>3. \A v \in Client \ {c} : ClientInv(v)'
    BY <1>2, OthersKept
  <2> QED BY <2>1, <2>2, <2>3 DEF OperationsInv
<1>3. CASE UNCHANGED vars
  <2>1. /\ buckets' = buckets /\ txs' = txs /\ mined' = mined /\ call' = call /\ pc' = pc /\ todo' = todo
        /\ index' = index /\ seenAt' = seenAt /\ nonce' = nonce /\ tries' = tries /\ beaten' = beaten
        /\ lost' = lost /\ outcome' = outcome
    BY <1>3 DEF vars, chainVars, clientVars
  <2>2. TypeInv' /\ ChainInv'
    BY <2>1 DEF OperationsInv, TypeInv, ClientTypes, ChainInv, Elements, Names
  <2>3. ASSUME NEW c \in Client PROVE ClientInv(c)'
    <3>1. ClientInv(c)
      BY DEF OperationsInv
    <3>2. Own(c)' = Own(c) /\ (Disturbed(c)' <=> Disturbed(c)) /\ Unread(c)' = Unread(c)
      BY <2>1 DEF Own, Disturbed, Unread
    <3>3. IndexValid(c)' <=> IndexValid(c)
      BY <2>1 DEF IndexValid, BucketAt, FileAt, Files, Exists
    <3>4. OutcomeInv(c)' /\ EffectInv(c)'
      BY <2>1, <3>1, <3>2 DEF ClientInv, OutcomeInv, EffectInv
    <3>5. IndexInv(c)'
      BY <2>1, <3>1, <3>2, <3>3 DEF ClientInv, IndexInv
    <3>6. NonceInv(c)'
      BY <2>1, <3>1, <3>2 DEF ClientInv, NonceInv
    <3> QED BY <3>4, <3>5, <3>6 DEF ClientInv
  <2> QED BY <2>2, <2>3 DEF OperationsInv
<1> QED BY <1>1, <1>2, <1>3 DEF Next, Ended

\* The invariant holds of every behaviour of the calls and the contract.
THEOREM OperationsSafe == Spec => []OperationsInv
BY InitInv, NextInv, PTL DEF Spec

\* A call that returns nil has done what it was asked by a transaction of its own, however
\* many clients of the account ask for the same.
THEOREM NilOwn == Spec => []NilIsOwnEffect
<1>1. OperationsInv => NilIsOwnEffect
  <2> SUFFICES ASSUME OperationsInv, NEW c \in Client, outcome[c] = "nil"
               PROVE  \E t \in Effects(c) : Names(txs[t]) = Names(call[c])
    BY DEF NilIsOwnEffect
  <2>1. nonce[c] \in DOMAIN txs /\ txs[nonce[c]].client = c /\ txs[nonce[c]].status = "success"
    BY DEF OperationsInv, ClientInv, OutcomeInv, Own
  <2>2. Names(txs[nonce[c]]) = Names(call[c]) /\ ~(nonce[c] > mined)
    BY <2>1 DEF OperationsInv, ChainInv
  <2>3. nonce[c] \in 1..mined
    <3>1. mined \in Nat /\ Len(txs) \in Nat /\ DOMAIN txs = 1..Len(txs)
      BY DEF OperationsInv, TypeInv
    <3> QED BY <2>1, <2>2, <3>1
  <2> QED BY <2>1, <2>2, <2>3 DEF Effects
<1> QED BY <1>1, OperationsSafe, PTL

\* An error after which nothing may have happened is the truth, and no call acts twice,
\* unless the answer to a transaction was lost.
THEOREM ErrorNoEffect == Spec => []ErrorMeansNoEffect
<1>1. OperationsInv => ErrorMeansNoEffect
  <2> SUFFICES ASSUME OperationsInv, NEW c \in Client, ~lost[c]
               PROVE  /\ outcome[c] \notin {"none", "nil", "receipt", "lookup"} =>
                           \A t \in Own(c) : txs[t].status \notin {"pending", "success"}
                      /\ Cardinality(Own(c)) <= 1
    BY DEF ErrorMeansNoEffect
  <2>1. EffectInv(c)
    BY DEF OperationsInv, ClientInv
  <2>2. CASE Own(c) = {}
    BY <2>1, <2>2, FS_EmptySet DEF EffectInv
  <2>3. CASE Own(c) = {nonce[c]}
    <3>1. Cardinality(Own(c)) = 1
      BY <2>3, FS_Singleton, Zenon
    <3>2. Cardinality(Own(c)) <= 1
      BY <3>1
    <3> QED BY <2>1, <3>2 DEF EffectInv
  <2> QED BY <2>1, <2>2, <2>3 DEF EffectInv
<1> QED BY <1>1, OperationsSafe, PTL

\* A deletion is refused for its index only if another call has changed something since the
\* index was read.
THEOREM IndexStale == Spec => []IndexRefusedOnlyIfStale
<1>1. OperationsInv => IndexRefusedOnlyIfStale
  BY DEF OperationsInv, ClientInv, IndexInv, Disturbed, IndexRefusedOnlyIfStale
<1> QED BY <1>1, OperationsSafe, PTL

\* A call gives up on its nonce only after all the attempts it has, each lost to another call
\* or spent on a transaction of its own.
THEOREM GivesUpLate == Spec => []GivesUpOnNonceLate
<1>1. OperationsInv => GivesUpOnNonceLate
  BY DEF OperationsInv, ClientInv, NonceInv, GivesUpOnNonceLate
<1> QED BY <1>1, OperationsSafe, PTL
=============================================================================
