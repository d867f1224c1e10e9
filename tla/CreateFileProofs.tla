--------------------------- MODULE CreateFileProofs ---------------------------
(***************************************************************************)
(* What CreateFileUploads reports, for any number of files and workers,    *)
(* any limits, and whatever the workers do to the error they share.  The   *)
(* invariant says what the mutex protects (the nonce between its look-up   *)
(* and the transaction), that a worker's transaction, once it has left the *)
(* step that sends it, is on the chain, and what has been put on resultsCh. *)
(***************************************************************************)
EXTENDS CreateFileUploads, FiniteSetTheorems, TLAPS

Critical == {"nonce", "send", "unlock"}

\* The worker in the critical section holds the mutex.
MutexInv == \A w \in File : pc[w] \in Critical <=> mutex = w

\* A nonce about to be used is no larger than the pending one, and equal to it as long as
\* nobody else sends; the chain has each nonce once.
NonceInv ==
  /\ \A w \in File : pc[w] = "send" => txNonce[w] \in Nat /\ txNonce[w] <= nextNonce
  /\ others = 0 => \A w \in File : pc[w] = "send" => txNonce[w] = nextNonce
  /\ \A r \in sent : r[2] < nextNonce
  /\ \A r, s \in sent : r[2] = s[2] => r = s

\* A transaction a worker still has was accepted, and an upload is reported for nothing else.
SentInv ==
  /\ \A w \in File : pc[w] # "send" /\ txNonce[w] # NoTx => <<w, txNonce[w]>> \in sent
  /\ \A w \in File : <<w, "upload">> \in resultsCh => \E n \in Nat : <<w, n>> \in sent

\* A worker reports once, at its end.
ResultInv ==
  /\ \A r \in resultsCh : pc[r[1]] = "done"
  /\ \A r, s \in resultsCh : r[1] = s[1] => r = s
  /\ ~crashed => \A w \in File : pc[w] = "done" => \E o \in {"upload", "error"} : <<w, o>> \in resultsCh
  /\ results # <<>> => \A w \in File : \E o \in {"upload", "error"} : results[w] = {o}

CreateInv == TypeOK /\ MutexInv /\ NonceInv /\ SentInv /\ ResultInv

\* The invariant holds when the call begins.
LEMMA InitCreate == Init => CreateInv
<1> SUFFICES ASSUME Init PROVE CreateInv
  OBVIOUS
<1> USE CreateAssumption DEF Init, File, Free, NoTx
<1>1. TypeOK
  <2>1. tries \in [File -> 0 .. MaxRetries] /\ others \in 0 .. MaxOthers
    OBVIOUS
  <2>2. pc \in [File -> {"new"}] /\ bucketId \in [File -> {"zero"}] /\ txNonce \in [File -> {NoTx}]
        /\ needsRetry \in [File -> BOOLEAN]
    OBVIOUS
  <2> QED BY <2>1, <2>2 DEF TypeOK
<1>2. MutexInv /\ NonceInv /\ SentInv /\ ResultInv
  BY DEF MutexInv, NonceInv, SentInv, ResultInv, Critical
<1> QED BY <1>1, <1>2 DEF CreateInv

\* A retry loop goes back to the start of its attempt or reports the error.
LEMMA RetryTypes ==
  ASSUME TypeOK, NEW w \in File, NEW retryable \in BOOLEAN, NEW again \in {"bucket", "lock"}, RetryOrFail(w, retryable, again)
  PROVE  /\ pc' \in [File -> {"new", "bucket", "bucketErr", "lock", "nonce", "send", "unlock",
                              "classify", "createErr", "wait", "done"}]
         /\ tries' \in [File -> 0 .. MaxRetries]
         /\ resultsCh' \subseteq File \X {"upload", "error"}
<1> USE CreateAssumption DEF TypeOK, GoTo, Send, AttemptsLeft, NextAttempt
<1>1. tries[w] \in 0 .. MaxRetries
  OBVIOUS
<1>2. CASE retryable /\ AttemptsLeft(w) /\ ~ctxDone
  <2>1. tries' = [tries EXCEPT ![w] = tries[w] + 1] /\ pc' = [pc EXCEPT ![w] = again] /\ resultsCh' = resultsCh
    BY <1>2 DEF RetryOrFail
  <2>2. tries[w] + 1 \in 0 .. MaxRetries
    BY <1>1, <1>2
  <2>3. tries' \in [File -> 0 .. MaxRetries]
    BY <2>1, <2>2
  <2>4. pc' \in [File -> {"new", "bucket", "bucketErr", "lock", "nonce", "send", "unlock",
                        "classify", "createErr", "wait", "done"}]
    BY <2>1
  <2> QED BY <2>1, <2>3, <2>4
<1>3. CASE ~(retryable /\ AttemptsLeft(w) /\ ~ctxDone)
  <2>1. tries' = [tries EXCEPT ![w] = 0] /\ pc' = [pc EXCEPT ![w] = "done"] /\ resultsCh' = resultsCh \cup {<<w, "error">>}
    BY <1>3 DEF RetryOrFail
  <2>2. tries' \in [File -> 0 .. MaxRetries]
    BY <2>1
  <2>3. resultsCh' \subseteq File \X {"upload", "error"}
    BY <2>1
  <2> QED BY <2>1, <2>2, <2>3
<1> QED BY <1>2, <1>3

\* Every step keeps the types.
LEMMA TypeStep == TypeOK /\ [Next]_vars => TypeOK'
<1> SUFFICES ASSUME TypeOK, [Next]_vars PROVE TypeOK'
  OBVIOUS
<1> USE CreateAssumption DEF TypeOK, File, GoTo, Send, chainVars, Error, Free, NoTx
<1>1. ASSUME NEW w \in File, Start(w) PROVE TypeOK'
  BY <1>1 DEF Start
<1>2. ASSUME NEW w \in File, GetBucketByName(w) PROVE TypeOK'
  BY <1>2 DEF GetBucketByName
<1>3. ASSUME NEW w \in File, BucketErr(w) PROVE TypeOK'
  <2>1. CASE SharedErr(w) = "nil"
    BY <1>3, <2>1 DEF BucketErr
  <2>2. CASE SharedErr(w) # "nil"
    BY <1>3, <2>2, RetryTypes DEF BucketErr
  <2> QED BY <2>1, <2>2
<1>4. ASSUME NEW w \in File, Lock(w) PROVE TypeOK'
  BY <1>4 DEF Lock
<1>5. ASSUME NEW w \in File, TakeNonce(w) PROVE TypeOK'
  BY <1>5 DEF TakeNonce
<1>6. ASSUME NEW w \in File, CreateFile(w) PROVE TypeOK'
  <2>1. err' \in {"nil"} \cup Error /\ pc' = [pc EXCEPT ![w] = "unlock"]
    BY <1>6 DEF CreateFile
  <2>2. txNonce' \in [File -> Nat \cup {NoTx}]
    BY <1>6 DEF CreateFile, TxOnError
  <2>3. sent' \subseteq File \X Nat /\ nextNonce' \in Nat
    <3>1. CASE UNCHANGED <<sent, nextNonce>>
      BY <3>1
    <3>2. CASE /\ ~(txNonce[w] < nextNonce) /\ sent' = sent \cup {<<w, txNonce[w]>>}
               /\ nextNonce' = nextNonce + 1
      BY <3>2
    <3> QED BY <1>6, <3>1, <3>2 DEF CreateFile
  <2> QED BY <1>6, <2>1, <2>2, <2>3 DEF CreateFile
<1>7. ASSUME NEW w \in File, Unlock(w) PROVE TypeOK'
  BY <1>7 DEF Unlock
<1>8. ASSUME NEW w \in File, ClassifyErr(w) PROVE TypeOK'
  BY <1>8 DEF ClassifyErr, SharedErr
<1>9. ASSUME NEW w \in File, CreateErr(w) PROVE TypeOK'
  <2>1. CASE SharedErr(w) = "nil"
    BY <1>9, <2>1 DEF CreateErr
  <2>2. CASE SharedErr(w) # "nil"
    BY <1>9, <2>2, RetryTypes DEF CreateErr
  <2> QED BY <2>1, <2>2
<1>10. ASSUME NEW w \in File, WaitForTx(w) PROVE TypeOK'
  <2>1. pc' = [pc EXCEPT ![w] = "done"] /\ crashed' \in BOOLEAN
    BY <1>10 DEF WaitForTx
  <2>2. resultsCh' \subseteq File \X {"upload", "error"}
    BY <1>10 DEF WaitForTx
  <2> QED BY <1>10, <2>1, <2>2 DEF WaitForTx
<1>11. CASE CollectResults
  BY <1>11 DEF CollectResults, Placed
<1>12. CASE OtherTransaction
  BY <1>12 DEF OtherTransaction
<1>13. CASE Cancel
  BY <1>13 DEF Cancel
<1>14. CASE UNCHANGED vars
  BY <1>14 DEF vars
<1> QED BY <1>1, <1>2, <1>3, <1>4, <1>5, <1>6, <1>7, <1>8, <1>9, <1>10, <1>11, <1>12, <1>13, <1>14
           DEF Next, Worker, Ended

\* Where a step of a worker leaves it, what it does to the mutex and to the results.
Report(w) ==
  \/ resultsCh' = resultsCh /\ pc[w] # "done" /\ (pc'[w] = "done" => crashed')
  \/ pc[w] # "done" /\ pc'[w] = "done" /\ resultsCh' = resultsCh \cup {<<w, "error">>}
  \/ pc[w] = "wait" /\ pc'[w] = "done" /\ txNonce[w] # NoTx /\ resultsCh' = resultsCh \cup {<<w, "upload">>}

MutexMove(w) ==
  \/ pc[w] = "lock" /\ mutex = Free /\ mutex' = w /\ pc'[w] = "nonce"
  \/ pc[w] = "nonce" /\ mutex' = mutex /\ pc'[w] = "send"
  \/ pc[w] = "send" /\ mutex' = mutex /\ pc'[w] = "unlock"
  \/ pc[w] = "unlock" /\ mutex' = Free /\ pc'[w] = "classify"
  \/ pc[w] \notin Critical /\ mutex' = mutex /\ pc'[w] \notin Critical

NonceMove(w) ==
  \/ pc[w] = "nonce" /\ pc'[w] = "send" /\ txNonce' = [txNonce EXCEPT ![w] = nextNonce] /\ UNCHANGED <<sent, nextNonce>>
  \/ /\ pc[w] = "send" /\ pc'[w] = "unlock"
     /\ \/ /\ ~(txNonce[w] < nextNonce) /\ sent' = sent \cup {<<w, txNonce[w]>>} /\ nextNonce' = nextNonce + 1
           /\ txNonce' = txNonce
        \/ txNonce' = [txNonce EXCEPT ![w] = NoTx] /\ UNCHANGED <<sent, nextNonce>>
  \/ pc[w] # "send" /\ pc'[w] # "send" /\ UNCHANGED <<txNonce, sent, nextNonce>>

\* A step of a worker is one of these moves, and leaves the other workers alone.
LEMMA WorkerMoves ==
  ASSUME TypeOK, NEW w \in File, Worker(w), ~crashed
  PROVE  /\ \E l : pc' = [pc EXCEPT ![w] = l]
         /\ UNCHANGED <<results, others>>
         /\ Report(w) /\ MutexMove(w) /\ NonceMove(w)
<1> USE DEF TypeOK, Report, MutexMove, NonceMove, Critical, GoTo, Send, chainVars
<1>1. CASE Start(w)
  BY <1>1 DEF Start
<1>2. CASE GetBucketByName(w)
  BY <1>2 DEF GetBucketByName
<1>3. CASE BucketErr(w)
  BY <1>3 DEF BucketErr, RetryOrFail
<1>4. CASE Lock(w)
  BY <1>4 DEF Lock, LockFree
<1>5. CASE TakeNonce(w)
  BY <1>5 DEF TakeNonce
<1>6. CASE CreateFile(w)
  BY <1>6 DEF CreateFile, TxOnError
<1>7. CASE Unlock(w)
  BY <1>7 DEF Unlock
<1>8. CASE ClassifyErr(w)
  BY <1>8 DEF ClassifyErr
<1>9. CASE CreateErr(w)
  BY <1>9 DEF CreateErr, RetryOrFail
<1>10. CASE WaitForTx(w)
  BY <1>10 DEF WaitForTx
<1> QED BY <1>1, <1>2, <1>3, <1>4, <1>5, <1>6, <1>7, <1>8, <1>9, <1>10 DEF Worker

\* The steps of a worker keep the invariant.
LEMMA WorkerStep ==
  ASSUME CreateInv, TypeOK', NEW w \in File, Worker(w), ~crashed
  PROVE  MutexInv' /\ NonceInv' /\ SentInv' /\ ResultInv'
<1> USE DEF TypeOK, File, Free, NoTx
<1>0. TypeOK
  BY DEF CreateInv
<1>1. PICK l : pc' = [pc EXCEPT ![w] = l]
  BY <1>0, WorkerMoves
<1>2. \A v \in File : v # w => pc'[v] = pc[v]
  BY <1>0, <1>1
<1>3. MutexInv'
  BY <1>0, <1>2, WorkerMoves DEF CreateInv, MutexInv, MutexMove, Critical
<1>4. NonceInv'
  <2> USE <1>0, <1>2 DEF NonceInv
  <2>1. CASE pc[w] = "nonce" /\ pc'[w] = "send" /\ txNonce' = [txNonce EXCEPT ![w] = nextNonce] /\ UNCHANGED <<sent, nextNonce>>
    BY <2>1, WorkerMoves DEF CreateInv
  <2>2. CASE /\ pc[w] = "send" /\ pc'[w] = "unlock" /\ ~(txNonce[w] < nextNonce)
             /\ sent' = sent \cup {<<w, txNonce[w]>>} /\ nextNonce' = nextNonce + 1 /\ txNonce' = txNonce
    <3>1. txNonce[w] = nextNonce
      BY <2>2 DEF CreateInv
    <3>2. \A v \in File : pc'[v] # "send"
      BY <2>2 DEF CreateInv, MutexInv, Critical
    <3>3. \A r \in sent : r[2] < nextNonce /\ r[2] \in Nat
      BY DEF CreateInv
    <3>4. \A r \in sent' : r \in sent \/ r[2] = nextNonce
      BY <2>2, <3>1
    <3>5. \A r, s \in sent' : r[2] = s[2] => r = s
      BY <2>2, <3>1, <3>3 DEF CreateInv
    <3>6. \A r \in sent' : r[2] < nextNonce'
      BY <2>2, <3>3, <3>4
    <3> QED BY <3>2, <3>5, <3>6
  <2>3. CASE pc[w] = "send" /\ pc'[w] = "unlock" /\ txNonce' = [txNonce EXCEPT ![w] = NoTx] /\ UNCHANGED <<sent, nextNonce>>
    BY <2>3, WorkerMoves DEF CreateInv
  <2>4. CASE pc[w] # "send" /\ pc'[w] # "send" /\ UNCHANGED <<txNonce, sent, nextNonce>>
    BY <2>4, WorkerMoves DEF CreateInv
  <2> QED BY <2>1, <2>2, <2>3, <2>4, WorkerMoves DEF NonceMove
<1>5. SentInv'
  <2>1. sent \subseteq sent'
    BY <1>0, WorkerMoves DEF NonceMove
  <2>2. \A v \in File : pc'[v] # "send" /\ txNonce'[v] # NoTx => <<v, txNonce'[v]>> \in sent'
    <3>1. SentInv
      BY DEF CreateInv
    <3>2. ASSUME NEW v \in File, v # w, pc'[v] # "send", txNonce'[v] # NoTx
          PROVE <<v, txNonce'[v]>> \in sent'
      <4>1. txNonce'[v] = txNonce[v]
        BY <1>0, <3>2, WorkerMoves DEF NonceMove
      <4> QED BY <1>2, <2>1, <3>1, <3>2, <4>1 DEF SentInv
    <3>3. ASSUME pc'[w] # "send", txNonce'[w] # NoTx PROVE <<w, txNonce'[w]>> \in sent'
      <4>1. CASE pc[w] = "send" /\ sent' = sent \cup {<<w, txNonce[w]>>} /\ txNonce' = txNonce
        BY <4>1
      <4>2. CASE txNonce' = [txNonce EXCEPT ![w] = NoTx]
        BY <1>0, <3>3, <4>2
      <4>3. CASE pc[w] # "send" /\ txNonce' = txNonce
        BY <2>1, <3>1, <3>3, <4>3 DEF SentInv
      <4> QED BY <1>0, <3>3, <4>1, <4>2, <4>3, WorkerMoves DEF NonceMove
    <3> QED BY <3>2, <3>3
  <2>3. ASSUME NEW v \in File, <<v, "upload">> \in resultsCh' PROVE \E n \in Nat : <<v, n>> \in sent'
    <3>1. CASE <<v, "upload">> \in resultsCh
      BY <2>1, <3>1 DEF CreateInv, SentInv
    <3>2. CASE v = w /\ pc[w] = "wait" /\ txNonce[w] # NoTx
      BY <1>0, <2>1, <3>2 DEF CreateInv, SentInv
    <3>3. Report(w)
      BY <1>0, WorkerMoves
    <3>4. <<v, "upload">> # <<w, "error">>
      OBVIOUS
    <3>5. <<v, "upload">> = <<w, "upload">> => v = w
      OBVIOUS
    <3> QED BY <2>3, <3>1, <3>2, <3>3, <3>4, <3>5 DEF Report
  <2> QED BY <2>2, <2>3 DEF SentInv
<1>6. ResultInv'
  <2>1. results' = results /\ Report(w)
    BY <1>0, WorkerMoves
  <2>2. \A r \in resultsCh : r = <<r[1], r[2]>> /\ r[1] \in File /\ pc[r[1]] = "done"
    BY <1>0 DEF CreateInv, ResultInv
  <2>3. CASE resultsCh' = resultsCh /\ pc[w] # "done" /\ (pc'[w] = "done" => crashed')
    BY <1>0, <1>2, <2>1, <2>2, <2>3 DEF CreateInv, ResultInv
  <2>4. ASSUME NEW o \in {"upload", "error"}, pc[w] # "done", pc'[w] = "done", resultsCh' = resultsCh \cup {<<w, o>>}
        PROVE ResultInv'
    <3>1. \A r \in resultsCh' : pc'[r[1]] = "done"
      BY <1>2, <2>2, <2>4
    <3>2. \A r, s \in resultsCh' : r[1] = s[1] => r = s
      BY <2>2, <2>4 DEF CreateInv, ResultInv
    <3>3. \A v \in File : pc'[v] = "done" => \E q \in {"upload", "error"} : <<v, q>> \in resultsCh'
      BY <1>2, <2>4 DEF CreateInv, ResultInv
    <3> QED BY <2>1, <3>1, <3>2, <3>3 DEF CreateInv, ResultInv
  <2> QED BY <2>1, <2>3, <2>4 DEF Report
<1> QED BY <1>3, <1>4, <1>5, <1>6

\* So do the others, and the collection of the results.
LEMMA OtherStep ==
  ASSUME CreateInv, TypeOK', CollectResults \/ OtherTransaction \/ Cancel \/ UNCHANGED vars,
         crashed => UNCHANGED vars
  PROVE  MutexInv' /\ NonceInv' /\ SentInv' /\ ResultInv'
<1> USE CreateAssumption DEF CreateInv, TypeOK, MutexInv, NonceInv, SentInv, ResultInv, Critical, File, chainVars, Free, NoTx
<1>1. CASE CollectResults
  <2>1. CASE UNCHANGED vars
    BY <2>1 DEF vars
  <2>2. CASE ~crashed
    <3>1. ASSUME NEW w \in File PROVE \E o \in {"upload", "error"} : results'[w] = {o}
      <4>1. PICK o \in {"upload", "error"} : <<w, o>> \in resultsCh
        BY <1>1, <2>2 DEF CollectResults
      <4>2. results'[w] = {r[2] : r \in {s \in resultsCh : s[1] = w}}
        BY <1>1 DEF CollectResults, Placed
      <4>3. \A r \in resultsCh : r[1] = w => r = <<w, o>>
        BY <4>1
      <4> QED BY <4>1, <4>2, <4>3
    <3>2. UNCHANGED <<pc, txNonce, mutex, resultsCh, crashed, nextNonce, sent, others>>
      BY <1>1 DEF CollectResults
    <3>3. MutexInv' /\ NonceInv' /\ SentInv'
      BY <3>2
    <3>4. ResultInv'
      BY <3>1, <3>2
    <3> QED BY <3>3, <3>4
  <2> HIDE DEF CreateInv, MutexInv, NonceInv, SentInv, ResultInv
  <2> QED BY <2>1, <2>2
<1>2. CASE OtherTransaction
  BY <1>2 DEF OtherTransaction
<1>3. CASE Cancel
  BY <1>3 DEF Cancel
<1>4. CASE UNCHANGED vars
  BY <1>4 DEF vars
<1> QED BY <1>1, <1>2, <1>3, <1>4

\* Types, the mutex, the nonces, the transactions and the results keep their invariant.
THEOREM CreateInvariant == Spec => []CreateInv
<1>1. ASSUME CreateInv, [Next]_vars PROVE CreateInv'
  <2>1. TypeOK'
    BY <1>1, TypeStep DEF CreateInv
  <2>2. CASE ~crashed /\ \E w \in File : Worker(w)
    BY <1>1, <2>1, <2>2, WorkerStep DEF CreateInv
  <2>3. CASE ~crashed /\ (CollectResults \/ OtherTransaction \/ Cancel)
    BY <1>1, <2>1, <2>3, OtherStep DEF CreateInv
  <2>4. CASE UNCHANGED vars
    BY <1>1, <2>1, <2>4, OtherStep DEF CreateInv
  <2> QED BY <1>1, <2>2, <2>3, <2>4 DEF Next, Ended
<1> QED BY InitCreate, <1>1, PTL DEF Spec

\* Every worker reports exactly one outcome, and it is placed at the index of its file.
THEOREM OneResultForEach == Spec => []OneResultEach
<1>1. CreateInv => OneResultEach
  <2> SUFFICES ASSUME CreateInv, results # <<>>, NEW w \in File PROVE Cardinality(results[w]) = 1
    BY DEF OneResultEach
  <2>1. PICK o \in {"upload", "error"} : results[w] = {o}
    BY DEF CreateInv, ResultInv
  <2> QED BY <2>1, FS_Singleton
<1> QED BY CreateInvariant, <1>1, PTL

\* The mutex spans the look-up of the nonce and the transaction that uses it.
THEOREM NonceStaysFresh == Spec => []NonceFresh
<1>1. CreateInv => NonceFresh
  BY DEF CreateInv, NonceInv, NonceFresh
<1> QED BY CreateInvariant, <1>1, PTL

\* A file that is reported as created was created, by a transaction with a nonce of its own,
\* whatever the workers write to the error they share.
THEOREM UploadsAreCreated == Spec => []UploadMeansCreated
<1>1. CreateInv => UploadMeansCreated
  BY DEF CreateInv, TypeOK, NonceInv, SentInv, UploadMeansCreated
<1> QED BY CreateInvariant, <1>1, PTL
=============================================================================
