--------------------------- MODULE CreateFileUploads ---------------------------
(***************************************************************************)
(* MultiUpload.CreateFileUploads (sdk/multi_upload.go): one worker per file, *)
(* at most FileConcurrency at a time, each of which looks its bucket up,     *)
(* sends a CreateFile transaction and waits for the receipt.  Transactions   *)
(* are sent under one mutex, because each takes the account's pending nonce  *)
(* from the chain before it is sent.  The workers' closures assign the       *)
(* results of these calls to err, which is not theirs: it is the named       *)
(* result of CreateFileUploads, one variable for all workers, read back      *)
(* without a lock.                                                           *)
(***************************************************************************)
EXTENDS Integers, FiniteSets

CONSTANTS
  NumFiles,         \* len(params)
  Missing,          \* the parameters whose bucket does not exist
  FileConcurrency,  \* the errgroup's limit
  MaxRetries,       \* withRetry.MaxAttempts
  MaxOthers,        \* bound: transactions others send from the same account
  MayCancel         \* the caller may cancel the context

File == 1 .. NumFiles

ASSUME CreateAssumption ==
  /\ NumFiles \in Nat \ {0}           \* no parameters: refused
  /\ Missing \subseteq File
  /\ FileConcurrency \in Nat \ {0}    \* MultiUpload raises it to 1
  /\ MaxRetries \in Nat /\ MaxOthers \in Nat /\ MayCancel \in BOOLEAN

VARIABLES
  pc,         \* where each worker is
  err,        \* the shared result variable: "nil", "retryable" or "fatal"
  tries,      \* failed attempts of each worker's current retry loop
  bucketId,   \* each worker's bucket.Id: zero when the look-up failed
  txNonce,    \* the nonce of each worker's transaction; NoTx when tx is nil
  needsRetry, \* what isRetryableTxError answered each worker
  mutex,      \* the worker that holds m.mu, or Free
  resultsCh,  \* the results sent, as <<index, outcome>> pairs
  results,    \* what CreateFileUploads returns, by index
  crashed,    \* a worker dereferenced a nil transaction
  ctxDone,
  nextNonce,  \* the account's pending nonce on the chain (external)
  sent,       \* <<worker, nonce>> of each CreateFile the chain accepted
  others      \* transactions others have sent from the account

vars == <<pc, err, tries, bucketId, txNonce, needsRetry, mutex, resultsCh, results,
          crashed, ctxDone, nextNonce, sent, others>>

chainVars == <<nextNonce, sent, others>>

Free == 0
NoTx == -1
Error == {"retryable", "fatal"}

Init ==
  /\ pc = [w \in File |-> "new"] /\ err = "nil" /\ tries = [w \in File |-> 0]
  /\ bucketId = [w \in File |-> "zero"] /\ txNonce = [w \in File |-> NoTx]
  /\ needsRetry = [w \in File |-> FALSE] /\ mutex = Free
  /\ resultsCh = {} /\ results = <<>> /\ crashed = FALSE /\ ctxDone = FALSE
  /\ nextNonce = 0 /\ sent = {} /\ others = 0

Running == {w \in File : pc[w] \notin {"new", "done"}}

GoTo(w, step) == pc' = [pc EXCEPT ![w] = step]

\* resultsCh has room for every worker: a send never blocks.
Send(w, outcome) == /\ GoTo(w, "done")
                    /\ resultsCh' = resultsCh \cup {<<w, outcome>>}

\* g.Go, in the order of the parameters, blocks while the limit is reached.
Start(w) ==
  /\ pc[w] = "new" /\ \A v \in 1 .. (w - 1) : pc[v] # "new"
  /\ Cardinality(Running) < FileConcurrency
  /\ GoTo(w, "bucket")
  /\ UNCHANGED <<err, tries, bucketId, txNonce, needsRetry, mutex, resultsCh, results,
                 crashed, ctxDone, chainVars>>

\* bucket, err = GetBucketByName(...)
GetBucketByName(w) ==
  /\ pc[w] = "bucket"
  /\ err' = IF w \in Missing \/ ctxDone THEN "fatal" ELSE "nil"
  /\ bucketId' = [bucketId EXCEPT ![w] = IF err' = "nil" THEN "real" ELSE "zero"]
  /\ GoTo(w, "bucketErr")
  /\ UNCHANGED <<tries, txNonce, needsRetry, mutex, resultsCh, results, crashed, ctxDone,
                 chainVars>>

\* WithRetry.Do's count of attempts.
AttemptsLeft(w) == tries[w] < MaxRetries
SameAttempt(w) == tries[w]                             \* mutant
NextAttempt(w) == tries[w] + 1

\* WithRetry.Do with the error it is given: again while attempts are left,
\* unless the context is done, else the worker reports the error.
RetryOrFail(w, retryable, again) ==
  IF retryable /\ AttemptsLeft(w) /\ ~ctxDone
  THEN /\ tries' = [tries EXCEPT ![w] = NextAttempt(w)]
       /\ GoTo(w, again) /\ UNCHANGED resultsCh
  ELSE /\ tries' = [tries EXCEPT ![w] = 0]
       /\ Send(w, "error")

\* The error a worker acts on: its own only if no other worker has assigned err
\* since.
SharedErr(w) == err

\* return true, err
BucketErr(w) ==
  /\ pc[w] = "bucketErr"
  /\ IF SharedErr(w) = "nil"
     THEN /\ tries' = [tries EXCEPT ![w] = 0]
          /\ GoTo(w, "lock") /\ UNCHANGED resultsCh
     ELSE RetryOrFail(w, TRUE, "bucket")
  /\ UNCHANGED <<err, bucketId, txNonce, needsRetry, mutex, results, crashed, ctxDone,
                 chainVars>>

\* m.mu.Lock()
NoLock == TRUE                                         \* mutant
LockFree == mutex = Free
Lock(w) ==
  /\ pc[w] = "lock" /\ LockFree
  /\ mutex' = w
  /\ GoTo(w, "nonce")
  /\ UNCHANGED <<err, tries, bucketId, txNonce, needsRetry, resultsCh, results, crashed,
                 ctxDone, chainVars>>

\* CreateFile first takes the pending nonce ...
TakeNonce(w) ==
  /\ pc[w] = "nonce"
  /\ txNonce' = [txNonce EXCEPT ![w] = nextNonce]
  /\ GoTo(w, "send")
  /\ UNCHANGED <<err, tries, bucketId, needsRetry, mutex, resultsCh, results, crashed,
                 ctxDone, chainVars>>

\* The transaction the binding returns along with an error.
TxKept(w) == txNonce[w]                                \* mutant
TxOnError(w) == NoTx

\* ... then sends the transaction: refused for a bucket that does not exist and
\* for a nonce that is taken by now.
CreateFile(w) ==
  /\ pc[w] = "send"
  /\ err' = IF bucketId[w] = "zero" THEN "fatal"
            ELSE IF txNonce[w] < nextNonce THEN "retryable" ELSE "nil"
  /\ IF err' = "nil"
     THEN /\ sent' = sent \cup {<<w, txNonce[w]>>}
          /\ nextNonce' = nextNonce + 1
          /\ UNCHANGED txNonce
     ELSE /\ txNonce' = [txNonce EXCEPT ![w] = TxOnError(w)]
          /\ UNCHANGED <<sent, nextNonce>>
  /\ GoTo(w, "unlock")
  /\ UNCHANGED <<tries, bucketId, needsRetry, mutex, resultsCh, results, crashed, ctxDone,
                 others>>

Unlock(w) ==
  /\ pc[w] = "unlock"
  /\ mutex' = Free
  /\ GoTo(w, "classify")
  /\ UNCHANGED <<err, tries, bucketId, txNonce, needsRetry, resultsCh, results, crashed,
                 ctxDone, chainVars>>

\* return isRetryableTxError(err), err: err is read twice.
ClassifyErr(w) ==
  /\ pc[w] = "classify"
  /\ needsRetry' = [needsRetry EXCEPT ![w] = (SharedErr(w) = "retryable")]
  /\ GoTo(w, "createErr")
  /\ UNCHANGED <<err, tries, bucketId, txNonce, mutex, resultsCh, results, crashed,
                 ctxDone, chainVars>>

CreateErr(w) ==
  /\ pc[w] = "createErr"
  /\ IF SharedErr(w) = "nil"
     THEN GoTo(w, "wait") /\ UNCHANGED <<tries, resultsCh>>
     ELSE RetryOrFail(w, needsRetry[w], "lock")
  /\ UNCHANGED <<err, bucketId, txNonce, needsRetry, mutex, results, crashed, ctxDone,
                 chainVars>>

\* tx.Hash() and WaitForTx.
WaitForTx(w) ==
  /\ pc[w] = "wait"
  /\ IF txNonce[w] = NoTx
     THEN crashed' = TRUE /\ GoTo(w, "done") /\ UNCHANGED resultsCh
     ELSE /\ \/ Send(w, "upload")
             \/ ctxDone /\ Send(w, "error")
          /\ UNCHANGED crashed
  /\ UNCHANGED <<err, tries, bucketId, txNonce, needsRetry, mutex, results, ctxDone,
                 chainVars>>

\* Every worker has returned: the results are put at their indices.
LoopVariable(r) == NumFiles                            \* mutant
Placed(r) == r[1]
CollectResults ==
  /\ \A w \in File : pc[w] = "done"
  /\ results = <<>>
  /\ results' = [w \in File |->
       {r[2] : r \in {s \in resultsCh : Placed(s) = w}}]
  /\ UNCHANGED <<pc, err, tries, bucketId, txNonce, needsRetry, mutex, resultsCh, crashed,
                 ctxDone, chainVars>>

\* Another sender of the same account, with a mutex of its own: an Upload call.
OtherTransaction ==
  /\ others < MaxOthers
  /\ others' = others + 1 /\ nextNonce' = nextNonce + 1
  /\ UNCHANGED <<pc, err, tries, bucketId, txNonce, needsRetry, mutex, resultsCh, results,
                 crashed, ctxDone, sent>>

Cancel ==
  /\ MayCancel /\ ~ctxDone /\ results = <<>>
  /\ ctxDone' = TRUE
  /\ UNCHANGED <<pc, err, tries, bucketId, txNonce, needsRetry, mutex, resultsCh, results,
                 crashed, chainVars>>

Worker(w) == \/ Start(w) \/ GetBucketByName(w) \/ BucketErr(w) \/ Lock(w) \/ TakeNonce(w)
             \/ CreateFile(w) \/ Unlock(w) \/ ClassifyErr(w) \/ CreateErr(w) \/ WaitForTx(w)

\* A crash ends the program, a collected result the call.
Ended == (crashed \/ results # <<>>) /\ UNCHANGED vars

Next == \/ ~crashed /\ ((\E w \in File : Worker(w)) \/ CollectResults \/ OtherTransaction
                        \/ Cancel)
        \/ Ended

Spec == Init /\ [][Next]_vars

\* Goroutines are scheduled; others and the caller need not do anything.
FairSpec == /\ Spec
            /\ \A w \in File : WF_vars(~crashed /\ Worker(w)) /\ SF_vars(~crashed /\ Lock(w))
            /\ WF_vars(~crashed /\ CollectResults)

-----------------------------------------------------------------------------
(* Properties *)

TypeOK ==
  /\ pc \in [File -> {"new", "bucket", "bucketErr", "lock", "nonce", "send", "unlock",
                      "classify", "createErr", "wait", "done"}]
  /\ err \in {"nil"} \cup Error
  /\ tries \in [File -> 0 .. MaxRetries]
  /\ bucketId \in [File -> {"zero", "real"}]
  /\ txNonce \in [File -> Nat \cup {NoTx}]
  /\ needsRetry \in [File -> BOOLEAN]
  /\ mutex \in File \cup {Free}
  /\ resultsCh \subseteq File \X {"upload", "error"}
  /\ results = <<>> \/ results \in [File -> SUBSET {"upload", "error"}]
  /\ crashed \in BOOLEAN /\ ctxDone \in BOOLEAN
  /\ nextNonce \in Nat /\ others \in 0 .. MaxOthers
  /\ sent \subseteq File \X Nat

\* A call that returns reports exactly one outcome for every parameter, at the
\* index of the parameter, in whatever order the workers end.
OneResultEach ==
  results # <<>> => \A w \in File : Cardinality(results[w]) = 1

\* Between taking the account's pending nonce and sending the transaction no
\* other worker sends one: only senders outside this MultiUpload can make the
\* nonce stale.
NonceFresh ==
  others = 0 => \A w \in File : pc[w] = "send" => txNonce[w] = nextNonce

\* The chain accepted exactly one CreateFile, under a nonce of its own, for every
\* file reported as created, whatever the other workers did to err.
UploadMeansCreated ==
  /\ \A w \in File : <<w, "upload">> \in resultsCh =>
       \E n \in 0 .. nextNonce - 1 : <<w, n>> \in sent
  /\ \A r, s \in sent : r[2] = s[2] => r = s

\* "results contain independent errors for each file creation failure"
\* (sdk/multi_upload_test.go:360): a file fails only if its own bucket is missing.
IndependentErrors ==
  results # <<>> /\ ~ctxDone =>
    \A w \in File : results[w] = IF w \in Missing THEN {"error"} ELSE {"upload"}

\* The call returns, or the program has crashed.
CallReturns == <>(results # <<>> \/ crashed)

=============================================================================
