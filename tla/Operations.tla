----------------------------- MODULE Operations ------------------------------
(***************************************************************************)
(* The calls that change the buckets and files of an account:             *)
(* CreateBucket, DeleteBucket, CreateFileUpload, FileDelete and            *)
(* FileSetPublicAccess, made by clients that share the account, each with  *)
(* its reads of the contract first, then a transaction and its receipt.    *)
(* Between any two of these steps other clients' transactions are mined.   *)
(* The contract is external: it keeps buckets and files in arrays, refuses *)
(* an index that is not that of the name, and moves the last element to    *)
(* the place of one that is deleted.  An identifier is a function of the   *)
(* name, so names stand for identifiers.                                   *)
(***************************************************************************)
EXTENDS Naturals, Sequences, FiniteSets, SequencesExt

CONSTANTS
  Client,      \* calls, each of one client
  Call,        \* what they may ask: records [op, bucket, file]
  Stock,       \* buckets and files at the start: functions from 1..n to [bucket, files]
  MaxRetries,  \* withRetry.MaxAttempts
  MaxFaults    \* failed requests, at most

Retried == {"CreateBucket", "CreateFile"}   \* operations that send inside withRetry.Do

ASSUME OperationsAssumption ==
  /\ {MaxRetries, MaxFaults} \subseteq Nat
  /\ \A q \in Call : q.op \in Retried \union {"DeleteBucket", "DeleteFile", "SetPublic"}

VARIABLES
  buckets,   \* the contract's array of buckets, each with its array of files
  txs,       \* accepted transactions, in the order of their nonces
  mined,     \* how many of them have been executed
  call,      \* what each client asked
  pc,        \* "start", "read", "send", "sending", "wait", "lookup" or "done"
  todo,      \* reads the call still has to make
  index,     \* the index it has read
  seenAt,    \* transactions that had been mined then
  nonce,     \* the nonce it has read
  tries,     \* failed attempts of the retry loop that is running
  beaten,    \* nonces it lost to others
  lost,      \* an answer to a transaction of this call was lost
  outcome,   \* what the call has returned
  faults     \* MaxFaults counts down

chainVars == <<buckets, txs, mined>>
clientVars == <<call, pc, todo, index, seenAt, nonce, tries, beaten, lost, outcome>>
vars == <<chainVars, clientVars, faults>>
-----------------------------------------------------------------------------
(* The contract.                                                           *)

BucketAt(b) == {i \in DOMAIN buckets : buckets[i].bucket = b}
Exists(b) == BucketAt(b) # {}
Files(b) == IF Exists(b) THEN buckets[CHOOSE i \in BucketAt(b) : TRUE].files ELSE <<>>
FileAt(b, f) == {i \in DOMAIN Files(b) : Files(b)[i] = f}

MoveLastTo(s, i) == [k \in 1..(Len(s) - 1) |-> IF k = i THEN Last(s) ELSE s[k]]

Refusal(t) ==
  IF t.op = "CreateBucket" THEN IF Exists(t.bucket) THEN "BucketAlreadyExists" ELSE "none"
  ELSE IF ~Exists(t.bucket) THEN "Nonexists"
  ELSE CASE t.op = "DeleteBucket" ->
              IF Files(t.bucket) # <<>> THEN "BucketNonempty"
              ELSE IF t.index \notin BucketAt(t.bucket) THEN "IndexMismatch" ELSE "none"
         [] t.op = "CreateFile" -> IF FileAt(t.bucket, t.file) # {} THEN "FileAlreadyExists" ELSE "none"
         [] t.op = "DeleteFile" ->
              IF FileAt(t.bucket, t.file) = {} THEN "Nonexists"
              ELSE IF t.index \notin FileAt(t.bucket, t.file) THEN "IndexMismatch" ELSE "none"
         [] t.op = "SetPublic" -> IF FileAt(t.bucket, t.file) = {} THEN "Nonexists" ELSE "none"

SetFiles(b, fs) == buckets' = [i \in DOMAIN buckets |->
                                IF buckets[i].bucket = b THEN [buckets[i] EXCEPT !.files = fs] ELSE buckets[i]]

\* Who may read a file (SetPublic) is the access manager's: it changes nothing here.
Effect(t) ==
  CASE t.op = "CreateBucket" -> buckets' = Append(buckets, [bucket |-> t.bucket, files |-> <<>>])
    [] t.op = "DeleteBucket" -> buckets' = MoveLastTo(buckets, t.index)
    [] t.op = "CreateFile" -> SetFiles(t.bucket, Append(Files(t.bucket), t.file))
    [] t.op = "DeleteFile" -> SetFiles(t.bucket, MoveLastTo(Files(t.bucket), t.index))
    [] t.op = "SetPublic" -> UNCHANGED buckets

Mine ==
  /\ mined < Len(txs)
  /\ mined' = mined + 1
  /\ LET t == txs[mined + 1] IN
       IF Refusal(t) = "none"
         THEN Effect(t) /\ txs' = [txs EXCEPT ![mined + 1].status = "success"]
         ELSE UNCHANGED buckets /\ txs' = [txs EXCEPT ![mined + 1].status = Refusal(t)]
  /\ UNCHANGED <<clientVars, faults>>
-----------------------------------------------------------------------------
(* The calls.                                                              *)

\* What each operation reads before it sends its transaction.
Reads(op) ==
  CASE op = "CreateBucket" -> <<>>
    [] op = "DeleteBucket" -> <<"bucket", "bucket index">>
    [] op = "CreateFile" -> <<"bucket">>
    [] op = "DeleteFile" -> <<"bucket", "file", "file index">>
    [] op = "SetPublic" -> <<"bucket", "file">>

Init ==
  /\ buckets \in Stock /\ txs = <<>> /\ mined = 0
  /\ call \in [Client -> Call]
  /\ pc = [c \in Client |-> "start"]
  /\ todo = [c \in Client |-> Reads(call[c].op)]
  /\ index = [c \in Client |-> 0] /\ seenAt = index /\ nonce = index
  /\ tries = index /\ beaten = index
  /\ lost = [c \in Client |-> FALSE] /\ outcome = [c \in Client |-> "none"]
  /\ faults = MaxFaults

Fault == faults > 0 /\ faults' = faults - 1

GoTo(c, l) == pc' = [pc EXCEPT ![c] = l] /\ UNCHANGED outcome
Return(c, r) == pc' = [pc EXCEPT ![c] = "done"] /\ outcome' = [outcome EXCEPT ![c] = r]

ClientOther == UNCHANGED <<chainVars, call>>

Start(c) ==
  /\ pc[c] = "start" /\ GoTo(c, IF todo[c] = <<>> THEN "send" ELSE "read")
  /\ UNCHANGED <<todo, index, seenAt, nonce, tries, beaten, lost, faults>> /\ ClientOther

\* BucketView or GetBucketByName, GetFileByName, GetBucketIndexByName, GetFileIndexById: the
\* positions of what is asked for, none when it does not exist.
Found(c) == IF Head(todo[c]) \in {"bucket", "bucket index"} THEN BucketAt(call[c].bucket)
                                                            ELSE FileAt(call[c].bucket, call[c].file)

IndexOffByOne(i) == i + 1   \* mutant: another base
IndexSent(i) == i

ReadFound(c) ==
  /\ pc[c] = "read"
  /\ \E i \in Found(c) : index' = [index EXCEPT ![c] = IndexSent(i)]
  /\ seenAt' = [seenAt EXCEPT ![c] = mined]
  /\ todo' = [todo EXCEPT ![c] = Tail(@)]
  /\ tries' = [tries EXCEPT ![c] = 0]
  /\ GoTo(c, IF Len(todo[c]) = 1 THEN "send" ELSE "read")
  /\ UNCHANGED <<nonce, beaten, lost, faults>> /\ ClientOther

NeverRetried(c) == FALSE                              \* mutant: the error is not retryable

\* isRetryableTxError, and withRetry.Do has attempts left.
MayRetry(c) == call[c].op \in Retried /\ tries[c] < MaxRetries

\* There is none, or the request fails; CreateFileUpload tries again in either case.
ReadFails(c) ==
  /\ pc[c] = "read"
  /\ Fault \/ (Found(c) = {} /\ UNCHANGED faults)
  /\ IF MayRetry(c) THEN tries' = [tries EXCEPT ![c] = @ + 1] /\ GoTo(c, "read")
                    ELSE Return(c, "read") /\ UNCHANGED tries
  /\ UNCHANGED <<todo, index, seenAt, nonce, beaten, lost>> /\ ClientOther

Transaction(c) == [op |-> call[c].op, bucket |-> call[c].bucket, file |-> call[c].file,
                   index |-> index[c], client |-> c, status |-> "pending"]

\* The gas is estimated, which runs the call on the state of the moment, and the nonce read.
Prepare(c) ==
  /\ pc[c] = "send"
  /\ IF Refusal(Transaction(c)) = "none"
       THEN GoTo(c, "sending") /\ nonce' = [nonce EXCEPT ![c] = Len(txs) + 1]
       ELSE Return(c, Refusal(Transaction(c))) /\ UNCHANGED nonce
  /\ UNCHANGED <<todo, index, seenAt, tries, beaten, lost, faults>> /\ ClientOther

Accepted(c) == nonce[c] = Len(txs) + 1

Send(c) ==
  /\ pc[c] = "sending" /\ Accepted(c)
  /\ txs' = Append(txs, Transaction(c))
  /\ GoTo(c, "wait")
  /\ UNCHANGED <<buckets, mined, call, todo, index, seenAt, tries, beaten, lost, nonce, faults>>

SendAgain(c, error) ==
  IF MayRetry(c) THEN tries' = [tries EXCEPT ![c] = @ + 1] /\ GoTo(c, "send")
                  ELSE Return(c, error) /\ UNCHANGED tries

\* "nonce too low" or "replacement transaction underpriced": others were faster.
NonceTaken(c) ==
  /\ pc[c] = "sending" /\ ~Accepted(c)
  /\ beaten' = [beaten EXCEPT ![c] = @ + 1]
  /\ SendAgain(c, "nonce")
  /\ UNCHANGED <<todo, index, seenAt, nonce, lost, faults>> /\ ClientOther

\* "EOF": the transaction was accepted but its answer is lost.
AnswerLost(c) ==
  /\ pc[c] = "sending" /\ Accepted(c) /\ Fault
  /\ txs' = Append(txs, Transaction(c))
  /\ lost' = [lost EXCEPT ![c] = TRUE]
  /\ SendAgain(c, "EOF")
  /\ UNCHANGED <<buckets, mined, call, todo, index, seenAt, nonce, beaten>>

\* The transaction waited for is the one sent under the nonce read last.
Receipt(c) == txs[nonce[c]].status

AnyReceipt(c) == Receipt(c) # "pending"               \* mutant: forgets the status
Successful(c) == Receipt(c) = "success"

WaitOnce(c) ==   \* mutant: a receipt that is not there yet is an error
  /\ pc[c] = "wait"
  /\ IF Successful(c)
       THEN IF call[c].op = "CreateBucket" THEN GoTo(c, "lookup") ELSE Return(c, "nil")
       ELSE Return(c, Receipt(c))
  /\ UNCHANGED <<todo, index, seenAt, nonce, tries, beaten, lost, faults>> /\ ClientOther

WaitForSuccess(c) ==   \* mutant: a transaction that failed is waited for
  /\ pc[c] = "wait" /\ Successful(c)
  /\ IF call[c].op = "CreateBucket" THEN GoTo(c, "lookup") ELSE Return(c, "nil")
  /\ UNCHANGED <<todo, index, seenAt, nonce, tries, beaten, lost, faults>> /\ ClientOther

WaitForTx(c) ==
  /\ pc[c] = "wait" /\ Receipt(c) # "pending"
  /\ IF Successful(c)
       THEN IF call[c].op = "CreateBucket" THEN GoTo(c, "lookup") ELSE Return(c, "nil")
       ELSE Return(c, Receipt(c))
  /\ UNCHANGED <<todo, index, seenAt, nonce, tries, beaten, lost, faults>> /\ ClientOther

WaitFails(c) ==
  /\ pc[c] = "wait" /\ Fault /\ Return(c, "receipt")
  /\ UNCHANGED <<todo, index, seenAt, nonce, tries, beaten, lost>> /\ ClientOther

\* CreateBucket reads back what it has created; another client may have deleted it.
LookupBucket(c) ==
  /\ pc[c] = "lookup"
  /\ \/ Exists(call[c].bucket) /\ Return(c, "nil") /\ UNCHANGED faults
     \/ ~Exists(call[c].bucket) /\ Return(c, "lookup") /\ UNCHANGED faults
     \/ Fault /\ Return(c, "lookup")
  /\ UNCHANGED <<todo, index, seenAt, nonce, tries, beaten, lost>> /\ ClientOther

ClientStep(c) ==
  \/ Start(c) \/ ReadFound(c) \/ ReadFails(c) \/ Prepare(c) \/ Send(c) \/ NonceTaken(c)
  \/ AnswerLost(c) \/ WaitForTx(c) \/ WaitFails(c) \/ LookupBucket(c)

Ended == (\A c \in Client : pc[c] = "done") /\ mined = Len(txs) /\ UNCHANGED vars

Next == Mine \/ (\E c \in Client : ClientStep(c)) \/ Ended

Spec == Init /\ [][Next]_vars

\* Every request is answered, and a transaction that was accepted is mined.
Fairness == WF_vars(Mine) /\ \A c \in Client : WF_vars(ClientStep(c))
FairSpec == Spec /\ Fairness
-----------------------------------------------------------------------------
(* Properties.                                                             *)

Own(c) == {t \in DOMAIN txs : txs[t].client = c}
Effects(c) == {t \in 1..mined : txs[t].client = c /\ txs[t].status = "success"}
Names(q) == <<q.op, q.bucket, q.file>>

TypeOK ==
  /\ mined \in 0..Len(txs) /\ \A c \in Client : nonce[c] \in 0..(Len(txs) + 1)
  /\ \A c \in Client : tries[c] \in 0..MaxRetries /\ beaten[c] \in Nat
  /\ \A c \in Client : pc[c] \in {"start", "read", "send", "sending", "wait", "lookup", "done"}
  /\ \A i, j \in DOMAIN buckets : buckets[i].bucket = buckets[j].bucket => i = j

\* nil means that a transaction of this very call, and no other client's, has done what was
\* asked: of two clients that create the same bucket at once one is told that it exists.
NilIsOwnEffect ==
  \A c \in Client : outcome[c] = "nil" =>
    \E t \in Effects(c) : Names(txs[t]) = Names(call[c])

\* An error after which nothing may have happened, and nothing happens later: all errors but
\* those after an answer or a receipt was lost and those of CreateBucket's last read.  Nor
\* does a call ever act twice, unless an answer was lost.
ErrorMeansNoEffect ==
  \A c \in Client : ~lost[c] =>
    /\ outcome[c] \notin {"none", "nil", "receipt", "lookup"} =>
         \A t \in Own(c) : txs[t].status \notin {"pending", "success"}
    /\ Cardinality(Own(c)) <= 1

\* A deletion is refused for its index only when another transaction was mined after the
\* index was read: a client that is alone always deletes what exists.
IndexRefusedOnlyIfStale ==
  \A c \in Client : outcome[c] = "IndexMismatch" =>
    \E t \in (seenAt[c] + 1)..mined : txs[t].client # c /\ txs[t].status = "success"

\* A call gives up on its nonce only after more failed attempts than it may make again, each
\* of them a nonce it lost to a transaction of another call or a transaction of its own that
\* was accepted and whose answer was lost.
GivesUpOnNonceLate ==
  \A c \in Client :
    /\ beaten[c] <= Cardinality(DOMAIN txs \ Own(c))
    /\ outcome[c] = "nonce" =>
         beaten[c] + Cardinality(Own(c)) > (IF call[c].op \in Retried THEN MaxRetries ELSE 0)

\* Every call returns.
CallsReturn == \A c \in Client : <>(pc[c] = "done")
=============================================================================
