---------------------------- MODULE MCOperations -----------------------------
(* Three clients that create and delete buckets, or create, delete and publish *)
(* files of one bucket.  Clients that ask the same are interchangeable, so the *)
(* calls are dealt out in the order of the list.                              *)
EXTENDS Operations

CONSTANTS c1, c2, c3, b1, b2, f1, f2, none

Clients == {c1, c2, c3}
Ask(op, b, f) == [op |-> op, bucket |-> b, file |-> f]

BucketCalls == <<Ask("CreateBucket", b1, none), Ask("DeleteBucket", b1, none), Ask("DeleteBucket", b2, none)>>
FileCalls ==
  <<Ask("CreateFile", b1, f1), Ask("DeleteFile", b1, f1), Ask("DeleteFile", b1, f2),
    Ask("SetPublic", b1, f1), Ask("DeleteBucket", b1, none)>>
Calls == Range(BucketCalls) \union Range(FileCalls)

Bucket(b, fs) == [bucket |-> b, files |-> fs]
BucketStock == {<<>>, <<Bucket(b2, <<>>)>>, <<Bucket(b2, <<>>), Bucket(b1, <<>>)>>}
FileStock == {<<Bucket(b1, <<>>)>>, <<Bucket(b1, <<f2, f1>>)>>}
Stocks == BucketStock \union FileStock

Dealt(calls, stock) ==
  /\ buckets \in stock
  /\ \E i, j, k \in DOMAIN calls :
       i <= j /\ j <= k /\ call[c1] = calls[i] /\ call[c2] = calls[j] /\ call[c3] = calls[k]

MCInit == Init /\ (Dealt(BucketCalls, BucketStock) \/ Dealt(FileCalls, FileStock))

MCSpec == MCInit /\ [][Next]_vars /\ Fairness
=============================================================================
