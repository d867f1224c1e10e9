--------------------------- MODULE StorageCommands ---------------------------
(***************************************************************************)
(* The bucket and file commands of the command line, given one after       *)
(* another by the owner of an account: what each accepts as arguments,     *)
(* under which name it stores and finds things, what the flags make of a   *)
(* file, and what is left behind when it fails half way.  A command is one *)
(* step: its transactions, retries and goroutines are those of Operations, *)
(* UploadPipeline and Download.  A call to the node may always fail.       *)
(***************************************************************************)
EXTENDS Naturals, Sequences, FiniteSets

CONSTANTS
  Arguments,       \* lists of arguments that are given
  TrimSpace,       \* a function on the arguments
  Base,            \* a function from the paths that are uploaded to the name of their last part
  TooShort,        \* names of less than minBucketNameLength bytes
  EncryptionKeys,  \* values of the flag encryption-key that New accepts, but for none
  BadKeys,         \* values that are not hex, or of another length
  MaxBuckets,      \* buckets at a time
  MaxUploads       \* successful uploads

NoEncryption == "none"

ASSUME StorageCommandsAssumption ==
  /\ {MaxBuckets, MaxUploads} \subseteq Nat /\ EncryptionKeys \intersect BadKeys = {} /\ NoEncryption \notin EncryptionKeys
  /\ \A a \in Arguments : \A i \in DOMAIN a : a[i] \in DOMAIN TrimSpace /\ TrimSpace[TrimSpace[a[i]]] = TrimSpace[a[i]]

VARIABLES
  buckets,   \* names of the account's buckets, as stored
  files,     \* what is stored under a pair of names, a function
  uploads,   \* successful uploads so far; the number of one is its content
  dest,      \* the destination file: what it has, of which content
  last       \* the last command: its result, what it has shown and, of a download, the file and the flags

commandVars == <<buckets, files, uploads, dest, last>>
-----------------------------------------------------------------------------
(* Names and keys.                                                         *)

Flags == [enc : EncryptionKeys \union BadKeys \union {NoEncryption}, metadata : BOOLEAN, coding : BOOLEAN]

Plain(text) == [text |-> text, key |-> NoEncryption, path |-> ""]
Unreadable == [text |-> "", key |-> "unreadable", path |-> ""]

Encrypts(f) == f.enc \in EncryptionKeys
Hides(f) == Encrypts(f) /\ f.metadata

\* maybeEncryptMetadata and EncryptD: the same name gives the same text.
Stored(text, path, f) == IF Hides(f) THEN [text |-> text, key |-> f.enc, path |-> path] ELSE Plain(text)

\* maybeDecryptMetadata.
Readable(name, path, f) ==
  IF ~Hides(f) THEN name
  ELSE IF name.key = f.enc /\ name.path = path THEN Plain(name.text) ELSE Unreadable

PathOfBucket(b) == "bucket"   \* mutant: files are named under the path of the buckets
PathOf(b) == b

BucketName(b, f) == Stored(b, "bucket", f)
FileName(b, n, f) == Stored(n, PathOf(b), f)
-----------------------------------------------------------------------------
(* What the commands accept and how they end.                              *)

NumArgs(c) ==
  CASE c \in {"create", "delete", "view", "list files"} -> 1
    [] c \in {"info", "upload", "file delete", "archival-metadata"} -> 2
    [] c = "download" -> 3
    [] c = "list" -> 0

Trimmed == {"view", "list files", "info", "upload", "download", "file delete", "archival-metadata"}

\* What Args leaves of the arguments.
Given(c, a) == IF c \in Trimmed THEN [i \in DOMAIN a |-> TrimSpace[a[i]]] ELSE a
Accepted(c, a) == Len(a) = NumArgs(c) /\ \A i \in DOMAIN a : Given(c, a)[i] # ""

\* defaultParameters decodes the key, New checks its length; IPC dials.
Ready(f) == f.enc \notin BadKeys

Ends(why, shown) == last' = [why |-> why, shown |-> shown, file |-> <<>>, enc |-> NoEncryption, coding |-> FALSE]
EndsDownload(why, p, f) == last' = [why |-> why, shown |-> {}, file |-> p, enc |-> f.enc, coding |-> f.coding]

Fails(why) == Ends(why, {}) /\ UNCHANGED <<buckets, files, uploads, dest>>

Started(c, a, f) == Accepted(c, a) /\ Ready(f)

-----------------------------------------------------------------------------
(* The commands of buckets.                                                *)

CommandInit ==
  /\ buckets = {} /\ files = <<>> /\ uploads = 0
  /\ dest = [is |-> "old", content |-> 0]
  /\ last = [why |-> "ok", shown |-> {}, file |-> <<>>, enc |-> NoEncryption, coding |-> FALSE]

cmdCreateBucket(a, f) ==
  LET b == BucketName(Head(a), f) IN
  /\ Started("create", a, f)
  /\ IF Head(a) \in TooShort \/ b \in buckets
       THEN Fails("refused")
       ELSE /\ Cardinality(buckets) < MaxBuckets
            /\ buckets' = buckets \union {b}
            /\ Ends("ok", {Readable(b, "bucket", f)})
            /\ UNCHANGED <<files, uploads, dest>>

FilesOf(b) == {p \in DOMAIN files : p[1] = b}

cmdDeleteBucket(a, f) ==
  LET b == BucketName(Head(a), f) IN
  /\ Started("delete", a, f)
  /\ IF b \notin buckets \/ FilesOf(b) # {}
       THEN Fails("refused")
       ELSE /\ buckets' = buckets \ {b}
            /\ Ends("ok", {})
            /\ UNCHANGED <<files, uploads, dest>>

Shows(shown) ==
  Ends(IF Unreadable \in shown THEN "unreadable" ELSE "ok", shown) /\ UNCHANGED <<buckets, files, uploads, dest>>

cmdViewBucket(a, f) ==
  LET b == BucketName(Given("view", a)[1], f) IN
  /\ Started("view", a, f)
  /\ IF b \in buckets THEN Shows({Readable(b, "bucket", f)}) ELSE Fails("refused")

\* ListBuckets shows a name it cannot decrypt as it is stored.
ListBuckets(f) == {IF Readable(b, "bucket", f) = Unreadable THEN b ELSE Readable(b, "bucket", f) : b \in buckets}

cmdListBuckets(a, f) ==
  Started("list", a, f) /\ Ends("listed", ListBuckets(f)) /\ UNCHANGED <<buckets, files, uploads, dest>>
-----------------------------------------------------------------------------
(* The commands of files.                                                  *)

ListFiles(b, f) == {Readable(p[2], b, f) : p \in FilesOf(BucketName(b, f))}

cmdListFiles(a, f) ==
  LET b == Given("list files", a)[1] IN
  /\ Started("list files", a, f)
  /\ IF BucketName(b, f) \in buckets THEN Shows(ListFiles(b, f)) ELSE Fails("refused")

Place(b, n, f) == <<BucketName(b, f), FileName(b, n, f)>>

FileInfo(b, n, f) ==
  LET bName == Readable(Place(b, n, f)[1], "bucket", f) IN {Readable(Place(b, n, f)[2], bName.text, f)}

cmdFileInfo(a, f) ==
  LET g == Given("info", a) IN
  /\ Started("info", a, f)
  /\ IF Place(g[1], g[2], f) \in DOMAIN files THEN Shows(FileInfo(g[1], g[2], f))
                                             ELSE Fails("refused")

Stores(p, v) == files' = [q \in DOMAIN files \union {p} |-> IF q = p THEN v ELSE files[q]]

\* CreateFileUpload, then Upload; when that fails the file stays, without content.
cmdFileUpload(a, f) ==
  LET b == Given("upload", a)[1]
      p == Place(b, Base[Given("upload", a)[2]], f)
  IN  /\ Started("upload", a, f)
      /\ IF p[1] \notin buckets \/ p \in DOMAIN files
           THEN Fails("refused")
           ELSE /\ \/ uploads < MaxUploads /\ uploads' = uploads + 1 /\ Ends("ok", {})
                      /\ Stores(p, [content |-> uploads', coded |-> f.coding, key |-> IF Encrypts(f) THEN f.enc ELSE NoEncryption])
                   \/ UNCHANGED uploads /\ Ends("upload", {})
                      /\ Stores(p, [content |-> 0, coded |-> FALSE, key |-> NoEncryption])
                /\ UNCHANGED <<buckets, dest>>

Failed == "failed"
\* What the blocks of a file give with and without erasure coding.
Decoded(v, f) ==
  IF f.coding THEN (IF v.coded THEN "data" ELSE Failed) ELSE (IF v.coded THEN "shards" ELSE "data")

OpensAnything(v, data, f) == data   \* mutant: the tag is not checked

\* Decrypt opens what was sealed with the same key, and nothing else; without a key it is left out.
Opened(v, data, f) ==
  IF data = Failed \/ (Encrypts(f) /\ (data # "data" \/ v.key # f.enc)) THEN Failed
  ELSE IF ~Encrypts(f) /\ v.key # NoEncryption THEN "encrypted" ELSE data

CreateAtOnce(p) == TRUE   \* mutant: the destination is created before the file is looked up

\* CreateFileDownload comes before os.Create.
DestinationCreated(p) == p \in DOMAIN files

\* The file at the destination is truncated before FileInfo and Download.
cmdFileDownload(a, f) ==
  LET g == Given("download", a)
      p == Place(g[1], g[2], f)
      result == Opened(files[p], Decoded(files[p], f), f)
  IN  /\ Started("download", a, f)
      /\ IF ~DestinationCreated(p)
           THEN Fails("refused")
           ELSE /\ \/ p \in DOMAIN files /\ files[p].content # 0 /\ result # Failed
                      /\ dest' = [is |-> result, content |-> files[p].content] /\ EndsDownload("ok", p, f)
                   \/ \E part \in {"empty", "part"} :
                        dest' = [is |-> part, content |-> 0] /\ EndsDownload("download", p, f)
                /\ UNCHANGED <<buckets, files, uploads>>

cmdFileDelete(a, f) ==
  LET g == Given("file delete", a) IN
  /\ Started("file delete", a, f)
  /\ LET p == Place(g[1], g[2], f) IN
       IF p \notin DOMAIN files
         THEN Fails("refused")
         ELSE /\ files' = [q \in DOMAIN files \ {p} |-> files[q]]
              /\ Ends("ok", {})
              /\ UNCHANGED <<buckets, uploads, dest>>

cmdArchivalMetadata(a, f) ==
  LET g == Given("archival-metadata", a) IN
  /\ Started("archival-metadata", a, f)
  /\ IF Place(g[1], g[2], f) \in DOMAIN files THEN Shows({}) ELSE Fails("refused")

\* The arguments or the flags of some command are refused.
NotStarted == Fails("not started")

\* A request to the node or the chain fails before anything is changed.
RequestFails == Fails("node")

CommandNext ==
  \/ \E a \in Arguments, f \in Flags :
       \/ cmdCreateBucket(a, f) \/ cmdDeleteBucket(a, f) \/ cmdViewBucket(a, f) \/ cmdListBuckets(a, f)
       \/ cmdListFiles(a, f) \/ cmdFileInfo(a, f) \/ cmdFileUpload(a, f) \/ cmdFileDownload(a, f)
       \/ cmdFileDelete(a, f) \/ cmdArchivalMetadata(a, f)
  \/ NotStarted \/ RequestFails

CommandSpec == CommandInit /\ [][CommandNext]_commandVars
-----------------------------------------------------------------------------
(* Properties.                                                             *)

\* After a download that ended well with a key the destination is the file as it was uploaded,
\* with that key; without a key it is so when the flags are those of the upload.  A download
\* spoils what was at the destination only if the file exists.
DownloadTruth ==
  last.file # <<>> =>
    /\ last.file \in DOMAIN files
    /\ last.why = "ok" =>
         /\ dest.content = files[last.file].content
         /\ last.enc # NoEncryption => dest.is = "data" /\ files[last.file].key = last.enc
         /\ files[last.file].key = NoEncryption /\ files[last.file].coded = last.coding => dest.is = "data"

\* Whoever can find a bucket can read the names in it: a name that is shown is one that was
\* given, and a listing of files does not fail for a name it cannot read.
NamesReadable ==
  /\ last.why # "unreadable"
  /\ last.why = "ok" => \A s \in last.shown : s.key = NoEncryption

CommandsTruthful == DownloadTruth /\ NamesReadable
=============================================================================
