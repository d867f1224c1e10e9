---------------------------- MODULE ConnectionPool ---------------------------
(***************************************************************************)
(* The pool of connections that all operations of an SDK share: get looks  *)
(* the address up under the read lock and, when there is no connection,    *)
(* again under the write lock before it makes one; close closes and drops  *)
(* them all.  A goroutine that calls get makes one connection at most, so  *)
(* a connection is named after the goroutine that made it.                 *)
(***************************************************************************)
EXTENDS Naturals, FiniteSets

CONSTANTS
  Getter,   \* calls of get
  Addr,     \* addresses of nodes
  AddrOf,   \* the address each call asks for
  Closer,   \* calls of close
  None      \* no connection, no goroutine

ASSUME PoolAssumption ==
  /\ AddrOf \in [Getter -> Addr]
  /\ Getter \cap Closer = {} /\ None \notin Getter \union Closer

Goroutine == Getter \union Closer

VARIABLES
  pc,           \* where every call is
  readers,      \* calls that hold the read lock
  writer,       \* the call that holds the write lock
  connections,  \* the map
  open,         \* connections that are open
  got           \* what get has returned

poolVars == <<pc, readers, writer, connections, open, got>>

PoolInit ==
  /\ pc = [g \in Goroutine |-> "start"]
  /\ readers = {} /\ writer = None
  /\ connections = [a \in Addr |-> None]
  /\ open = {}
  /\ got = [g \in Getter |-> None]

MoveTo(g, l) == pc' = [pc EXCEPT ![g] = l]
Return(g, c) == MoveTo(g, "done") /\ got' = [got EXCEPT ![g] = c]

\* A sync.RWMutex: a waiting writer keeps new readers out.
Waiting == {g \in Goroutine : pc[g] = "lock"}
-----------------------------------------------------------------------------
(* get                                                                     *)

RLock(g) ==
  /\ pc[g] = "start" /\ writer = None /\ Waiting = {}
  /\ readers' = readers \union {g}
  /\ MoveTo(g, "read")
  /\ UNCHANGED <<writer, connections, open, got>>

Hit(g) ==
  /\ pc[g] = "read" /\ connections[AddrOf[g]] # None
  /\ Return(g, connections[AddrOf[g]])
  /\ readers' = readers \ {g}
  /\ UNCHANGED <<writer, connections, open>>

Miss(g) ==
  /\ pc[g] = "read" /\ connections[AddrOf[g]] = None
  /\ readers' = readers \ {g}
  /\ MoveTo(g, "lock")
  /\ UNCHANGED <<writer, connections, open, got>>

LockAtOnce(g) ==   \* mutant: keeps only the read lock
  /\ pc[g] = "lock"
  /\ MoveTo(g, IF g \in Closer THEN "close" ELSE "check")
  /\ UNCHANGED <<readers, writer, connections, open, got>>

Lock(g) ==
  /\ pc[g] = "lock" /\ writer = None /\ readers = {}
  /\ writer' = g
  /\ MoveTo(g, IF g \in Closer THEN "close" ELSE "check")
  /\ UNCHANGED <<readers, connections, open, got>>

Unlock == writer' = None

\* The second look, for a connection that was made since the first.
CheckHit(g) ==
  /\ pc[g] = "check" /\ connections[AddrOf[g]] # None
  /\ Return(g, connections[AddrOf[g]])
  /\ Unlock
  /\ UNCHANGED <<readers, connections, open>>

CheckNothing(g) ==   \* mutant: no second look
  /\ pc[g] = "check"
  /\ MoveTo(g, "new")
  /\ UNCHANGED <<readers, writer, connections, open, got>>

CheckMiss(g) ==
  /\ pc[g] = "check" /\ connections[AddrOf[g]] = None
  /\ MoveTo(g, "new")
  /\ UNCHANGED <<readers, writer, connections, open, got>>

NewClient(g) ==
  /\ pc[g] = "new"
  /\ open' = open \union {g}
  /\ MoveTo(g, "insert")
  /\ UNCHANGED <<readers, writer, connections, got>>

\* The address does not parse.
NewClientFails(g) ==
  /\ pc[g] = "new"
  /\ Return(g, None)
  /\ Unlock
  /\ UNCHANGED <<readers, connections, open>>

Insert(g) ==
  /\ pc[g] = "insert"
  /\ connections' = [connections EXCEPT ![AddrOf[g]] = g]
  /\ Return(g, g)
  /\ Unlock
  /\ UNCHANGED <<readers, open>>
-----------------------------------------------------------------------------
(* close; a connection whose Close returns an error is dropped as well.    *)

StartClose(c) ==
  /\ pc[c] = "start"
  /\ MoveTo(c, "lock")
  /\ UNCHANGED <<readers, writer, connections, open, got>>

CloseOne(c, a) ==
  /\ pc[c] = "close" /\ connections[a] # None
  /\ open' = open \ {connections[a]}
  /\ connections' = [connections EXCEPT ![a] = None]
  /\ UNCHANGED <<pc, readers, writer, got>>

CloseReturns(c) ==
  /\ pc[c] = "close" /\ \A a \in Addr : connections[a] = None
  /\ MoveTo(c, "done")
  /\ Unlock
  /\ UNCHANGED <<readers, connections, open, got>>

Get(g) ==
  \/ RLock(g) \/ Hit(g) \/ Miss(g) \/ Lock(g)
  \/ CheckHit(g) \/ CheckMiss(g) \/ NewClient(g) \/ NewClientFails(g) \/ Insert(g)
Close(c) == StartClose(c) \/ Lock(c) \/ (\E a \in Addr : CloseOne(c, a)) \/ CloseReturns(c)

PoolEnded == (\A g \in Goroutine : pc[g] = "done") /\ UNCHANGED poolVars

PoolNext == (\E g \in Getter : Get(g)) \/ (\E c \in Closer : Close(c)) \/ PoolEnded

PoolSpec == PoolInit /\ [][PoolNext]_poolVars

\* The scheduler runs every goroutine, and a mutex is not held for ever.
PoolFairSpec ==
  /\ PoolSpec
  /\ \A g \in Getter : WF_poolVars(Get(g))
  /\ \A c \in Closer : WF_poolVars(Close(c))
-----------------------------------------------------------------------------
(* Properties.                                                             *)

Location == {"start", "read", "lock", "check", "new", "insert", "close", "done"}

PoolTypeOK ==
  /\ pc \in [Goroutine -> Location]
  /\ readers \subseteq Getter /\ writer \in Goroutine \union {None}
  /\ connections \in [Addr -> Getter \union {None}]
  /\ open \subseteq Getter /\ got \in [Getter -> Getter \union {None}]

\* However many goroutines ask for an address for the first time at once, and whenever the
\* pool is closed, no address has two open connections.
OneConnection == \A c, d \in open : AddrOf[c] = AddrOf[d] => c = d

\* Every open connection can be found in the map, so that close reaches it, but for the one
\* that the holder of the write lock is about to insert.
NoneLost == \A c \in open : connections[AddrOf[c]] = c \/ (pc[c] = "insert" /\ writer = c)

\* The map has no closed connection, which get would hand out for ever.
NoneStale == \A a \in Addr : connections[a] # None => connections[a] \in open

\* However calls of get and close meet, the open connections are those of the map, one for an
\* address: none is opened twice, lost to close, or handed out closed.
PoolConsistent == OneConnection /\ NoneLost /\ NoneStale

\* Every get and every close returns.
PoolReturns == \A g \in Goroutine : <>(pc[g] = "done")
=============================================================================
