-------------------------------- MODULE DbPool --------------------------------
(***************************************************************************)
(* The connection pool of infra/db/client.py.  store/cache_db.py and        *)
(* infra/db/read_client.py hold copies of it; read_client alone gives its   *)
(* slot back when a connect is interrupted (RollsBack).                     *)
(*                                                                         *)
(* The idle connections sit in a bounded queue.Queue with its own lock; the *)
(* counters _POOL_CREATED and _POOL_ACTIVE are guarded by _POOL_LOCK.  The  *)
(* queue and the counters are never updated together: a step is one queue   *)
(* operation or one "with _POOL_LOCK" block.                                *)
(***************************************************************************)
EXTENDS Integers, FiniteSets

CONSTANTS
    Threads,    \* threads that run queries
    Conns,      \* connection objects; a closed one that nobody holds is reused
    NoConn,     \* a thread without a connection
    Size,       \* DB_POOL_SIZE
    QueueSize,  \* maxsize of the queue: max(1, DB_POOL_SIZE)
    RollsBack,  \* an interrupted connect gives its slot back
    Faults,     \* which of "break", "connect", "cancel", "interrupt", "close" happen
    MaxFaults,  \* bound on their number
    MaxCalls    \* bound on the number of queries

ASSUME PoolAssumption ==
    /\ NoConn \notin Conns /\ Threads \cap Conns = {}
    /\ IsFiniteSet(Conns) /\ IsFiniteSet(Threads)
    /\ Size \in Nat /\ QueueSize = IF Size = 0 THEN 1 ELSE Size
    /\ RollsBack \in BOOLEAN
    /\ Faults \subseteq {"break", "connect", "cancel", "interrupt", "close"}
    /\ MaxFaults \in Nat /\ MaxCalls \in Nat

VARIABLES
    idle,     \* _POOL
    open,     \* connections that are not closed
    created,  \* _POOL_CREATED
    active,   \* _POOL_ACTIVE
    place,       \* the next step of each thread
    held,     \* its local "connection"
    closer,   \* where close_pool is
    calls,    \* queries started
    faults    \* the faults that happened, in order of kind and number

poolVars == <<idle, open, created, active, place, held, closer, calls, faults>>

Places == {"out", "poll", "check", "decide", "connect", "wait", "use", "return"}
Holding == {"check", "use", "return"}

PoolTypeOK ==
    /\ idle \subseteq Conns
    /\ open \subseteq Conns
    /\ created \in Int /\ active \in Int
    /\ place \in [Threads -> Places]
    /\ held \in [Threads -> Conns \cup {NoConn}]
    /\ closer \in {"no", "drain", "zero"}
    /\ calls \in 0..MaxCalls
    /\ faults \in [Faults -> 0..MaxFaults]

PoolInit ==
    /\ idle = {} /\ open = {}
    /\ created = 0 /\ active = 0
    /\ place = [t \in Threads |-> "out"]
    /\ held = [t \in Threads |-> NoConn]
    /\ closer = "no"
    /\ calls = 0
    /\ faults = [f \in Faults |-> 0]

MoveTo(t, label) == place' = [place EXCEPT ![t] = label]
Hold(t, c) == held' = [held EXCEPT ![t] = c]

Fault(f) == f \in Faults /\ faults[f] < MaxFaults /\ faults' = [faults EXCEPT ![f] = @ + 1]
NoFault == faults' = faults
Happened(f) == f \in Faults /\ faults[f] > 0

-----------------------------------------------------------------------------
(* _acquire_connection.                                                    *)

Call(t) ==
    /\ place[t] = "out" /\ calls < MaxCalls
    /\ calls' = calls + 1
    /\ MoveTo(t, "poll")
    /\ NoFault /\ UNCHANGED <<idle, open, created, active, held, closer>>

\* Mutant: the connection stays in the queue.
TakePeek(t, c) ==
    /\ c \in idle
    /\ Hold(t, c)
    /\ MoveTo(t, "check")
    /\ UNCHANGED idle

Take(t, c) ==
    /\ c \in idle
    /\ idle' = idle \ {c}
    /\ Hold(t, c)
    /\ MoveTo(t, "check")

\* _POOL.get_nowait().
Poll(t) ==
    /\ place[t] = "poll"
    /\ \/ \E c \in Conns : Take(t, c)
       \/ idle = {} /\ MoveTo(t, "decide") /\ UNCHANGED <<idle, held>>
    /\ NoFault /\ UNCHANGED <<open, created, active, closer, calls>>

\* A connection that was closed while it lay in the queue is dropped.
Check(t) ==
    /\ place[t] = "check"
    /\ IF held[t] \in open
       THEN active' = active + 1 /\ MoveTo(t, "use") /\ UNCHANGED <<created, held>>
       ELSE created' = created - 1 /\ Hold(t, NoConn) /\ MoveTo(t, "poll") /\ UNCHANGED active
    /\ NoFault /\ UNCHANGED <<idle, open, closer, calls>>

\* The queue was empty: a slot is taken, or the thread will wait.
Decide(t) ==
    /\ place[t] = "decide"
    /\ IF created < Size
       THEN created' = created + 1 /\ active' = active + 1 /\ MoveTo(t, "connect")
       ELSE MoveTo(t, "wait") /\ UNCHANGED <<created, active>>
    /\ NoFault /\ UNCHANGED <<idle, open, held, closer, calls>>

Unused == Conns \ (open \cup idle \cup {held[t] : t \in Threads})

\* Mutant: a failed connect gives the lease back and keeps the slot.
ConnectKeepsSlot(t) ==
    /\ place[t] = "connect"
    /\ \/ \E c \in Unused : Hold(t, c) /\ open' = open \cup {c}
          /\ MoveTo(t, "use") /\ NoFault /\ UNCHANGED <<created, active>>
       \/ /\ Fault("connect") \/ (RollsBack /\ Fault("interrupt"))
          /\ active' = active - 1
          /\ MoveTo(t, "out") /\ UNCHANGED <<created, open, held>>
       \/ /\ ~RollsBack /\ Fault("interrupt")
          /\ MoveTo(t, "out") /\ UNCHANGED <<created, active, open, held>>
    /\ UNCHANGED <<idle, closer, calls>>

\* _connect(), and the except clause: client.py catches Exception, so that a
\* KeyboardInterrupt leaves both counters as they are.
Connect(t) ==
    /\ place[t] = "connect"
    /\ \/ \E c \in Unused : Hold(t, c) /\ open' = open \cup {c}
          /\ MoveTo(t, "use") /\ NoFault /\ UNCHANGED <<created, active>>
       \/ /\ Fault("connect") \/ (RollsBack /\ Fault("interrupt"))
          /\ created' = created - 1 /\ active' = active - 1
          /\ MoveTo(t, "out") /\ UNCHANGED <<open, held>>
       \/ /\ ~RollsBack /\ Fault("interrupt")
          /\ MoveTo(t, "out") /\ UNCHANGED <<created, active, open, held>>
    /\ UNCHANGED <<idle, closer, calls>>

\* _POOL.get(): nothing but a connection put into the queue ends it.
Wait(t) ==
    /\ place[t] = "wait"
    /\ \E c \in Conns : Take(t, c)
    /\ NoFault /\ UNCHANGED <<open, created, active, closer, calls>>

-----------------------------------------------------------------------------
(* The end of a query.                                                     *)

\* The connection breaks under a query.
Break(t) ==
    /\ place[t] = "use" /\ held[t] \in open
    /\ Fault("break")
    /\ open' = open \ {held[t]}
    /\ UNCHANGED <<idle, created, active, place, held, closer, calls>>

\* _release_connection, its first block.
GiveBack(t) ==
    /\ place[t] = "use"
    /\ active' = active - 1
    /\ MoveTo(t, "return")
    /\ NoFault /\ UNCHANGED <<idle, open, created, held, closer, calls>>

\* Mutant: the test of the closed flag is the wrong way round.
ReturnInverted(t) ==
    /\ place[t] = "return"
    /\ Hold(t, NoConn)
    /\ MoveTo(t, "out")
    /\ IF held[t] \notin open /\ Cardinality(idle) < QueueSize
       THEN idle' = idle \cup {held[t]} /\ UNCHANGED <<open, created>>
       ELSE open' = open \ {held[t]} /\ created' = created - 1 /\ UNCHANGED idle
    /\ NoFault /\ UNCHANGED <<active, closer, calls>>

\* The rest of it: a closed connection is dropped, an open one goes back, and
\* when the queue is full it is closed.
Return(t) ==
    /\ place[t] = "return"
    /\ Hold(t, NoConn)
    /\ MoveTo(t, "out")
    /\ IF held[t] \in open /\ Cardinality(idle) < QueueSize
       THEN idle' = idle \cup {held[t]} /\ UNCHANGED <<open, created>>
       ELSE open' = open \ {held[t]} /\ created' = created - 1 /\ UNCHANGED idle
    /\ NoFault /\ UNCHANGED <<active, closer, calls>>

\* _cleanup_stream when the cancel, the cursor or the rollback fails:
\* _drop_connection.
Drop(t) ==
    /\ place[t] = "use" /\ Fault("cancel")
    /\ open' = open \ {held[t]}
    /\ active' = active - 1 /\ created' = created - 1
    /\ Hold(t, NoConn) /\ MoveTo(t, "out")
    /\ UNCHANGED <<idle, closer, calls>>

-----------------------------------------------------------------------------
(* close_pool: empties the queue, then sets the counter to zero, whatever is *)
(* leased at that time.                                                     *)

StartClose ==
    /\ closer = "no" /\ Fault("close")
    /\ closer' = "drain"
    /\ UNCHANGED <<idle, open, created, active, place, held, calls>>

CloseOne ==
    /\ closer = "drain"
    /\ \/ \E c \in idle : idle' = idle \ {c} /\ open' = open \ {c} /\ UNCHANGED closer
       \/ idle = {} /\ closer' = "zero" /\ UNCHANGED <<idle, open>>
    /\ NoFault /\ UNCHANGED <<created, active, place, held, calls>>

ZeroCreated ==
    /\ closer = "zero"
    /\ created' = 0 /\ closer' = "no"
    /\ NoFault /\ UNCHANGED <<idle, open, active, place, held, calls>>

ClosePool == StartClose \/ CloseOne \/ ZeroCreated

-----------------------------------------------------------------------------
Run(t) ==
    \/ Poll(t) \/ Check(t) \/ Decide(t) \/ Connect(t) \/ Wait(t) \/ GiveBack(t) \/ Return(t)

PoolNext ==
    \/ \E t \in Threads : Call(t) \/ Run(t) \/ Break(t) \/ Drop(t)
    \/ ClosePool

PoolSpec == PoolInit /\ [][PoolNext]_poolVars

(* Threads run, queries end and their callers exhaust or close what they    *)
(* stream, as the docstring of stream_query_batches asks; close_pool ends.  *)
PoolFairness ==
    /\ \A t \in Threads : WF_poolVars(Run(t))
    /\ WF_poolVars(CloseOne \/ ZeroCreated)

FairPoolSpec == PoolSpec /\ PoolFairness

-----------------------------------------------------------------------------
(* Properties.                                                             *)

NeverClosed == ~Happened("close")

\* Slots that an interrupted connect never gave back.
Leaked == IF RollsBack \/ "interrupt" \notin Faults THEN 0 ELSE faults["interrupt"]

\* What a slot of the pool is in use for: a connection in the queue, a thread
\* that holds one, a thread that connects.
Busy == {t \in Threads : place[t] \in Holding \cup {"connect"}}
SlotsInUse == idle \cup Busy

\* The counter that decides whether a thread may connect counts the slots in
\* use, although it is updated apart from the queue; it is too large by the
\* interrupted connects, and by nothing else.
CountedExactly == NeverClosed => created = Cardinality(SlotsInUse) + Leaked

\* No more connections are open at the server than the pool may have.
ServerBounded == NeverClosed => Cardinality(open) <= Size

\* A connection has one user: no two threads hold it, and none that is held
\* lies in the queue, even while close_pool empties it.
OneUser ==
    \A t \in Threads : held[t] # NoConn =>
        held[t] \notin idle /\ \A u \in Threads : held[u] = held[t] => u = t

\* A connection in the queue is open: the test after get never drops one, and
\* close_pool closes none that somebody may still take.
QueuedIsOpen == idle \subseteq open

\* A healthy connection always finds room in the queue.
RoomToReturn ==
    NeverClosed => \A t \in Threads : place[t] = "return" => Cardinality(idle) < QueueSize

\* A thread that waits on the empty queue can still be woken: somebody holds a
\* connection or is about to.  It needs that no slot was freed without a
\* connection, by a failed connect, a broken or a dropped connection.
SlotFreed == \E f \in Faults : faults[f] > 0

WaiterCanWake ==
    Size > 0 /\ ~SlotFreed =>
        \A t \in Threads : place[t] = "wait" /\ idle = {} =>
            \E u \in Threads : place[u] \in Holding \cup {"connect"}

\* Then every query gets its connection, for any finite number of queries.
EveryCallServed ==
    \A t \in Threads : (place[t] = "poll") ~> (place[t] = "use" \/ SlotFreed)
=============================================================================
