----------------------------- MODULE GatedWrites ------------------------------
(***************************************************************************)
(* The gate of store_db around the pool of infra/db/client.py: execute_sql, *)
(* execute_many and the guarded batch take a connection inside              *)
(* call_provider_api, with the slots of store_db and of the global gate in  *)
(* hand.  query_dataframe takes one of the same pool without any gate, and  *)
(* the calls to other providers share the global gate only.                 *)
(*                                                                         *)
(* A thread of both sets writes; the other workers call other providers,    *)
(* the other threads read.                                                  *)
(***************************************************************************)
EXTENDS ProviderGate, DbPool

CONSTANT store_db

ASSUME GatedAssumption == store_db \in Providers

gatedVars == <<gateVars, poolVars>>

GatedInit == GateInit /\ PoolInit

\* A write is not counted with the calls, which bound the reads: MaxRuns does.
EnterPool(w) ==
    /\ MoveTo(w, "poll")
    /\ NoFault /\ UNCHANGED <<idle, open, created, active, held, closer, calls>>

\* Once through the gate a writer asks the pool for a connection.
WriteBegins(w) ==
    /\ AcquireGlobal(w)
    /\ IF stage'[w] = "call" THEN EnterPool(w) ELSE UNCHANGED poolVars

\* The function that the gate calls ends when the connection is given back, or
\* none could be opened; it returns or raises.
WriteEnds(w) == place[w] = "out" /\ Finish(w) /\ UNCHANGED poolVars

CallsProvider(w) == (AcquireGlobal(w) \/ Finish(w)) /\ UNCHANGED poolVars

Queues(w) ==
    /\ \/ AcquireProvider(w) \/ RateSlot(w) \/ Awake(w)
       \/ ReleaseGlobal(w) \/ ReleaseProvider(w) \/ DecideRetry(w) \/ Backoff(w)
    /\ UNCHANGED poolVars

GatedStep(w) ==
    \/ Queues(w)
    \/ w \in Threads /\ (WriteBegins(w) \/ WriteEnds(w))
    \/ w \notin Threads /\ CallsProvider(w)

GatedStart(w, p) == (w \in Threads <=> p = store_db) /\ Start(w, p) /\ UNCHANGED poolVars

\* Only readers stream, and may drop a connection.
Read(t) == t \notin Workers /\ (Call(t) \/ Drop(t))

GatedNext ==
    \/ \E w \in Workers : GatedStep(w) \/ \E p \in Providers : GatedStart(w, p)
    \/ Tick /\ UNCHANGED poolVars
    \/ (\E t \in Threads : Run(t) \/ Break(t) \/ Read(t)) /\ UNCHANGED gateVars
    \/ ClosePool /\ UNCHANGED gateVars

-----------------------------------------------------------------------------
(* Properties.                                                             *)

\* Every call of run ends, although a thread holds its provider's slot while it
\* sleeps and while it queues for the global semaphore, and a writer holds both
\* slots while it waits for a connection, without a timeout.  A writer may wait
\* for ever once a slot of the pool was freed without a connection; the calls to
\* the other providers, which then find the global gate narrower, still end.
RunEnds ==
    \A w \in Workers :
        (stage[w] = "sem") ~> (stage[w] = "out" \/ (w \in Threads /\ SlotFreed))
=============================================================================
