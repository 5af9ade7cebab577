------------------------------- MODULE MCLimits -------------------------------
(***************************************************************************)
(* The two limits a call waits for, the gate of its provider and a         *)
(* connection of the database pool.  A behaviour follows the gate, the     *)
(* pool, or the writers that take a connection behind the gate.            *)
(***************************************************************************)
EXTENDS GatedWrites, TLC

CONSTANTS w1, w2, tushare, akshare, t1, t2, c1, c2, c3, c4,
          BothRuns, BothCalls   \* bounds where gate and pool are followed together

TwoWorkers == {w1, w2}
AllProviders == {tushare, akshare, store_db}

\* tushare has two slots, one call per second and a retry; akshare and store_db
\* one slot and no limit.  One call at a time passes the global gate.
SharedConcurrency == (tushare :> 2) @@ (akshare :> 1) @@ (store_db :> 1)
OneRated == (tushare :> 1) @@ (akshare :> 0) @@ (store_db :> 0)
SomeRetries == (tushare :> 1) @@ (akshare :> 0) @@ (store_db :> 0)

\* Behind the gate w1 writes, w2 calls akshare, and the other threads read.
ThreeThreads == {w1, t1, t2}
FourConns == {c1, c2, c3, c4}
AllFaults == {"break", "connect", "cancel", "interrupt", "close"}

VARIABLE followed

limitVars == <<gateVars, poolVars, followed>>

LimitsInit == followed \in {"gate", "pool", "both"} /\ GatedInit

Called == {P(w) : w \in {v \in Workers : stage[v] # "out"}}

\* The gate alone is followed with the calls to tushare.
GateBound == Called \subseteq {tushare}

\* Both are followed with two kinds of fault, and without a rate limit.
BothBounds ==
  /\ runs <= BothRuns /\ calls <= BothCalls
  /\ \A f \in Faults \ {"connect", "break"} : faults[f] = 0
  /\ Called \subseteq {akshare, store_db}

\* Unused connections are alike: any one of them stands for the new one.
AnyUnused == \A c \in open' \ open : c = CHOOSE d \in Unused : TRUE

LimitsNext ==
  /\ UNCHANGED followed
  /\ \/ followed = "gate" /\ GateNext /\ GateBound' /\ UNCHANGED poolVars
     \/ followed = "pool" /\ PoolNext /\ AnyUnused /\ UNCHANGED gateVars
     \/ followed = "both" /\ GatedNext /\ AnyUnused /\ BothBounds'

\* The fairness of FairGateSpec and of FairPoolSpec, for what is followed.
FairTick == followed # "pool" /\ Tick /\ UNCHANGED <<poolVars, followed>>

FairStep(w) ==
  /\ \/ followed = "gate" /\ Step(w) /\ UNCHANGED poolVars
     \/ followed = "both" /\ GatedStep(w)
  /\ UNCHANGED followed

InPool(A) == followed # "gate" /\ A /\ UNCHANGED <<gateVars, followed>>

LimitsFairness ==
  /\ WF_limitVars(FairTick) /\ \A w \in Workers : WF_limitVars(FairStep(w))
  /\ \A t \in Threads : WF_limitVars(InPool(Run(t)))
  /\ WF_limitVars(InPool(CloseOne \/ ZeroCreated))

LimitsSpec == LimitsInit /\ [][LimitsNext]_limitVars /\ LimitsFairness
=============================================================================
