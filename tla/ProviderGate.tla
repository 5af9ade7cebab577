----------------------------- MODULE ProviderGate -----------------------------
(***************************************************************************)
(* ProviderGate of infra/provider_runtime/core.py: the calls to a provider  *)
(* pass a semaphore of the provider, a sliding window of one second and a   *)
(* semaphore shared by all providers, and are retried after an error.       *)
(*                                                                         *)
(* A second is Window ticks.  A deque of call times is kept as the ages of  *)
(* the calls, oldest first, in ticks; a sleeping thread keeps the ticks it  *)
(* has left.  The counters that only feed get_provider_metrics are left out. *)
(***************************************************************************)
EXTENDS Integers, Sequences, FiniteSets

CONSTANTS
    Workers,      \* threads that call providers
    Providers,    \* providers with a gate
    Concurrency,  \* Concurrency[p]: the bound of the semaphore of p
    Global,       \* GLOBAL_CONCURRENCY
    Rate,         \* Rate[p]: calls per second, rounded up; 0: no limit
    MaxRetries,   \* MaxRetries[p]
    Window,       \* ticks of a second
    MaxRuns       \* bound on the calls of ProviderGate.run

ASSUME GateAssumption ==
    /\ IsFiniteSet(Workers)
    /\ Concurrency \in [Providers -> Nat \ {0}]
    /\ Global \in Nat \ {0}
    /\ Rate \in [Providers -> Nat]
    /\ MaxRetries \in [Providers -> Nat]
    /\ Window \in Nat \ {0} /\ MaxRuns \in Nat
    /\ Providers # {}

VARIABLES
    free,      \* free[p]: the value of the provider's semaphore
    globalFree,\* the value of _GLOBAL_GATE
    recentCalls,\* recentCalls[p]: _calls, as ages
    stage,        \* the next step of each worker
    run,       \* the locals of a worker: provider, attempt, outcome, ticks to sleep
    runs,      \* calls of run so far
    started    \* history: ages of the provider functions started in the last second

gateVars == <<free, globalFree, recentCalls, stage, run, runs, started>>

\* Where a worker holds a slot of its provider, of the global gate.
InProvider == {"rate", "sleep", "global", "call", "ungate", "unsem"}
InGlobal == {"call", "ungate"}
GateLabels == {"out", "sem", "decide", "backoff"} \cup InProvider

Outcome == {"none", "ok", "error", "timeout", "base"}

RunLocals == [provider: Providers, attempt: Nat, outcome: Outcome, left: 0..Window]

Ages == Seq(0..Window)

GateTypeOK ==
    /\ free \in [Providers -> Nat]
    /\ globalFree \in Nat
    /\ recentCalls \in [Providers -> Ages]
    /\ stage \in [Workers -> GateLabels]
    /\ run \in [Workers -> RunLocals]
    /\ runs \in 0..MaxRuns
    /\ started \in [Providers -> Ages]

NewRun(p) == [provider |-> p, attempt |-> 0, outcome |-> "none", left |-> 0]

GateInit ==
    /\ free = Concurrency
    /\ globalFree = Global
    /\ recentCalls = [p \in Providers |-> <<>>]
    /\ stage = [w \in Workers |-> "out"]
    /\ run = [w \in Workers |-> NewRun(CHOOSE p \in Providers : TRUE)]
    /\ runs = 0
    /\ started = [p \in Providers |-> <<>>]

P(w) == run[w].provider
Moves(w, label) == stage' = [stage EXCEPT ![w] = label]
Add(counter, p, n) == [counter EXCEPT ![p] = @ + n]
End(w, outcome) == run' = [run EXCEPT ![w].outcome = outcome]

\* The history is kept of the providers that have a rate limit.
Note(ages, p) == IF Rate[p] = 0 THEN ages ELSE [ages EXCEPT ![p] = Append(@, 0)]

slots == <<free, globalFree>>

-----------------------------------------------------------------------------
(* run and _run_once.                                                      *)

Start(w, p) ==
    /\ stage[w] = "out" /\ runs < MaxRuns
    /\ runs' = runs + 1
    /\ run' = [run EXCEPT ![w] = NewRun(p)]
    /\ Moves(w, "sem")
    /\ UNCHANGED <<slots, recentCalls, started>>

\* _acquire_semaphore: it may fail only while no slot is free, with or without
\* a queue timeout.
AcquireProvider(w) ==
    /\ stage[w] = "sem"
    /\ \/ /\ free[P(w)] > 0
          /\ free' = Add(free, P(w), -1)
          /\ Moves(w, "rate") /\ UNCHANGED run
       \/ /\ free[P(w)] = 0
          /\ End(w, "timeout") /\ Moves(w, "decide")
          /\ UNCHANGED free
    /\ UNCHANGED <<globalFree, recentCalls, runs, started>>

\* while self._calls and self._calls[0] <= cutoff: the old calls in front leave.
Recent(ages) ==
    LET old == CHOOSE n \in 0..Len(ages) :
                   /\ \A i \in 1..n : ages[i] >= Window
                   /\ n < Len(ages) => ages[n + 1] < Window
    IN  SubSeq(ages, old + 1, Len(ages))

\* Mutant: a call that passes is not remembered.
RateSlotForgets(w) ==
    LET p == P(w)
        recent == Recent(recentCalls[p])
    IN  /\ stage[w] = "rate"
        /\ IF Rate[p] = 0 \/ Len(recent) < Rate[p]
           THEN /\ recentCalls' = [recentCalls EXCEPT ![p] = recent]
                /\ Moves(w, "global")
                /\ UNCHANGED run
           ELSE /\ recentCalls' = [recentCalls EXCEPT ![p] = recent]
                /\ run' = [run EXCEPT ![w].left = Window - recent[1]]
                /\ Moves(w, "sleep")
        /\ UNCHANGED <<slots, runs, started>>

\* Mutant: calls that are a second old stay in the deque.
RateSlotKeepsOld(w) ==
    LET p == P(w)
    IN  /\ stage[w] = "rate"
        /\ IF Rate[p] = 0 \/ Len(recentCalls[p]) < Rate[p]
           THEN /\ recentCalls' = IF Rate[p] = 0 THEN recentCalls ELSE [recentCalls EXCEPT ![p] = Append(@, 0)]
                /\ Moves(w, "global")
                /\ UNCHANGED run
           ELSE /\ run' = [run EXCEPT ![w].left = Window - recentCalls[p][1]]
                /\ Moves(w, "sleep")
                /\ UNCHANGED recentCalls
        /\ UNCHANGED <<slots, runs, started>>

\* _wait_for_rate_slot, one turn of its loop: old calls leave the deque; there
\* is room for another, or the thread sleeps until the oldest is a second old.
RateSlot(w) ==
    LET p == P(w)
        recent == Recent(recentCalls[p])
    IN  /\ stage[w] = "rate"
        /\ IF Rate[p] = 0 \/ Len(recent) < Rate[p]
           THEN /\ recentCalls' = IF Rate[p] = 0 THEN recentCalls ELSE [recentCalls EXCEPT ![p] = Append(recent, 0)]
                /\ Moves(w, "global")
                /\ UNCHANGED run
           ELSE /\ recentCalls' = [recentCalls EXCEPT ![p] = recent]
                /\ run' = [run EXCEPT ![w].left = Window - recent[1]]
                /\ Moves(w, "sleep")
        /\ UNCHANGED <<slots, runs, started>>

Awake(w) ==
    /\ stage[w] = "sleep" /\ run[w].left = 0
    /\ Moves(w, "rate")
    /\ UNCHANGED <<slots, recentCalls, run, runs, started>>

\* Mutant: after a global queue timeout the slot of the provider is kept.
AcquireGlobalKeeps(w) ==
    /\ stage[w] = "global"
    /\ \/ /\ globalFree > 0
          /\ globalFree' = globalFree - 1
          /\ started' = Note(started, P(w))
          /\ Moves(w, "call") /\ UNCHANGED run
       \/ /\ globalFree = 0
          /\ End(w, "timeout") /\ Moves(w, "decide")
          /\ UNCHANGED <<globalFree, started>>
    /\ UNCHANGED <<free, recentCalls, runs>>

\* The global semaphore is taken with the provider's slot in hand.
AcquireGlobal(w) ==
    /\ stage[w] = "global"
    /\ \/ /\ globalFree > 0
          /\ globalFree' = globalFree - 1
          /\ started' = Note(started, P(w))
          /\ Moves(w, "call") /\ UNCHANGED run
       \/ /\ globalFree = 0
          /\ End(w, "timeout") /\ Moves(w, "unsem")
          /\ UNCHANGED <<globalFree, started>>
    /\ UNCHANGED <<free, recentCalls, runs>>

\* The provider function returns or raises.
Finish(w) ==
    /\ stage[w] = "call"
    /\ \E outcome \in Outcome \ {"none"} : End(w, outcome)
    /\ Moves(w, "ungate")
    /\ UNCHANGED <<slots, recentCalls, runs, started>>

\* The three finally clauses, inside out.
ReleaseGlobal(w) ==
    /\ stage[w] = "ungate"
    /\ globalFree' = globalFree + 1
    /\ Moves(w, "unsem")
    /\ UNCHANGED <<free, recentCalls, run, runs, started>>

ReleaseProvider(w) ==
    /\ stage[w] = "unsem"
    /\ free' = Add(free, P(w), 1)
    /\ Moves(w, "decide")
    /\ UNCHANGED <<globalFree, recentCalls, run, runs, started>>

\* The except clauses of run: an Exception is retried, a TimeoutError, of the
\* gate or of the function, and a BaseException are not.
DecideRetry(w) ==
    LET again == run[w].outcome = "error" /\ run[w].attempt < MaxRetries[P(w)]
    IN  /\ stage[w] = "decide"
        /\ run' = [run EXCEPT ![w] = IF again THEN [@ EXCEPT !.attempt = @ + 1] ELSE NewRun(P(w))]
        /\ Moves(w, IF again THEN "backoff" ELSE "out")
        /\ UNCHANGED <<slots, recentCalls, runs, started>>

\* time.sleep(delay) between two attempts.
Backoff(w) ==
    /\ stage[w] = "backoff"
    /\ Moves(w, "sem")
    /\ UNCHANGED <<slots, recentCalls, run, runs, started>>

\* A tick of the clock.
Older(ages) == [i \in DOMAIN ages |-> IF ages[i] < Window THEN ages[i] + 1 ELSE Window]

Tick ==
    /\ recentCalls' = [p \in Providers |-> Older(recentCalls[p])]
    /\ started' = [p \in Providers |-> Recent(Older(started[p]))]
    /\ run' = [w \in Workers |-> [run[w] EXCEPT !.left = IF @ > 0 THEN @ - 1 ELSE 0]]
    /\ UNCHANGED <<slots, stage, runs>>

-----------------------------------------------------------------------------
Step(w) ==
    \/ AcquireProvider(w) \/ RateSlot(w) \/ Awake(w) \/ AcquireGlobal(w)
    \/ Finish(w) \/ ReleaseGlobal(w) \/ ReleaseProvider(w) \/ DecideRetry(w) \/ Backoff(w)

GateNext ==
    \/ \E w \in Workers : Step(w) \/ \E p \in Providers : Start(w, p)
    \/ Tick

GateSpec == GateInit /\ [][GateNext]_gateVars

(* Time passes, threads run and a provider function returns or raises (the  *)
(* packages set their own socket timeouts).                                 *)
FairGateSpec == GateSpec /\ WF_gateVars(Tick) /\ \A w \in Workers : WF_gateVars(Step(w))

-----------------------------------------------------------------------------
(* Properties.                                                             *)

HoldersOf(p) == {w \in Workers : stage[w] \in InProvider /\ P(w) = p}
GlobalHolders == {w \in Workers : stage[w] \in InGlobal}

\* Every way out of _run_once, the two queue timeouts, an error, an interrupt,
\* gives back exactly the slots it took: a semaphore never loses or gains one.
SlotsExact ==
    /\ \A p \in Providers : free[p] + Cardinality(HoldersOf(p)) = Concurrency[p]
    /\ globalFree + Cardinality(GlobalHolders) = Global

\* The calls that reach the provider in a second may be more: those of this
\* second and those of earlier ones that waited for the global semaphore, of
\* which there are no more than the provider has slots.
BurstBounded ==
    \A p \in Providers : Rate[p] > 0 => Len(started[p]) <= Rate[p] + Concurrency[p]
=============================================================================
