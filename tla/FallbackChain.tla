------------------------------ MODULE FallbackChain ------------------------------
(***************************************************************************)
(* The chain of sources behind one capability query: runtime_core/         *)
(* executor.py (run_fallback_chain and the consensus race) with            *)
(* provider_timeout/runtime.py, which bounds each provider call.           *)
(*                                                                         *)
(* Of a value only its origin is kept (module Rows).  Scores are           *)
(* abstracted: where the code ranks by score (trust, latency, errors) or   *)
(* takes the weighted median, any of the candidates wins.                  *)
(* Time is counted in units of the capability's budget.                    *)
(***************************************************************************)
EXTENDS Rows, Integers, Sequences

CONSTANTS
    Order,         \* the steps in the order of _order_steps
    Needed,        \* the fields the request builder looks at
    Builder,       \* how missing keys become requests, see Requests
    Strategies,    \* the merge strategies of the profile in force
    Timeout,       \* [Sources -> Nat \ {0}], resolve_provider_timeout
    Budget,        \* resolve_capability_timeout
    Marks          \* the dates an answer may carry, 0 for none

ASSUME OrderAssumption ==
    /\ Order \in Seq(Sources)
    /\ \A i, j \in DOMAIN Order : Order[i] = Order[j] => i = j
ASSUME TimeAssumption ==
    /\ Timeout \in [Sources -> Nat \ {0}]
    /\ Budget \in Nat
    /\ Marks \subseteq Nat
ASSUME StrategyAssumption ==
    /\ Needed \subseteq Fields
    /\ Builder \in {"each", "all", "empty"}
    /\ Strategies \subseteq {"priority_fallback", "first_success", "raw_passthrough",
                             "freshest_wins", "field_consensus", "append_dedupe"}

\* Three ways in which the facades build requests from what is missing: one per
\* key (or range), one for all missing keys, one for everything if there is
\* not a single row.
Missing(items) == {k \in Keys : items[k] = Absent \/ \E f \in Needed : items[k][f] = None}

Requests(items) ==
    CASE Builder = "each"  -> {{k} : k \in Missing(items)}
      [] Builder = "all"   -> IF Missing(items) = {} THEN {} ELSE {Missing(items)}
      [] Builder = "empty" -> IF items = Nothing THEN {Keys} ELSE {}

VARIABLES
    strategy,  \* normalize_merge_strategy of the profile in force
    base,      \* base_items
    items,     \* merged_items, or merged_probe_items of the race
    at,        \* the position of the current step in Order
    todo,      \* the requests of the step that are still to be sent
    asked,     \* the sources of the steps so far that had requests
    heard,     \* heard[s]: what source s has answered
    mark,      \* mark[s]: the latest date in heard[s], read by freshest_wins only
    hits,      \* the sources the report shows as provider_hit
    spent,     \* time spent
    pc

vars == <<strategy, base, items, at, todo, asked, heard, mark, hits, spent, pc>>

Init ==
    /\ strategy \in Strategies
    /\ base \in ItemsOf({Base}) /\ items = base
    /\ at = 1 /\ todo = {} /\ asked = {} /\ hits = {} /\ spent = 0
    /\ heard = [s \in Sources |-> Nothing] /\ mark = [s \in Sources |-> 0]
    /\ pc = "step"

Racing == strategy # "priority_fallback"

\* The strategies that merge an answer as soon as its step has ended, to ask
\* the next source only for what is missing.
Probing == strategy \in {"append_dedupe", "field_consensus"}

\* The strategies that stop at the first source with rows.
FirstOnly == strategy \in {"first_success", "raw_passthrough"}

-----------------------------------------------------------------------------
(* The steps.                                                              *)

Current == Order[at]

\* The next source is asked for what is missing; nothing missing ends the chain.
Ask ==
    /\ pc = "step" /\ at <= Len(Order)
    /\ IF Requests(items) = {}
       THEN pc' = "finish" /\ UNCHANGED <<todo, asked>>
       ELSE /\ pc' = "fetch"
            /\ todo' = Requests(items)
            /\ asked' = asked \cup {Current}
    /\ UNCHANGED <<strategy, base, items, at, heard, mark, hits, spent>>

NoMoreSteps ==
    /\ pc = "step" /\ at > Len(Order)
    /\ pc' = "finish"
    /\ UNCHANGED <<strategy, base, items, at, todo, asked, heard, mark, hits, spent>>

\* Mutant: only the timeout of the provider counts.
LimitProvider == Timeout[Current]

\* _merge_timeout.
Limit == IF Budget - spent < Timeout[Current] THEN Budget - spent ELSE Timeout[Current]

\* The answers a source can give, to any request: also nothing, also rows it
\* was not asked for.
Answers(s) == ItemsOf({s})

\* provider_hit of the chain: the merge added a row or filled a field.
Credit(answer) == IF Merge(items, answer) = items THEN hits ELSE hits \cup {Current}

\* run_provider_request returned within its limit.
FetchOk ==
    /\ pc = "fetch" /\ Limit > 0
    /\ \E r \in todo, d \in 0..Limit, answer \in Answers(Current), m \in Marks :
        /\ todo' = todo \ {r}
        /\ spent' = spent + d
        /\ answer = Nothing \/ strategy # "freshest_wins" => m = 0
        /\ heard' = [heard EXCEPT ![Current] = Merge(@, answer)]
        /\ mark' = [mark EXCEPT ![Current] = IF m > @ THEN m ELSE @]
        /\ IF Racing THEN UNCHANGED <<items, hits>>
           ELSE items' = Merge(items, answer) /\ hits' = Credit(answer)
    /\ UNCHANGED <<strategy, base, at, asked, pc>>

\* The provider raised an error, or gave no answer in time: its thread is left
\* behind and what it returns later is dropped.  The error is counted and the
\* other requests of the step are sent all the same.
FetchFails ==
    /\ pc = "fetch" /\ Limit > 0
    /\ \E r \in todo, d \in 0..Limit : todo' = todo \ {r} /\ spent' = spent + d
    /\ UNCHANGED <<strategy, base, items, at, asked, heard, mark, hits, pc>>

\* The budget is spent: the provider is not called.
FetchRefused ==
    /\ pc = "fetch" /\ Limit <= 0
    /\ \E r \in todo : todo' = todo \ {r}
    /\ UNCHANGED <<strategy, base, items, at, asked, heard, mark, hits, spent, pc>>

\* Mutant: a source that answered nothing is asked again.
EndStepRetry ==
    /\ pc = "fetch" /\ todo = {}
    /\ items' = IF Probing THEN Merge(items, heard[Current]) ELSE items
    /\ IF FirstOnly /\ heard[Current] # Nothing
       THEN pc' = "finish" /\ UNCHANGED at
       ELSE pc' = "step" /\ at' = IF heard[Current] = Nothing THEN at ELSE at + 1
    /\ UNCHANGED <<strategy, base, todo, asked, heard, mark, hits, spent>>

\* Mutant: a source that answered nothing ends the chain.
EndStepGivesUp ==
    /\ pc = "fetch" /\ todo = {}
    /\ items' = IF Probing THEN Merge(items, heard[Current]) ELSE items
    /\ IF FirstOnly \/ heard[Current] = Nothing
       THEN pc' = "finish" /\ UNCHANGED at
       ELSE pc' = "step" /\ at' = at + 1
    /\ UNCHANGED <<strategy, base, todo, asked, heard, mark, hits, spent>>

\* The step is over: a race may take its answer, else the next one is asked.
EndStep ==
    /\ pc = "fetch" /\ todo = {}
    /\ items' = IF Probing THEN Merge(items, heard[Current]) ELSE items
    /\ IF FirstOnly /\ heard[Current] # Nothing
       THEN pc' = "finish" /\ UNCHANGED at
       ELSE pc' = "step" /\ at' = at + 1
    /\ UNCHANGED <<strategy, base, todo, asked, heard, mark, hits, spent>>

-----------------------------------------------------------------------------
(* The end of the race: which answers are adopted.                         *)

Valid == {s \in Sources : heard[s] # Nothing}

Position(s) == CHOOSE i \in DOMAIN Order : Order[i] = s

FirstOf(set) == {s \in set : \A t \in set : Position(s) <= Position(t)}

\* _select_best_result: the first source, the first of the latest, or, if no
\* answer carries a date, the one with the highest score.
Latest == {s \in Valid : \A t \in Valid : mark[t] <= mark[s]}

Best ==
    CASE strategy = "first_success" -> FirstOf(Valid)
      [] strategy = "freshest_wins" /\ \E s \in Valid : mark[s] > 0 -> FirstOf(Latest)
      [] OTHER -> Valid

\* _merge_consensus_items: of each field one of the values given for it.
Offers(k, f) == {s \in Valid : Cell(heard[s], k, f) # None}

Consensus ==
    {choice \in ItemsOf(Valid) : \A k \in Keys :
        /\ choice[k] = Absent <=> \A s \in Valid : heard[s][k] = Absent
        /\ choice[k] # Absent => \A f \in Fields :
              IF Offers(k, f) = {} THEN choice[k][f] = None ELSE choice[k][f] \in Offers(k, f)}

\* Mutant: the consensus replaces what was there before.
AdoptConsensusFirst == \E choice \in Consensus : items' = Merge(choice, base) /\ hits' = Valid

\* The answers of the sources are merged into the base items, which win.
AdoptConsensus == \E choice \in Consensus : items' = Merge(base, choice) /\ hits' = Valid

\* One answer is adopted as a whole.
AdoptBest ==
    IF Valid = {} THEN items' = base /\ hits' = {}
    ELSE \E best \in Best : items' = Merge(base, heard[best]) /\ hits' = {best}

\* All answers, in the order of the steps: as they were merged for the probe.
AdoptAll == items' = items /\ hits' = Valid

Finish ==
    /\ pc = "finish"
    /\ pc' = "done"
    /\ CASE strategy = "priority_fallback" -> UNCHANGED <<items, hits>>
         [] strategy = "append_dedupe" -> AdoptAll
         [] strategy = "field_consensus" -> AdoptConsensus
         [] OTHER -> AdoptBest
    /\ UNCHANGED <<strategy, base, at, todo, asked, heard, mark, spent>>

Next == Ask \/ NoMoreSteps \/ FetchOk \/ FetchFails \/ FetchRefused \/ EndStep \/ Finish

Spec == Init /\ [][Next]_vars

\* The chain is one thread that never waits longer than a provider's limit.
FairSpec == Spec /\ WF_vars(Next)

-----------------------------------------------------------------------------
(* Properties.                                                             *)

TypeOK ==
    /\ strategy \in Strategies /\ base \in ItemsOf({Base}) /\ items \in Items
    /\ at \in 1..Len(Order) + 1 /\ todo \subseteq SUBSET Keys
    /\ asked \subseteq Sources /\ hits \subseteq Sources
    /\ heard \in [Sources -> Items] /\ \A s \in Sources : heard[s] \in Answers(s)
    /\ mark \in [Sources -> Nat] /\ spent \in Nat
    /\ pc \in {"step", "fetch", "finish", "done"}

\* What was there before, then the sources in their order: the first that has
\* the field.
Before(s, t) == \E i, j \in DOMAIN Order : i < j /\ Order[i] = s /\ Order[j] = t

\* A field is taken from the first source that has it, in the configured order,
\* and what the cache or the caller already had is never replaced, whatever
\* failed, came late or was asked for more than once in between.  The two
\* strategies that merge every answer.
PriorityRespected ==
    strategy \in {"priority_fallback", "append_dedupe"} /\ pc # "fetch" =>
        \A k \in Keys, f \in Fields :
            LET v == Cell(items, k, f)
            IN  /\ Cell(base, k, f) # None => v = Base
                /\ v \in Sources => \A t \in Sources : Before(t, v) => Cell(heard[t], k, f) = None
                /\ v = None => \A t \in Sources : Cell(heard[t], k, f) = None

\* The calls of all providers together stay within the budget of the capability.
WithinBudget == spent <= Budget

\* Within the budget, the failure of a source or of one of its requests does not
\* end the chain: an answer that is still incomplete has been through every source.
AllAskedInBudget ==
    /\ WithinBudget
    /\ pc = "done" =>
        \/ Requests(items) = {}
        \/ FirstOnly /\ Valid # {}
        \/ \A i \in DOMAIN Order : Order[i] \in asked

\* Whatever the strategy and the failures, the base items survive and the query
\* keeps the promise of module QueryPromise.
Promise == INSTANCE QueryPromise WITH
    answer <- IF pc = "done" THEN items ELSE base,
    done <- pc = "done"

KeepsPromise == Promise!Spec

\* The query ends.
Terminates == <>(pc = "done")
=============================================================================
