----------------------------- MODULE MCMachinery -----------------------------
(***************************************************************************)
(* Five parts that share no state, in one run: a behaviour takes the steps *)
(* of the part that is followed and leaves the others as they begin.       *)
(***************************************************************************)
EXTENDS PageCache, QueryAlgorithms, MCCapturePlan, PackageEnvironment, FuturesPublication, TLC

VARIABLE followed

machineryVars == <<pageVars, algorithmVars, planVars, envVars, futureVars, followed>>

\* Pages: two requests of one capability and one of another, whose limits add
\* up to more than the total, as in migration_contracts.
CONSTANTS p1, p2, a1, a2, b1, A, B

TwoCallers     == {p1, p2}
ThreeRequests  == {a1, a2, b1}
TwoCapabilities == {A, B}
CapabilityOfRequest == (a1 :> A) @@ (a2 :> A) @@ (b1 :> B)
SmallLimits    == (A :> 3) @@ (B :> 2)
ShortLives     == (A :> 1) @@ (B :> 1)

\* Algorithms: two instances of tushare around one of opentdx.
CONSTANTS k1, k2, close, u, v, tushare, opentdx, t1, t2, o1

BuiltSteps == <<[id |-> t1, package |-> tushare],
                [id |-> o1, package |-> opentdx],
                [id |-> t2, package |-> tushare]>>
SmallWeights == 0..2
SmallValues  == 1..3

\* Environments: two processes of two releases of the runtime; both versions of
\* the files have requirements of their own, so that it does not matter which one
\* is there first.
CONSTANTS x1, y1, server, worker, v1, v2, r1, r2

ThreadOfEach == (x1 :> server) @@ (y1 :> worker)
OwnReqs      == (v1 :> r1) @@ (v2 :> r2)
TwoReleases  == (server :> 2) @@ (worker :> 1)

\* Futures: two products of three minutes.  Of the bundle's two keys one is
\* missing and one is there; of the second product one row is an excluded one of
\* apex.  The owner deletes a row, or writes a value that no page shows.
CONSTANTS u1, w1

SmallBundle == (<<1, 2>> :> u1) @@ (<<1, 3>> :> w1)
SmallStaged == (<<2, 1>> :> u1)
ApexBar(value) == Bar(value, "apex")
SmallTable  == [k \in BarKeys |-> IF k = <<1, 3>> THEN ApexBar(w1)
                                 ELSE IF k \in {<<1, 1>>, <<2, 2>>, <<2, 3>>} THEN ApexBar(u1) ELSE NoBar]
SmallTables == {SmallTable}
SomeKeys    == {<<1, 3>>}
SomeRows    == {NoBar, ApexBar(Unsound)}
SomeInvalid == {<<2, 3>>}
Asks(what, codes, limit) == [kind |-> what, codes |-> codes, from |-> 1, to |-> 3, limit |-> limit]
SomeQueries == {Asks("bars", {1}, 1), Asks("bars", {1, 2}, 2), Asks("coverage", {1, 2}, 1)}

MachineryInit ==
  /\ followed \in {"pages", "algorithms", "plan", "environments", "futures"}
  /\ PageInit
  /\ PlanInit /\ (followed # "plan" => kind = "always" /\ batchSize = 1 /\ today = PlanWindow)
  /\ EnvInit /\ disk = v1
  /\ FutureInit
  /\ IF followed = "algorithms" THEN AlgorithmInit ELSE input = [name |-> "none"] /\ output = <<>>

MachineryNext ==
  /\ UNCHANGED followed
  /\ \/ followed = "pages" /\ PageNext /\ UNCHANGED <<algorithmVars, planVars, envVars, futureVars>>
     \/ followed = "algorithms" /\ AlgorithmNext /\ UNCHANGED <<pageVars, planVars, envVars, futureVars>>
     \/ followed = "plan" /\ PlanNext /\ UNCHANGED <<pageVars, algorithmVars, envVars, futureVars>>
     \/ followed = "environments" /\ EnvNext /\ UNCHANGED <<pageVars, algorithmVars, planVars, futureVars>>
     \/ followed = "futures" /\ FutureNext /\ UNCHANGED <<pageVars, algorithmVars, planVars, envVars>>

MachinerySpec == MachineryInit /\ [][MachineryNext]_machineryVars

CallersAlike == Permutations(TwoCallers) \cup Permutations({a1, a2})
=============================================================================
