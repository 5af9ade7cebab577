------------------------- MODULE ConfigRuntimeProofs -------------------------
(***************************************************************************)
(* Proofs about ConfigRuntime, for any packages, instances, contracts and   *)
(* processes: every profile on file is complete and names no instance it    *)
(* lacks, a query is answered with a profile that was in force, and with    *)
(* one process what was published and what was saved stays.                 *)
(***************************************************************************)
EXTENDS ConfigRuntime, FiniteSetTheorems, TLAPS

-----------------------------------------------------------------------------
(* What the files and the calls are.                                       *)

Names == {"instances", "drafts", "profiles", "state", "log", "imports"}
AnyId == Nat \cup {Absent}

\* A policy for every contract that can be configured.
Configured(policies) == \A c \in Contracts : Root[c] = c => policies[c] # Absent

WholeProfiles == {r \in Profile : NoDanglingIn(r) /\ Configured(r.policies)}
Transitions == (AnyId \X Nat) \cup {Absent}

\* A list that is cut after every addition.
Short(S, n) == {s \in Seq(S) : Len(s) <= n}

States == [active : AnyId, previous : Short(Nat, Keep)]
Logs == Short(Transitions, KeepLog)

Files == [instances : InstanceFile, drafts : PolicyFile, profiles : Seq(WholeProfiles),
          state : States, log : Logs,
          imports : SUBSET Packages]

Operations ==
    [kind : {"publish", "query"}]
    \cup [kind : {"save"}, instance : Instances, settings : Settings]
    \cup [kind : {"enable", "delete"}, instance : Instances]
    \cup [kind : {"draft", "override"}, contract : Contracts, sources : SourceSets]
    \cup [kind : {"rollback"}, id : Nat]
    \cup [kind : {"import"}, package : Packages]

CallRecord == [pc : Labels, op : Operations, again : BOOLEAN, plan : Seq(Names), seen : Files,
               put : Files, todo : Seq(Names), then : Labels, inst : InstanceFile,
               active : WholeProfiles \cup {Absent}, from : Transitions,
               before : WholeProfiles \cup {Absent}, during : SUBSET AnyId]

InPlan(c, name) == \E n \in 1..Len(c.plan) : c.plan[n] = name

\* The stages of a call: in ensure_initialized, of which the drafts, and the
\* profiles, are done.
Ensuring(c) ==
    \/ c.pc \in {"instances", "drafts", "profiles", "state"}
    \/ c.pc = "write" /\ c.then \in {"instances", "drafts", "profiles", "state", "read"}

Operating(c) == c.op.kind # "import" /\ c.pc \in {"read", "decide", "answer"}

PastDrafts(c) ==
    \/ c.pc \in {"profiles", "state"} \/ Operating(c)
    \/ c.pc = "write" /\ c.then \in {"state", "read"}

PastProfiles(c) ==
    \/ c.pc = "state" \/ Operating(c)
    \/ c.pc = "write" /\ c.then \in {"state", "read"} /\ Head(c.todo) # "profiles"

\* A list of files to write, and where a call goes on after them.
Writes == {<<"instances">>, <<"drafts">>, <<"profiles">>, <<"state">>, <<"profiles", "state">>,
           <<"log">>, <<"imports">>}

\* What is known of a call at each stage, of the files it has read and of those
\* it is about to write.
Planned(c) ==
    /\ Ensuring(c) /\ c.op.kind # "import" => c.plan = Plan(c.op.kind)
    /\ c.pc = "read" => c.plan # <<>>
    /\ c.pc \in {"decide", "answer"} => c.plan = <<>>
    /\ c.pc = "answer" => c.op.kind = "query"
    /\ c.op.kind \in {"draft", "publish"} => InPlan(c, "drafts") \/ Configured(c.seen.drafts)
    /\ c.op.kind \in {"publish", "override", "rollback", "query"} =>
          InPlan(c, "profiles") \/ c.seen.profiles # <<>>
    /\ c.pc = "state" => c.seen.profiles # <<>>

ToWrite(c) ==
    c.pc = "write" =>
    /\ c.todo \in Writes
    /\ c.todo[1] = "drafts" => Configured(c.put.drafts)
    /\ c.todo[1] = "profiles" => c.put.profiles # <<>>
    /\ c.then = "drafts" => c.todo = <<"instances">>
    /\ c.then = "profiles" => c.todo = <<"drafts">>
    /\ c.then = "state" => c.todo = <<"profiles">> /\ c.seen.profiles # <<>>
    /\ c.then = "read" => c.op.kind # "import" /\ c.todo \in {<<"state">>, <<"profiles", "state">>}
    /\ c.then \in {"idle", "instances", "drafts", "profiles", "state", "read", "log"}

OnFile(c, f) ==
    /\ PastDrafts(c) => Configured(f.drafts)
    /\ PastProfiles(c) => f.profiles # <<>>

Sound(c, f) == c.pc # "idle" /\ Planned(c) /\ ToWrite(c) /\ OnFile(c, f)

ConfigInv ==
    /\ file \in Files /\ use \in Deployments /\ nextId \in Nat
    /\ me \in [Procs -> CallRecord \cup {Idle}]
    /\ \A p \in Procs : me[p] # Idle => Sound(me[p], file)

-----------------------------------------------------------------------------
(* The values the helpers return.                                          *)

LEMMA OperationsTyped ==
    ASSUME NEW op \in Operations
    PROVE  /\ op.kind \in {"publish", "query", "save", "enable", "delete", "draft", "override", "rollback", "import"}
           /\ op.kind \in {"save", "enable", "delete"} => op.instance \in Instances
           /\ op.kind = "save" => op.settings \in Settings
           /\ op.kind \in {"draft", "override"} => op.contract \in Contracts /\ op.sources \in SUBSET Instances
           /\ op.kind = "rollback" => op.id \in Nat
           /\ op.kind = "import" => op.package \in Packages
BY ConfigAssumption DEF Operations, ConfigAssumption

LEMMA ReconcileTyped ==
    ASSUME NEW inst \in InstanceFile
    PROVE  Reconcile(inst) \in InstanceFile
<1>1. NewSettings \in Settings \cup {Absent}
  BY ConfigAssumption DEF ConfigAssumption
<1> QED BY <1>1 DEF Reconcile, InstanceFile

\* A set of instances is an entry.
LEMMA NoAbsentSet == \A s \in SUBSET Instances : s # Absent
BY ConfigAssumption DEF ConfigAssumption

LEMMA DefaultsTyped ==
    ASSUME NEW inst \in InstanceFile
    PROVE  /\ DefaultPolicies(inst) \in PolicyFile /\ Configured(DefaultPolicies(inst))
           /\ \A c \in Contracts : DefaultPolicies(inst)[c] # Absent =>
                 DefaultPolicies(inst)[c] \subseteq Present(inst)
<1>1. \A c \in Contracts : DefaultPolicies(inst)[c] =
         IF Root[c] # c THEN Absent ELSE {i \in Present(inst) : PackageOf[i] \in DefaultSources[c]}
  BY DEF DefaultPolicies
<1>2. \A c \in Contracts : {i \in Present(inst) : PackageOf[i] \in DefaultSources[c]} \in SUBSET Instances
  BY DEF Present
<1>3. DefaultPolicies(inst) \in PolicyFile
  BY <1>2 DEF DefaultPolicies, PolicyFile
<1>4. \A s \in SUBSET Instances : s # Absent
  BY NoAbsentSet
<1> QED BY <1>1, <1>2, <1>3, <1>4 DEF Configured

\* The policies kept are those with a name, cut to what is there.
LEMMA ResolveTyped ==
    ASSUME NEW inst \in InstanceFile, NEW policies \in PolicyFile
    PROVE  /\ ResolvePolicies(inst, policies) \in PolicyFile
           /\ \A c \in Contracts : ResolvePolicies(inst, policies)[c] # Absent =>
                 ResolvePolicies(inst, policies)[c] \subseteq Present(inst)
           /\ \A c \in Contracts : Root[c] = c /\ policies[c] # Absent =>
                 ResolvePolicies(inst, policies)[c] # Absent
<1> DEFINE named(c) == {d \in Contracts : Root[d] = c /\ policies[d] # Absent}
           of(c) == IF c \in named(c) THEN c ELSE CHOOSE d \in named(c) : TRUE
<1>1. \A c \in Contracts : ResolvePolicies(inst, policies)[c] =
         IF Root[c] # c \/ named(c) = {} THEN Absent ELSE Present(inst) \cap policies[of(c)]
  BY DEF ResolvePolicies
<1>2. \A c \in Contracts : Present(inst) \cap policies[of(c)] \in SUBSET Instances
  BY DEF Present
<1>3. \A c \in Contracts : Present(inst) \cap policies[of(c)] \subseteq Present(inst)
  OBVIOUS
<1>4. \A s \in SUBSET Instances : s # Absent
  BY NoAbsentSet
<1>5. \A c \in Contracts : Root[c] = c /\ policies[c] # Absent => c \in named(c)
  OBVIOUS
<1>6. ResolvePolicies(inst, policies) = [c \in Contracts |->
         IF Root[c] # c \/ named(c) = {} THEN Absent ELSE Present(inst) \cap policies[of(c)]]
  BY DEF ResolvePolicies
<1> HIDE DEF named, of
<1>7. ResolvePolicies(inst, policies) \in PolicyFile
  BY <1>2, <1>6 DEF PolicyFile
<1>8. \A c \in Contracts : ResolvePolicies(inst, policies)[c] # Absent =>
                 ResolvePolicies(inst, policies)[c] \subseteq Present(inst)
  BY <1>1, <1>3
<1>9. ASSUME NEW c \in Contracts, Root[c] = c, policies[c] # Absent
      PROVE  ResolvePolicies(inst, policies)[c] # Absent
  <2>1. named(c) # {}
    BY <1>5, <1>9
  <2> QED BY <1>1, <1>2, <1>4, <1>9, <2>1
<1> QED BY <1>7, <1>8, <1>9

LEMMA ResolvedTyped ==
    ASSUME NEW inst \in InstanceFile, NEW policies \in PolicyFile, NEW drafts \in InstanceFile
    PROVE  /\ Resolved(inst, policies, drafts) \in PolicyFile
           /\ Configured(Resolved(inst, policies, drafts))
           /\ Configured(policies) => \A c \in Contracts :
                 Resolved(inst, policies, drafts)[c] # Absent =>
                    Resolved(inst, policies, drafts)[c] \subseteq Present(inst)
<1> DEFINE kept == ResolvePolicies(inst, policies)
           default == DefaultPolicies(drafts)
<1>1. /\ kept \in PolicyFile /\ \A c \in Contracts : kept[c] # Absent => kept[c] \subseteq Present(inst)
      /\ \A c \in Contracts : Root[c] = c /\ policies[c] # Absent => kept[c] # Absent
  BY ResolveTyped
<1>2. default \in PolicyFile /\ Configured(default)
  BY DefaultsTyped
<1>3. \A c \in Contracts : Root[c] # c => default[c] = Absent
  BY DEF DefaultPolicies
<1>4. Resolved(inst, policies, drafts) = [c \in Contracts |-> IF kept[c] = Absent THEN default[c] ELSE kept[c]]
  BY DEF Resolved, Merge
<1> HIDE DEF kept, default
<1>5. Resolved(inst, policies, drafts) \in PolicyFile
  BY <1>1, <1>2, <1>4 DEF PolicyFile
<1>6. Configured(Resolved(inst, policies, drafts))
  BY <1>1, <1>2, <1>4 DEF Configured
<1>7. ASSUME Configured(policies), NEW c \in Contracts, Resolved(inst, policies, drafts)[c] # Absent
      PROVE  Resolved(inst, policies, drafts)[c] \subseteq Present(inst)
  <2>1. kept[c] # Absent
    BY <1>1, <1>3, <1>4, <1>7 DEF Configured
  <2> QED BY <1>1, <1>4, <2>1
<1> QED BY <1>5, <1>6, <1>7

LEMMA DefaultWhole ==
    ASSUME NEW inst \in InstanceFile
    PROVE  DefaultProfile(inst) \in WholeProfiles /\ DefaultProfile(inst).id = 0
BY DefaultsTyped DEF DefaultProfile, WholeProfiles, Profile, NoDanglingIn

\* A profile that is resolved again is whole; a published one keeps its instances.
LEMMA ResolveWhole ==
    ASSUME NEW r \in WholeProfiles, NEW inst \in InstanceFile
    PROVE  /\ ResolveProfile(r, inst) \in WholeProfiles /\ ResolveProfile(r, inst).id = r.id
           /\ r.id # 0 => ResolveProfile(r, inst).instances = r.instances
<1>1. r \in Profile /\ NoDanglingIn(r) /\ Configured(r.policies)
  BY DEF WholeProfiles
<1>2. CASE r.id = 0
  BY <1>2, DefaultWhole DEF ResolveProfile
<1>3. CASE r.id # 0
  <2> DEFINE resolved == Resolved(r.instances, r.policies, inst)
             s == [r EXCEPT !.policies = resolved]
  <2>1. /\ resolved \in PolicyFile /\ Configured(resolved)
        /\ \A c \in Contracts : resolved[c] # Absent => resolved[c] \subseteq Present(r.instances)
    BY <1>1, ResolvedTyped DEF Profile
  <2>2. ResolveProfile(r, inst) = s
    BY <1>3 DEF ResolveProfile
  <2> HIDE DEF resolved
  <2>3. s \in Profile /\ s.id = r.id /\ s.instances = r.instances /\ s.policies = resolved
    BY <1>1, <2>1 DEF Profile
  <2> HIDE DEF s
  <2> QED BY <2>1, <2>2, <2>3 DEF WholeProfiles, NoDanglingIn
<1> QED BY <1>2, <1>3

-----------------------------------------------------------------------------
(* Calls that go on.                                                       *)

Contents == [instances |-> InstanceFile, drafts |-> PolicyFile, profiles |-> Seq(WholeProfiles),
             state |-> States, log |-> Logs,
             imports |-> SUBSET Packages]

LEMMA FileEdited ==
    ASSUME NEW f \in Files, NEW name \in Names, NEW value \in Contents[name]
    PROVE  /\ [f EXCEPT ![name] = value] \in Files
           /\ [f EXCEPT ![name] = value][name] = value
           /\ \A other \in Names \ {name} : [f EXCEPT ![name] = value][other] = f[other]
<1>1. DOMAIN f = Names /\ \A n \in Names : f[n] \in Contents[n]
  BY DEF Files, Contents, Names
<1> DEFINE g == [f EXCEPT ![name] = value]
<1>2. DOMAIN g = Names /\ \A n \in Names : g[n] = IF n = name THEN value ELSE f[n]
  BY <1>1
<1>3. g = [n \in Names |-> IF n = name THEN value ELSE f[n]]
  BY <1>1
<1>4. g = [instances |-> g["instances"], drafts |-> g["drafts"], profiles |-> g["profiles"],
           state |-> g["state"], log |-> g["log"], imports |-> g["imports"]]
  BY <1>3 DEF Names
<1> HIDE DEF g
<1>5. \A n \in Names : g[n] \in Contents[n]
  BY <1>1, <1>2
<1>6. g \in Files
  BY <1>4, <1>5 DEF Files, Contents, Names
<1> QED BY <1>2, <1>6 DEF g

LEMMA NamesAre ==
    /\ "instances" \in Names /\ "drafts" \in Names /\ "profiles" \in Names
    /\ "state" \in Names /\ "log" \in Names /\ "imports" \in Names
BY DEF Names

LEMMA ListOfOne ==
    ASSUME NEW a \in Names
    PROVE  <<a>> \in Seq(Names) /\ <<a>> # <<>> /\ Len(<<a>>) = 1 /\ <<a>>[1] = a
OBVIOUS

LEMMA ListOfTwo ==
    ASSUME NEW a \in Names, NEW b \in Names
    PROVE  /\ <<a, b>> \in Seq(Names) /\ <<a, b>> # <<>> /\ Len(<<a, b>>) = 2
           /\ <<a, b>>[1] = a /\ <<a, b>>[2] = b
OBVIOUS

LEMMA ListOfThree ==
    ASSUME NEW a \in Names, NEW b \in Names, NEW c \in Names
    PROVE  /\ <<a, b, c>> \in Seq(Names) /\ <<a, b, c>> # <<>> /\ Len(<<a, b, c>>) = 3
           /\ <<a, b, c>>[1] = a
OBVIOUS

LEMMA ListOfFour ==
    ASSUME NEW a \in Names, NEW b \in Names, NEW c \in Names, NEW d \in Names
    PROVE  /\ <<a, b, c, d>> \in Seq(Names) /\ <<a, b, c, d>> # <<>> /\ Len(<<a, b, c, d>>) = 4
           /\ <<a, b, c, d>>[1] = a /\ <<a, b, c, d>>[4] = d
OBVIOUS

LEMMA WritesAre ==
    /\ <<"instances">> \in Writes /\ <<"drafts">> \in Writes /\ <<"profiles">> \in Writes
    /\ <<"state">> \in Writes /\ <<"log">> \in Writes /\ <<"imports">> \in Writes
    /\ <<"profiles", "state">> \in Writes
<1>1. <<"instances">> \in Writes /\ <<"drafts">> \in Writes /\ <<"profiles">> \in Writes
  BY DEF Writes
<1>2. <<"state">> \in Writes /\ <<"log">> \in Writes /\ <<"imports">> \in Writes
  BY DEF Writes
<1>3. <<"profiles", "state">> \in Writes
  BY DEF Writes
<1> QED BY <1>1, <1>2, <1>3

LEMMA LabelsAre ==
    /\ "idle" \in Labels /\ "instances" \in Labels /\ "drafts" \in Labels /\ "profiles" \in Labels
    /\ "state" \in Labels /\ "read" \in Labels /\ "decide" \in Labels /\ "write" \in Labels
    /\ "answer" \in Labels /\ "log" \in Labels
BY DEF Labels

LEMMA NothingYet ==
    /\ <<>> \in Short(Nat, Keep) /\ <<>> \in Logs
BY ConfigAssumption DEF ConfigAssumption, Short, Logs

LEMMA NewState ==
    ASSUME NEW id \in Nat
    PROVE  /\ [NoState EXCEPT !.active = id] \in States
           /\ [NoState EXCEPT !.active = id].active = id
<1>1. [NoState EXCEPT !.active = id] = [active |-> id, previous |-> <<>>]
  BY DEF NoState
<1>2. id \in AnyId
  BY DEF AnyId
<1> QED BY <1>1, <1>2, NothingYet DEF States

LEMMA NoFilesTyped == NoFiles \in Files /\ NoFiles.profiles = <<>> /\ NoFiles.state = NoState
<1>1. NoInstances \in InstanceFile /\ NoPolicies \in PolicyFile
  BY DEF NoInstances, NoPolicies, InstanceFile, PolicyFile
<1>2. NoState \in States
  BY NothingYet DEF NoState, States, AnyId
<1> QED BY <1>1, <1>2, NothingYet DEF NoFiles, Files

LEMMA WritingTyped ==
    ASSUME NEW c \in CallRecord, NEW todo \in Writes, NEW put \in Files,
           NEW then \in Labels
    PROVE  /\ Writing(c, todo, put, then) \in CallRecord
           /\ Writing(c, todo, put, then).pc = "write" /\ Writing(c, todo, put, then).todo = todo
           /\ Writing(c, todo, put, then).put = put /\ Writing(c, todo, put, then).then = then
           /\ Writing(c, todo, put, then).op = c.op /\ Writing(c, todo, put, then).plan = c.plan
           /\ Writing(c, todo, put, then).seen = c.seen /\ Writing(c, todo, put, then).inst = c.inst
           /\ Writing(c, todo, put, then).during = c.during
           /\ Writing(c, todo, put, then).active = c.active
<1>1. todo \in Seq(Names) /\ "write" \in Labels
  <2>1. \A a \in Names : <<a>> \in Seq(Names)
    BY ListOfOne
  <2>2. <<"profiles", "state">> \in Seq(Names)
    BY ListOfTwo, NamesAre
  <2> QED BY <2>1, <2>2, NamesAre DEF Writes, Labels
<1> QED BY <1>1 DEF Writing, CallRecord

\* A step of one call that changes no file.
LEMMA LocalStep ==
    ASSUME ConfigInv, NEW p \in Procs, NEW c, Become(p, c), UNCHANGED <<use, file>>, nextId' \in Nat,
           c = Idle \/ (c \in CallRecord /\ Sound(c, file))
    PROVE  ConfigInv'
BY DEF ConfigInv, Become

LEMMA CallOf ==
    ASSUME ConfigInv, NEW p \in Procs, me[p].pc # "idle"
    PROVE  me[p] \in CallRecord /\ Sound(me[p], file)
BY DEF ConfigInv, Idle

LEMMA KindPlan ==
    ASSUME NEW op \in Operations
    PROVE  /\ Plan(op.kind) \in Seq(Names) /\ Plan(op.kind) # <<>>
           /\ op.kind \in {"draft", "publish"} =>
                 \E n \in 1..Len(Plan(op.kind)) : Plan(op.kind)[n] = "drafts"
           /\ op.kind \in {"publish", "override", "rollback", "query"} =>
                 \E n \in 1..Len(Plan(op.kind)) : Plan(op.kind)[n] = "profiles"
           /\ op.kind = "import" => Plan(op.kind) = <<"imports">>
<1>1. op.kind \in {"publish", "query", "save", "enable", "delete", "draft", "override", "rollback", "import"}
  BY OperationsTyped
<1>2. CASE op.kind \in {"save", "enable", "delete"}
  <2>1. Plan(op.kind) = <<"instances">>
    BY <1>2 DEF Plan
  <2> QED BY <1>2, <2>1, ListOfOne, NamesAre
<1>3. CASE op.kind = "draft"
  <2>1. Plan(op.kind) = <<"instances", "drafts">>
    BY <1>3 DEF Plan
  <2>2. <<"instances", "drafts">> \in Seq(Names) /\ <<"instances", "drafts">> # <<>>
    BY ListOfTwo, NamesAre
  <2>3. 2 \in 1..Len(Plan(op.kind)) /\ Plan(op.kind)[2] = "drafts"
    BY <2>1
  <2> QED BY <1>3, <2>1, <2>2, <2>3
<1>4. CASE op.kind = "publish"
  <2>1. Plan(op.kind) = <<"profiles", "state", "instances", "drafts">>
    BY <1>4 DEF Plan
  <2>2. <<"profiles", "state", "instances", "drafts">> \in Seq(Names) /\ <<"profiles", "state", "instances", "drafts">> # <<>>
    BY ListOfFour, NamesAre
  <2>3. /\ 1 \in 1..Len(Plan(op.kind)) /\ Plan(op.kind)[1] = "profiles"
        /\ 4 \in 1..Len(Plan(op.kind)) /\ Plan(op.kind)[4] = "drafts"
    BY <2>1
  <2> QED BY <1>4, <2>1, <2>2, <2>3
<1>5. CASE op.kind = "override"
  <2>1. Plan(op.kind) = <<"profiles", "state", "instances">>
    BY <1>5 DEF Plan
  <2>2. <<"profiles", "state", "instances">> \in Seq(Names) /\ <<"profiles", "state", "instances">> # <<>>
    BY ListOfThree, NamesAre
  <2>3. 1 \in 1..Len(Plan(op.kind)) /\ Plan(op.kind)[1] = "profiles"
    BY <2>1
  <2> QED BY <1>5, <2>1, <2>2, <2>3
<1>6. CASE op.kind \in {"rollback", "query"}
  <2>1. Plan(op.kind) = <<"profiles", "state">>
    BY <1>6 DEF Plan
  <2>2. <<"profiles", "state">> \in Seq(Names) /\ <<"profiles", "state">> # <<>>
    BY ListOfTwo, NamesAre
  <2>3. 1 \in 1..Len(Plan(op.kind)) /\ Plan(op.kind)[1] = "profiles"
    BY <2>1
  <2> QED BY <1>6, <2>1, <2>2, <2>3
<1>7. CASE op.kind = "import"
  <2>1. Plan(op.kind) = <<"imports">>
    BY <1>7 DEF Plan
  <2> QED BY <1>7, <2>1, ListOfOne, NamesAre
<1> QED BY <1>1, <1>2, <1>3, <1>4, <1>5, <1>6, <1>7

LEMMA NewCallTyped ==
    ASSUME ConfigInv, NEW op \in Operations
    PROVE  NewCall(op) \in CallRecord /\ Sound(NewCall(op), file)
<1> DEFINE c == NewCall(op)
<1>1. file.profiles \in Seq(WholeProfiles) /\ file.state.active \in AnyId
  BY DEF ConfigInv, Files, States
<1>2. c.before \in WholeProfiles \cup {Absent}
  <2>1. CASE file.state.active \in IdsOf(file.profiles)
    <3>1. \E n \in DOMAIN file.profiles : file.profiles[n].id = file.state.active
      BY <2>1 DEF IdsOf
    <3>2. ProfileOf(file.profiles, file.state.active) \in WholeProfiles
      BY <1>1, <3>1 DEF ProfileOf
    <3> QED BY <3>2 DEF NewCall
  <2>2. CASE file.state.active \notin IdsOf(file.profiles)
    BY <2>2 DEF NewCall
  <2> QED BY <2>1, <2>2
<1>3. c.during \in SUBSET AnyId
  BY <1>1 DEF NewCall
<1>4. c.pc \in Labels /\ c.plan \in Seq(Names) /\ c.seen \in Files /\ c.put \in Files
  BY KindPlan, NoFilesTyped DEF NewCall, Labels
<1>5. /\ c.again \in BOOLEAN /\ c.todo \in Seq(Names) /\ c.then \in Labels /\ c.inst \in InstanceFile
      /\ c.active \in WholeProfiles \cup {Absent} /\ c.from \in Transitions
  BY DEF NewCall, Labels, NoInstances, InstanceFile, Transitions
<1>6. c \in CallRecord
  BY <1>2, <1>3, <1>4, <1>5 DEF NewCall, CallRecord
<1>7. /\ c.pc = IF op.kind = "import" THEN "read" ELSE "instances"
      /\ c.op = op /\ c.plan = Plan(op.kind)
  BY DEF NewCall
<1> HIDE DEF c
<1>8. Planned(c)
  BY <1>7, KindPlan DEF Planned, InPlan
<1>9. ToWrite(c) /\ OnFile(c, file)
  BY <1>7 DEF ToWrite, OnFile, PastDrafts, PastProfiles, Operating
<1> QED BY <1>6, <1>7, <1>8, <1>9 DEF Sound, c

-----------------------------------------------------------------------------
(* The steps of ensure_initialized keep the invariant.                     *)

LEMMA OneFile ==
    ASSUME NEW name \in Names
    PROVE  /\ Head(<<name>>) = name /\ <<name>>[1] = name /\ Tail(<<name>>) = <<>>
           /\ name \in {"instances", "drafts", "profiles", "state", "log", "imports"}
           /\ <<name>> \in Writes
BY DEF Writes, Names

LEMMA EnsureInstancesStep ==
    ASSUME ConfigInv, NEW p \in Procs, EnsureInstances(p)
    PROVE  ConfigInv'
<1> DEFINE inst == Reconcile(file.instances)
           c == [me[p] EXCEPT !.inst = inst, !.pc = "drafts"]
           put == [NoFiles EXCEPT !.instances = inst]
           w == Writing(c, <<"instances">>, put, "drafts")
<1>1. me[p].pc = "instances" /\ me[p] \in CallRecord /\ Sound(me[p], file)
  BY CallOf DEF EnsureInstances, At
<1>2. inst \in InstanceFile
  BY ReconcileTyped DEF ConfigInv, Files
<1>3. Become(p, IF inst = file.instances THEN c ELSE w) /\ UNCHANGED <<use, file>> /\ nextId' = nextId
  BY DEF EnsureInstances, Only
<1>4. put \in Files
  BY <1>2, NoFilesTyped, FileEdited, NamesAre DEF Contents
<1> HIDE DEF inst, put
<1>5. c \in CallRecord /\ c.pc = "drafts" /\ c.op = me[p].op /\ c.plan = me[p].plan /\ c.seen = me[p].seen
  BY <1>1, <1>2 DEF CallRecord, Labels
<1> HIDE DEF c
<1>6. Sound(c, file)
  BY <1>1, <1>5 DEF Sound, Planned, ToWrite, OnFile, PastDrafts, PastProfiles, Ensuring, Operating, InPlan
<1>7. /\ w \in CallRecord /\ w.pc = "write" /\ w.todo = <<"instances">> /\ w.then = "drafts"
      /\ w.op = c.op /\ w.plan = c.plan /\ w.seen = c.seen
  <2>1. <<"instances">> \in Writes /\ "drafts" \in Labels
    BY WritesAre, LabelsAre
  <2> QED BY <1>4, <1>5, <2>1, WritingTyped
<1> HIDE DEF w
<1>8. Sound(w, file)
  BY <1>5, <1>6, <1>7, OneFile, NamesAre
  DEF Sound, Planned, ToWrite, OnFile, PastDrafts, PastProfiles, Ensuring, Operating, InPlan
<1>9. nextId' \in Nat
  BY <1>3 DEF ConfigInv
<1> QED BY <1>3, <1>5, <1>6, <1>7, <1>8, <1>9, LocalStep

LEMMA EnsureDraftsStep ==
    ASSUME ConfigInv, NEW p \in Procs, EnsureDrafts(p)
    PROVE  ConfigInv'
<1> DEFINE drafts == Resolved(me[p].inst, file.drafts, me[p].inst)
           c == [me[p] EXCEPT !.pc = "profiles"]
           put == [NoFiles EXCEPT !.drafts = drafts]
           w == Writing(me[p], <<"drafts">>, put, "profiles")
<1>1. me[p].pc = "drafts" /\ me[p] \in CallRecord /\ Sound(me[p], file)
  BY CallOf DEF EnsureDrafts, At
<1>2. drafts \in PolicyFile /\ Configured(drafts)
  <2>1. me[p].inst \in InstanceFile /\ file.drafts \in PolicyFile
    BY <1>1 DEF ConfigInv, Files, CallRecord
  <2> QED BY <2>1, ResolvedTyped
<1>3. Become(p, IF drafts = file.drafts THEN c ELSE w) /\ UNCHANGED <<use, file>> /\ nextId' = nextId
  BY DEF EnsureDrafts, Only
<1>4. put \in Files /\ put["drafts"] = drafts
  BY <1>2, NoFilesTyped, FileEdited, NamesAre DEF Contents
<1> HIDE DEF drafts, put
<1>5. c \in CallRecord /\ c.pc = "profiles" /\ c.op = me[p].op /\ c.plan = me[p].plan /\ c.seen = me[p].seen
  BY <1>1 DEF CallRecord, Labels
<1> HIDE DEF c
<1>6. ASSUME drafts = file.drafts PROVE Sound(c, file)
  BY <1>1, <1>2, <1>5, <1>6 DEF Sound, Planned, ToWrite, OnFile, PastDrafts, PastProfiles, Ensuring, Operating, InPlan
<1>7. /\ w \in CallRecord /\ w.pc = "write" /\ w.todo = <<"drafts">> /\ w.then = "profiles" /\ w.put = put
      /\ w.op = me[p].op /\ w.plan = me[p].plan /\ w.seen = me[p].seen
  <2>1. <<"drafts">> \in Writes /\ "profiles" \in Labels
    BY WritesAre, LabelsAre
  <2> QED BY <1>1, <1>4, <2>1, WritingTyped
<1> HIDE DEF w
<1>8. Sound(w, file)
  BY <1>1, <1>2, <1>4, <1>7, OneFile, NamesAre
  DEF Sound, Planned, ToWrite, OnFile, PastDrafts, PastProfiles, Ensuring, Operating, InPlan
<1>9. nextId' \in Nat
  BY <1>3 DEF ConfigInv
<1> QED BY <1>3, <1>5, <1>6, <1>7, <1>8, <1>9, LocalStep

\* The profiles, resolved again.
Refreshed(c) == [n \in DOMAIN file.profiles |-> ResolveProfile(file.profiles[n], c.inst)]

LEMMA RefreshedWhole ==
    ASSUME ConfigInv, NEW c \in CallRecord
    PROVE  /\ Refreshed(c) \in Seq(WholeProfiles) /\ Len(Refreshed(c)) = Len(file.profiles)
           /\ \A n \in 1..Len(file.profiles) :
                /\ Refreshed(c)[n].id = file.profiles[n].id
                /\ file.profiles[n].id # 0 => Refreshed(c)[n].instances = file.profiles[n].instances
<1>1. file.profiles \in Seq(WholeProfiles) /\ c.inst \in InstanceFile
  BY DEF ConfigInv, Files, CallRecord
<1>2. DOMAIN file.profiles = 1..Len(file.profiles) /\ Len(file.profiles) \in Nat
  BY <1>1
<1>3. \A n \in 1..Len(file.profiles) : file.profiles[n] \in WholeProfiles
  BY <1>1
<1>4. \A n \in 1..Len(file.profiles) :
         /\ ResolveProfile(file.profiles[n], c.inst) \in WholeProfiles
         /\ ResolveProfile(file.profiles[n], c.inst).id = file.profiles[n].id
         /\ file.profiles[n].id # 0 =>
               ResolveProfile(file.profiles[n], c.inst).instances = file.profiles[n].instances
  BY <1>1, <1>3, ResolveWhole
<1> QED BY <1>2, <1>4 DEF Refreshed

LEMMA AfterEnsureIs ==
    ASSUME NEW c \in CallRecord
    PROVE  /\ AfterEnsure(c) \in {"instances", "idle", "read"} /\ AfterEnsure(c) \in Labels
           /\ AfterEnsure(c) = "read" => c.op.kind # "import"
BY DEF AfterEnsure, Labels

LEMMA EnsureProfilesStep ==
    ASSUME ConfigInv, NEW p \in Procs, EnsureProfiles(p)
    PROVE  ConfigInv'
<1> DEFINE profiles == Refreshed(me[p])
           first == <<DefaultProfile(me[p].inst)>>
           new == [NoFiles EXCEPT !.profiles = first, !.state.active = 0]
           again == [NoFiles EXCEPT !.profiles = profiles]
           c1 == [me[p] EXCEPT !.again = FALSE]
           c2 == [me[p] EXCEPT !.pc = "state", !.seen.profiles = profiles]
           c3 == [me[p] EXCEPT !.seen.profiles = profiles]
           w1 == Writing(c1, <<"profiles", "state">>, new, AfterEnsure(me[p]))
           w3 == Writing(c3, <<"profiles">>, again, "state")
<1>1. /\ me[p].pc = "profiles" /\ me[p] \in CallRecord /\ Sound(me[p], file) /\ Len(file.profiles) \in Nat
      /\ me[p].inst \in InstanceFile /\ file.profiles \in Seq(WholeProfiles) /\ me[p].seen \in Files
  BY CallOf DEF EnsureProfiles, At, ConfigInv, Files, CallRecord
<1>2. /\ Become(p, IF file.profiles = <<>> THEN w1 ELSE IF profiles = file.profiles THEN c2 ELSE w3)
      /\ UNCHANGED <<use, file>> /\ nextId' = nextId
  BY DEF EnsureProfiles, Only, Refreshed
<1>3. profiles \in Seq(WholeProfiles) /\ (file.profiles # <<>> => profiles # <<>>)
  BY <1>1, RefreshedWhole
<1>4. first \in Seq(WholeProfiles) /\ first # <<>>
  BY <1>1, DefaultWhole
<1> HIDE DEF profiles, first
<1>5. new \in Files /\ new.profiles = first
  <2> DEFINE f == [NoFiles EXCEPT !.profiles = first]
             s == [NoState EXCEPT !.active = 0]
  <2>0. first \in Contents["profiles"] /\ "state" \in Names \ {"profiles"} /\ "profiles" \in Names \ {"state"}
    BY <1>4, NamesAre DEF Contents
  <2>1. f \in Files /\ f["profiles"] = first /\ f["state"] = NoState
    BY <2>0, NoFilesTyped, FileEdited, NamesAre
  <2>2. s \in States
    BY NewState
  <2>3. new = [f EXCEPT !.state = s]
    BY <2>1, NoFilesTyped DEF NoFiles
  <2> HIDE DEF f, s
  <2>4. [f EXCEPT !["state"] = s] \in Files /\ [f EXCEPT !["state"] = s]["profiles"] = f["profiles"]
    <3>1. s \in Contents["state"]
      BY <2>2 DEF Contents
    <3> QED BY <2>0, <2>1, <3>1, FileEdited, NamesAre
  <2> QED BY <2>1, <2>3, <2>4
<1>6. again \in Files /\ again["profiles"] = profiles
  BY <1>3, NoFilesTyped, FileEdited, NamesAre DEF Contents
<1> HIDE DEF new, again
<1>7. /\ c1 \in CallRecord /\ c1.op = me[p].op /\ c1.plan = me[p].plan /\ c1.seen = me[p].seen
  BY <1>1 DEF CallRecord
<1>8. /\ [me[p].seen EXCEPT !.profiles = profiles] \in Files
      /\ [me[p].seen EXCEPT !.profiles = profiles]["profiles"] = profiles
      /\ [me[p].seen EXCEPT !.profiles = profiles]["drafts"] = me[p].seen["drafts"]
  BY <1>1, <1>3, FileEdited, NamesAre DEF Contents
<1>9. /\ c2 \in CallRecord /\ c2.pc = "state" /\ c2.op = me[p].op /\ c2.plan = me[p].plan
      /\ c2.seen.profiles = profiles /\ c2.seen.drafts = me[p].seen.drafts
  BY <1>1, <1>8 DEF CallRecord, Labels
<1>10. /\ c3 \in CallRecord /\ c3.op = me[p].op /\ c3.plan = me[p].plan
       /\ c3.seen.profiles = profiles /\ c3.seen.drafts = me[p].seen.drafts
  BY <1>1, <1>8 DEF CallRecord, Labels
<1> HIDE DEF c1, c2, c3
<1>11. /\ w1 \in CallRecord /\ w1.pc = "write" /\ w1.todo = <<"profiles", "state">> /\ w1.put = new
       /\ w1.then = AfterEnsure(me[p]) /\ w1.op = c1.op /\ w1.plan = c1.plan /\ w1.seen = c1.seen
  <2>1. <<"profiles", "state">> \in Writes
    BY WritesAre
  <2>2. AfterEnsure(me[p]) \in Labels
    BY <1>1, AfterEnsureIs
  <2> QED BY <1>5, <1>7, <2>1, <2>2, WritingTyped
<1>12. /\ w3 \in CallRecord /\ w3.pc = "write" /\ w3.todo = <<"profiles">> /\ w3.put = again /\ w3.then = "state"
       /\ w3.op = c3.op /\ w3.plan = c3.plan /\ w3.seen = c3.seen
  <2>1. <<"profiles">> \in Writes /\ "state" \in Labels
    BY WritesAre, LabelsAre
  <2> QED BY <1>6, <1>10, <2>1, WritingTyped
<1> HIDE DEF w1, w3
<1>13. /\ AfterEnsure(me[p]) \in {"instances", "idle", "read"}
       /\ AfterEnsure(me[p]) = "read" => me[p].op.kind # "import"
  BY <1>1, AfterEnsureIs
<1>14. <<"profiles", "state">> \in Writes /\ <<"profiles", "state">>[1] = "profiles" /\ Head(<<"profiles", "state">>) = "profiles"
  BY DEF Writes
<1>15. Sound(w1, file)
  BY <1>1, <1>4, <1>5, <1>7, <1>11, <1>13, <1>14
  DEF Sound, Planned, ToWrite, OnFile, PastDrafts, PastProfiles, Ensuring, Operating, InPlan
<1>16. ASSUME profiles = file.profiles, file.profiles # <<>> PROVE Sound(c2, file)
  BY <1>1, <1>3, <1>9, <1>16
  DEF Sound, Planned, ToWrite, OnFile, PastDrafts, PastProfiles, Ensuring, Operating, InPlan
<1>17. ASSUME file.profiles # <<>> PROVE Sound(w3, file)
  BY <1>1, <1>3, <1>6, <1>10, <1>12, <1>17, OneFile, NamesAre
  DEF Sound, Planned, ToWrite, OnFile, PastDrafts, PastProfiles, Ensuring, Operating, InPlan
<1>18. nextId' \in Nat
  BY <1>2 DEF ConfigInv
<1> QED BY <1>2, <1>9, <1>11, <1>12, <1>15, <1>16, <1>17, <1>18, LocalStep

LEMMA EnsureStateStep ==
    ASSUME ConfigInv, NEW p \in Procs, EnsureState(p)
    PROVE  ConfigInv'
<1> DEFINE c == [me[p] EXCEPT !.again = FALSE]
           profiles == me[p].seen.profiles
           next == AfterEnsure(me[p])
           d == [c EXCEPT !.pc = next]
           id == profiles[Len(profiles)].id
           put == [NoFiles EXCEPT !.state.active = id]
           w == Writing(c, <<"state">>, put, next)
<1>1. /\ me[p].pc = "state" /\ me[p] \in CallRecord /\ Sound(me[p], file)
      /\ profiles \in Seq(WholeProfiles) /\ profiles # <<>>
  <2>1. me[p].pc = "state" /\ me[p] \in CallRecord /\ Sound(me[p], file)
    BY CallOf DEF EnsureState, At
  <2> QED BY <2>1 DEF CallRecord, Files, Sound, Planned
<1>2. /\ Become(p, IF file.state.active = Absent THEN w ELSE IF next = "idle" THEN Idle ELSE d)
      /\ UNCHANGED <<use, file>> /\ nextId' = nextId
  BY DEF EnsureState, Only
<1>3. next \in {"instances", "idle", "read"} /\ next \in Labels /\ (next = "read" => me[p].op.kind # "import")
  BY <1>1, AfterEnsureIs
<1>4. id \in Nat
  <2>1. Len(profiles) \in 1..Len(profiles)
    BY <1>1
  <2>2. profiles[Len(profiles)] \in WholeProfiles
    BY <1>1, <2>1
  <2> QED BY <2>2 DEF WholeProfiles, Profile
<1> HIDE DEF id, next
<1>5. put \in Files
  <2> DEFINE s == [NoState EXCEPT !.active = id]
  <2>1. s \in States
    BY <1>4, NewState
  <2>2. put = [NoFiles EXCEPT !.state = s]
    BY NoFilesTyped DEF NoFiles
  <2> HIDE DEF s
  <2> QED BY <2>1, <2>2, NoFilesTyped, FileEdited, NamesAre DEF Contents
<1> HIDE DEF put
<1>6. c \in CallRecord /\ c.op = me[p].op /\ c.plan = me[p].plan /\ c.seen = me[p].seen
  BY <1>1 DEF CallRecord
<1> HIDE DEF c
<1>7. d \in CallRecord /\ d.pc = next /\ d.op = c.op /\ d.plan = c.plan /\ d.seen = c.seen
  BY <1>3, <1>6 DEF CallRecord
<1> HIDE DEF d
<1>8. /\ w \in CallRecord /\ w.pc = "write" /\ w.todo = <<"state">> /\ w.then = next
      /\ w.op = c.op /\ w.plan = c.plan /\ w.seen = c.seen
  BY <1>3, <1>5, <1>6, WritingTyped, WritesAre
<1> HIDE DEF w
<1>9. Sound(w, file)
  BY <1>1, <1>3, <1>6, <1>8, OneFile, NamesAre
  DEF Sound, Planned, ToWrite, OnFile, PastDrafts, PastProfiles, Ensuring, Operating, InPlan
<1>10. Plan(me[p].op.kind) # <<>>
  BY <1>1, KindPlan DEF CallRecord
<1>11. ASSUME next # "idle" PROVE Sound(d, file)
  BY <1>1, <1>3, <1>6, <1>7, <1>10, <1>11
  DEF Sound, Planned, ToWrite, OnFile, PastDrafts, PastProfiles, Ensuring, Operating, InPlan
<1>12. nextId' \in Nat
  BY <1>2 DEF ConfigInv
<1> QED BY <1>2, <1>7, <1>8, <1>9, <1>11, <1>12, LocalStep

-----------------------------------------------------------------------------
(* Reads and writes keep the invariant.                                    *)

LEMMA FileParts ==
    ASSUME NEW f \in Files
    PROVE  \A name \in Names : f[name] \in Contents[name]
<1>1. DOMAIN f = Names /\ \A n \in Names : f[n] \in Contents[n]
  BY DEF Files, Contents, Names
<1> QED BY <1>1

LEMMA FileWritten ==
    ASSUME NEW f \in Files, NEW put \in Files, NEW name \in Names
    PROVE  [f EXCEPT ![name] = put[name]] \in Files /\ DOMAIN f = Names
<1>1. put[name] \in Contents[name]
  BY FileParts
<1>2. DOMAIN f = Names
  BY DEF Files, Names
<1> QED BY <1>1, <1>2, FileEdited

\* The call after a read.
AfterRead(c) ==
    [c EXCEPT !.seen[Head(c.plan)] = file[Head(c.plan)], !.plan = Tail(@),
              !.pc = IF Len(c.plan) = 1 THEN "decide" ELSE "read"]

LEMMA ReadIs ==
    ASSUME ConfigInv, NEW p \in Procs, Read(p), NEW c, c = AfterRead(me[p])
    PROVE  /\ me[p].pc = "read" /\ me[p] \in CallRecord /\ Sound(me[p], file)
           /\ Become(p, c) /\ UNCHANGED <<use, file, gone>> /\ nextId' = nextId
           /\ c \in CallRecord /\ c.op = me[p].op /\ c.during = me[p].during /\ c.pc \in {"decide", "read"}
           /\ c.pc = "read" => c.plan # <<>>
           /\ c.pc = "decide" => c.plan = <<>>
           /\ \A name \in Names : InPlan(me[p], name) => InPlan(c, name) \/ c.seen[name] = file[name]
           /\ \A name \in Names : c.seen[name] = me[p].seen[name] \/ c.seen[name] = file[name]
<1> DEFINE name == Head(me[p].plan)
           seen == [me[p].seen EXCEPT ![name] = file[name]]
           next == IF Len(me[p].plan) = 1 THEN "decide" ELSE "read"
<1>1. me[p].pc = "read" /\ me[p] \in CallRecord /\ Sound(me[p], file)
  BY CallOf DEF Read, At
<1>2. /\ me[p].plan \in Seq(Names) /\ me[p].plan # <<>> /\ me[p].seen \in Files /\ file \in Files
      /\ me[p].op \in Operations
  BY <1>1 DEF CallRecord, Sound, Planned, ConfigInv
<1>3. name \in Names /\ name = me[p].plan[1] /\ Len(me[p].plan) \in Nat \ {0}
  BY <1>2
<1>4. /\ Tail(me[p].plan) \in Seq(Names) /\ Len(Tail(me[p].plan)) = Len(me[p].plan) - 1
      /\ \A n \in 2..Len(me[p].plan) : Tail(me[p].plan)[n - 1] = me[p].plan[n]
  BY <1>2, <1>3
<1>5. Become(p, c) /\ UNCHANGED <<use, file, gone>> /\ nextId' = nextId
  BY DEF Read, Only, AfterRead
<1>6. seen \in Files /\ seen[name] = file[name] /\ \A other \in Names \ {name} : seen[other] = me[p].seen[other]
  <2>1. file[name] \in Contents[name]
    BY <1>2, <1>3, FileParts
  <2>2. me[p].seen \in Files /\ name \in Names
    BY <1>2, <1>3
  <2> HIDE DEF name
  <2> QED BY <2>1, <2>2, FileEdited
<1>7. c = [me[p] EXCEPT !.seen = seen, !.plan = Tail(@), !.pc = next]
  BY <1>1 DEF AfterRead, CallRecord
<1> HIDE DEF name, seen
<1>8. /\ c \in CallRecord /\ c.pc = next /\ c.plan = Tail(me[p].plan) /\ c.seen = seen /\ c.op = me[p].op
      /\ c.during = me[p].during /\ next \in {"decide", "read"}
  <2>1. next \in Labels /\ next \in {"decide", "read"}
    BY LabelsAre
  <2> HIDE DEF next
  <2>2. c \in CallRecord
    BY <1>1, <1>4, <1>6, <1>7, <2>1 DEF CallRecord
  <2>3. /\ c.pc = next /\ c.plan = Tail(me[p].plan) /\ c.seen = seen /\ c.op = me[p].op
        /\ c.during = me[p].during
    BY <1>1, <1>7 DEF CallRecord
  <2> QED BY <2>1, <2>2, <2>3
<1>9. c.pc = "read" => c.plan # <<>>
  <2>1. c.pc = "read" => Len(c.plan) # 0
    BY <1>3, <1>4, <1>8
  <2> QED BY <2>1
<1>10. c.pc = "decide" => c.plan = <<>>
  BY <1>3, <1>4, <1>8
<1> HIDE DEF next
<1>11. ASSUME NEW other \in Names, InPlan(me[p], other), ~InPlan(c, other) PROVE c.seen[other] = file[other]
  <2>1. PICK n \in 1..Len(me[p].plan) : me[p].plan[n] = other
    BY <1>11 DEF InPlan
  <2>2. n = 1
    <3> SUFFICES ASSUME n # 1 PROVE FALSE
      OBVIOUS
    <3>1. n \in 2..Len(me[p].plan) /\ n - 1 \in 1..Len(Tail(me[p].plan))
      BY <1>3, <1>4
    <3>2. Tail(me[p].plan)[n - 1] = other
      BY <1>4, <2>1, <3>1
    <3> QED BY <1>8, <1>11, <3>1, <3>2 DEF InPlan
  <2> QED BY <1>3, <1>6, <1>8, <2>1, <2>2
<1>12. \A other \in Names : c.seen[other] = me[p].seen[other] \/ c.seen[other] = file[other]
  BY <1>6, <1>8
<1> QED BY <1>1, <1>5, <1>8, <1>9, <1>10, <1>11, <1>12

LEMMA ReadStep ==
    ASSUME ConfigInv, NEW p \in Procs, Read(p)
    PROVE  ConfigInv'
<1> DEFINE c == AfterRead(me[p])
<1>1. /\ me[p].pc = "read" /\ me[p] \in CallRecord /\ Sound(me[p], file)
      /\ Become(p, c) /\ UNCHANGED <<use, file>> /\ nextId' = nextId
      /\ c \in CallRecord /\ c.op = me[p].op /\ c.pc \in {"decide", "read"}
      /\ c.pc = "read" => c.plan # <<>>
      /\ c.pc = "decide" => c.plan = <<>>
  BY ReadIs
<1>2. /\ \A name \in Names : InPlan(me[p], name) => InPlan(c, name) \/ c.seen[name] = file[name]
      /\ \A name \in Names : c.seen[name] = me[p].seen[name] \/ c.seen[name] = file[name]
  BY ReadIs
<1> HIDE DEF c
<1>3. me[p].op.kind # "import" => Configured(file.drafts) /\ file.profiles # <<>>
  BY <1>1 DEF Sound, OnFile, PastDrafts, PastProfiles, Operating
<1>4. c.op.kind \in {"draft", "publish"} => InPlan(c, "drafts") \/ Configured(c.seen.drafts)
  <2>1. c.op.kind \in {"draft", "publish"} => InPlan(me[p], "drafts") \/ Configured(me[p].seen.drafts)
    BY <1>1 DEF Sound, Planned
  <2>2. InPlan(me[p], "drafts") => InPlan(c, "drafts") \/ c.seen.drafts = file.drafts
    BY <1>2, NamesAre
  <2>3. c.seen.drafts = me[p].seen.drafts \/ c.seen.drafts = file.drafts
    BY <1>2, NamesAre
  <2> QED BY <1>1, <1>3, <2>1, <2>2, <2>3
<1>5. c.op.kind \in {"publish", "override", "rollback", "query"} => InPlan(c, "profiles") \/ c.seen.profiles # <<>>
  <2>1. c.op.kind \in {"publish", "override", "rollback", "query"} =>
           InPlan(me[p], "profiles") \/ me[p].seen.profiles # <<>>
    BY <1>1 DEF Sound, Planned
  <2>2. InPlan(me[p], "profiles") => InPlan(c, "profiles") \/ c.seen.profiles = file.profiles
    BY <1>2, NamesAre
  <2>3. c.seen.profiles = me[p].seen.profiles \/ c.seen.profiles = file.profiles
    BY <1>2, NamesAre
  <2> QED BY <1>1, <1>3, <2>1, <2>2, <2>3
<1>6. Planned(c)
  BY <1>1, <1>4, <1>5 DEF Planned, Ensuring
<1>7. Sound(c, file)
  BY <1>1, <1>3, <1>6 DEF Sound, ToWrite, OnFile, PastDrafts, PastProfiles, Operating
<1>8. nextId' \in Nat
  BY <1>1 DEF ConfigInv
<1> QED BY <1>1, <1>7, <1>8, LocalStep

\* Whoever writes the drafts or the profiles leaves them configured.
LEMMA ForwardSound ==
    ASSUME NEW c, NEW f, NEW g, Sound(c, f), Configured(f.drafts) => Configured(g.drafts),
           f.profiles # <<>> => g.profiles # <<>>
    PROVE  Sound(c, g)
BY DEF Sound, OnFile

LEMMA WatchedTyped ==
    ASSUME NEW c \in CallRecord, NEW id \in AnyId, NEW f, Sound(c, f)
    PROVE  /\ [c EXCEPT !.during = @ \cup {id}] \in CallRecord
           /\ Sound([c EXCEPT !.during = @ \cup {id}], f)
<1> DEFINE d == [c EXCEPT !.during = @ \cup {id}]
<1>1. d \in CallRecord
  BY DEF CallRecord
<1>2. /\ d.pc = c.pc /\ d.op = c.op /\ d.plan = c.plan /\ d.seen = c.seen /\ d.todo = c.todo
      /\ d.put = c.put /\ d.then = c.then
  BY DEF CallRecord
<1> HIDE DEF d
<1>3. Sound(d, f)
  BY <1>2 DEF Sound, Planned, ToWrite, OnFile, PastDrafts, PastProfiles, Ensuring, Operating, InPlan
<1> QED BY <1>1, <1>3 DEF d

\* The call after a write.
Written(c) ==
    IF Len(c.todo) > 1 THEN [c EXCEPT !.todo = Tail(@)]
    ELSE IF c.then = "idle" THEN Idle
    ELSE [c EXCEPT !.pc = c.then, !.todo = <<>>, !.put = NoFiles]

LEMMA WrittenFacts ==
    ASSUME NEW c \in CallRecord, c.pc = "write", ToWrite(c)
    PROVE  /\ c.todo \in Writes /\ Head(c.todo) = c.todo[1] /\ c.todo[1] \in Names
           /\ Len(c.todo) > 1 => c.todo = <<"profiles", "state">> /\ Tail(c.todo) = <<"state">>
           /\ Len(c.todo) <= 1 => c.todo = <<c.todo[1]>>
<1>1. c.todo \in Writes
  BY DEF ToWrite
<1>2. CASE c.todo = <<"profiles", "state">>
  BY <1>1, <1>2, NamesAre
<1>3. ASSUME NEW name \in Names, c.todo = <<name>>
      PROVE  /\ c.todo \in Writes /\ Head(c.todo) = c.todo[1] /\ c.todo[1] \in Names
             /\ Len(c.todo) = 1 /\ c.todo = <<c.todo[1]>>
  <2> HIDE DEF Names
  <2> QED BY <1>1, <1>3, ListOfOne, OneFile
<1>4. \/ c.todo = <<"profiles", "state">> \/ \E name \in Names : c.todo = <<name>>
  BY <1>1, NamesAre DEF Writes
<1>5. CASE \E name \in Names : c.todo = <<name>>
  <2>1. PICK name \in Names : c.todo = <<name>>
    BY <1>5
  <2>2. /\ c.todo \in Writes /\ Head(c.todo) = c.todo[1] /\ c.todo[1] \in Names
        /\ Len(c.todo) = 1 /\ c.todo = <<c.todo[1]>>
    BY <1>3, <2>1
  <2> QED BY <2>2
<1> QED BY <1>2, <1>4, <1>5

LEMMA WrittenSound ==
    ASSUME NEW c \in CallRecord, c.pc = "write", NEW f \in Files, Sound(c, f), NEW g,
           g = [f EXCEPT ![Head(c.todo)] = c.put[Head(c.todo)]]
    PROVE  /\ g \in Files /\ (Configured(f.drafts) => Configured(g.drafts))
           /\ f.profiles # <<>> => g.profiles # <<>>
           /\ Written(c) = Idle \/ (Written(c) \in CallRecord /\ Sound(Written(c), g))
<1> DEFINE name == Head(c.todo)
<1>1. /\ name = c.todo[1] /\ name \in Names /\ c.todo \in Writes
      /\ Len(c.todo) > 1 => c.todo = <<"profiles", "state">> /\ Tail(c.todo) = <<"state">>
      /\ Len(c.todo) <= 1 => c.todo = <<name>>
  BY WrittenFacts DEF Sound
<1>2. c.put \in Files /\ c.op \in Operations /\ c.plan \in Seq(Names) /\ c.then \in Labels
  BY DEF CallRecord
<1>3. g \in Files /\ g[name] = c.put[name] /\ \A other \in Names \ {name} : g[other] = f[other]
  <2>1. g = [f EXCEPT ![name] = c.put[name]]
    OBVIOUS
  <2>2. f \in Files /\ c.put \in Files /\ name \in Names
    BY <1>1, <1>2
  <2> HIDE DEF name
  <2>3. [f EXCEPT ![name] = c.put[name]] \in Files /\ DOMAIN f = Names
    BY <2>2, FileWritten
  <2> QED BY <2>1, <2>2, <2>3
<1>4. name = "drafts" => Configured(c.put.drafts)
  BY <1>1 DEF Sound, ToWrite
<1>5. name = "profiles" => c.put.profiles # <<>>
  BY <1>1 DEF Sound, ToWrite
<1>6. Configured(f.drafts) => Configured(g.drafts)
  BY <1>3, <1>4, NamesAre
<1>7. f.profiles # <<>> => g.profiles # <<>>
  BY <1>3, <1>5, NamesAre
<1>8. CASE Len(c.todo) > 1
  <2> DEFINE d == [c EXCEPT !.todo = Tail(@)]
  <2>1. c.todo = <<"profiles", "state">> /\ Tail(c.todo) = <<"state">> /\ name = "profiles"
    BY <1>1, <1>8
  <2>2. <<"state">> \in Seq(Names)
    BY ListOfOne, NamesAre
  <2>3. /\ d \in CallRecord /\ d.pc = "write" /\ d.todo = <<"state">> /\ d.then = c.then /\ d.op = c.op
        /\ d.plan = c.plan /\ d.seen = c.seen /\ d.put = c.put
    BY <2>1, <2>2 DEF CallRecord
  <2> HIDE DEF d
  <2>4. g.profiles # <<>>
    BY <1>3, <1>5, <2>1
  <2>5. /\ <<"state">> \in Writes /\ <<"state">>[1] = "state" /\ Head(<<"state">>) = "state"
        /\ <<"profiles", "state">> # <<"profiles">> /\ <<"profiles", "state">> # <<"instances">>
        /\ <<"profiles", "state">> # <<"drafts">>
    BY WritesAre
  <2>6. ToWrite(d)
    BY <2>1, <2>3, <2>5 DEF Sound, ToWrite
  <2>7. Sound(d, g)
    BY <1>6, <1>7, <2>3, <2>4, <2>6
    DEF Sound, Planned, OnFile, PastDrafts, PastProfiles, Ensuring, Operating, InPlan
  <2>8. Written(c) = d
    BY <1>8 DEF Written, d
  <2> QED BY <1>3, <1>6, <1>7, <2>3, <2>7, <2>8
<1>9. CASE Len(c.todo) <= 1 /\ c.then # "idle"
  <2> DEFINE d == [c EXCEPT !.pc = c.then, !.todo = <<>>, !.put = NoFiles]
  <2>1. c.todo = <<name>>
    BY <1>1, <1>9
  <2>2. /\ d \in CallRecord /\ d.pc = c.then /\ d.op = c.op /\ d.plan = c.plan /\ d.seen = c.seen
    <3>1. NoFiles \in Files /\ <<>> \in Seq(Names)
      BY NoFilesTyped
    <3> HIDE DEF d
    <3>2. d \in CallRecord
      BY <1>2, <3>1 DEF CallRecord, d
    <3>3. d.pc = c.then /\ d.op = c.op /\ d.plan = c.plan /\ d.seen = c.seen
      BY DEF CallRecord, d
    <3> QED BY <3>2, <3>3
  <2> HIDE DEF d
  <2>3. c.then \in {"instances", "drafts", "profiles", "state", "read", "log"}
    BY <1>9 DEF Sound, ToWrite
  <2>4. <<name>> # <<"profiles", "state">> /\ \A other \in Names : <<name>> = <<other>> => name = other
    <3>1. Len(<<name>>) = 1 /\ Len(<<"profiles", "state">>) = 2
      OBVIOUS
    <3>2. \A other \in Names : <<name>> = <<other>> => <<name>>[1] = <<other>>[1]
      OBVIOUS
    <3> QED BY <3>1, <3>2
  <2>5. /\ c.then = "profiles" => name = "drafts"
        /\ c.then = "state" => name = "profiles" /\ c.seen.profiles # <<>>
        /\ c.then = "read" => name = "state" /\ c.op.kind # "import"
    BY <2>1, <2>4, NamesAre DEF Sound, ToWrite
  <2>6. Plan(c.op.kind) # <<>>
    BY <1>2, KindPlan
  <2>7. Planned(d)
    BY <2>2, <2>3, <2>5, <2>6 DEF Sound, Planned, Ensuring, InPlan
  <2>8. OnFile(d, g)
    <3>1. c.then = "profiles" => Configured(g.drafts)
      BY <1>3, <1>4, <2>5
    <3>2. c.then \in {"state", "read"} => Configured(g.drafts)
      BY <1>6 DEF Sound, OnFile, PastDrafts
    <3>3. c.then = "state" => g.profiles # <<>>
      BY <1>3, <1>5, <2>5
    <3>4. c.then = "read" => g.profiles # <<>>
      BY <1>7, <2>5 DEF Sound, OnFile, PastProfiles
    <3> QED BY <2>2, <2>3, <3>1, <3>2, <3>3, <3>4 DEF OnFile, PastDrafts, PastProfiles, Operating
  <2>9. Sound(d, g)
    BY <2>2, <2>3, <2>7, <2>8 DEF Sound, ToWrite
  <2>10. Written(c) = d
    BY <1>9 DEF Written, d
  <2> QED BY <1>3, <1>6, <1>7, <2>2, <2>9, <2>10
<1>10. CASE Len(c.todo) <= 1 /\ c.then = "idle"
  BY <1>3, <1>6, <1>7, <1>10 DEF Written
<1>11. Len(c.todo) \in Nat
  BY DEF CallRecord
<1> QED BY <1>8, <1>9, <1>10, <1>11

\* What a write leaves each process at.
Afterwards(p, q) == IF q = p THEN Written(me[p]) ELSE me[q]

LEMMA WriteIs ==
    ASSUME ConfigInv, NEW p \in Procs, Write(p)
    PROVE  /\ me[p].pc = "write" /\ file' = [file EXCEPT ![Head(me[p].todo)] = me[p].put[Head(me[p].todo)]]
           /\ me' = [q \in Procs |->
                       IF Head(me[p].todo) = "state" /\ Afterwards(p, q).pc # "idle" /\ Afterwards(p, q).op.kind = "query"
                       THEN [Afterwards(p, q) EXCEPT !.during = @ \cup {file'.state.active}] ELSE Afterwards(p, q)]
           /\ UNCHANGED <<use, gone, ops, crashes, nextId>>
BY DEF ConfigInv, Write, At, Written, Afterwards

LEMMA WriteStep ==
    ASSUME ConfigInv, NEW p \in Procs, Write(p)
    PROVE  ConfigInv'
<1>1. /\ me[p].pc = "write" /\ me[p] \in CallRecord /\ Sound(me[p], file) /\ file \in Files
      /\ file' = [file EXCEPT ![Head(me[p].todo)] = me[p].put[Head(me[p].todo)]]
  BY WriteIs, CallOf DEF ConfigInv
<1>2. /\ file' \in Files /\ (Configured(file.drafts) => Configured(file'.drafts))
      /\ file.profiles # <<>> => file'.profiles # <<>>
      /\ Written(me[p]) = Idle \/ (Written(me[p]) \in CallRecord /\ Sound(Written(me[p]), file'))
  BY <1>1, WrittenSound
<1>3. ASSUME NEW q \in Procs
      PROVE  Afterwards(p, q) = Idle \/ (Afterwards(p, q) \in CallRecord /\ Sound(Afterwards(p, q), file'))
  <2>1. CASE q = p
    BY <1>2, <2>1 DEF Afterwards
  <2>2. CASE q # p
    <3>1. me[q] = Idle \/ (me[q] \in CallRecord /\ Sound(me[q], file))
      BY DEF ConfigInv
    <3>2. me[q] = Idle \/ (me[q] \in CallRecord /\ Sound(me[q], file'))
      BY <1>2, <3>1, ForwardSound
    <3> QED BY <2>2, <3>2 DEF Afterwards
  <2> QED BY <2>1, <2>2
<1>4. file'.state.active \in AnyId
  BY <1>2 DEF Files, States
<1>5. ASSUME NEW q \in Procs
      PROVE  me'[q] = Idle \/ (me'[q] \in CallRecord /\ Sound(me'[q], file'))
  <2>1. CASE Head(me[p].todo) = "state" /\ Afterwards(p, q).pc # "idle" /\ Afterwards(p, q).op.kind = "query"
    <3>1. me'[q] = [Afterwards(p, q) EXCEPT !.during = @ \cup {file'.state.active}]
      BY <2>1, WriteIs
    <3>2. Afterwards(p, q) \in CallRecord /\ Sound(Afterwards(p, q), file')
      BY <1>3, <2>1 DEF Idle
    <3> QED BY <1>4, <3>1, <3>2, WatchedTyped
  <2>2. CASE ~(Head(me[p].todo) = "state" /\ Afterwards(p, q).pc # "idle" /\ Afterwards(p, q).op.kind = "query")
    <3>1. me'[q] = Afterwards(p, q)
      BY <2>2, WriteIs
    <3> QED BY <1>3, <3>1
  <2> QED BY <2>1, <2>2
<1>6. me' \in [Procs -> CallRecord \cup {Idle}]
  <2>1. DOMAIN me' = Procs /\ me' = [q \in Procs |-> me'[q]]
    BY WriteIs
  <2> QED BY <1>5, <2>1
<1>7. use' = use /\ nextId' = nextId
  BY WriteIs
<1> QED BY <1>2, <1>5, <1>6, <1>7 DEF ConfigInv

-----------------------------------------------------------------------------
(* Decisions keep the invariant.                                           *)

LEMMA LastTyped ==
    ASSUME NEW S, NEW s \in Seq(S), NEW n \in Nat
    PROVE  Last(s, n) \in Short(S, n)
<1>1. CASE Len(s) > n
  <2>1. Len(s) - n + 1 \in 1..Len(s) + 1 /\ Len(s) \in 0..Len(s)
    BY <1>1
  <2>2. \A i \in (Len(s) - n + 1)..Len(s) : s[i] \in S
    BY <1>1
  <2>3. SubSeq(s, Len(s) - n + 1, Len(s)) \in Seq(S)
    BY <2>1, <2>2
  <2>4. Len(SubSeq(s, Len(s) - n + 1, Len(s))) = n
    BY <1>1, <2>1
  <2> QED BY <1>1, <2>3, <2>4 DEF Last, Short
<1>2. CASE ~(Len(s) > n)
  BY <1>2 DEF Last, Short
<1> QED BY <1>1, <1>2

LEMMA FollowTyped ==
    ASSUME NEW state \in States, NEW from \in AnyId, NEW to \in Nat
    PROVE  Follow(state, from, to) \in States /\ Follow(state, from, to).active = to
<1>1. state.previous \in Seq(Nat) /\ Keep \in Nat /\ to \in AnyId
  BY ConfigAssumption DEF ConfigAssumption, AnyId, States, Short
<1>2. from # Absent => Append(state.previous, from) \in Seq(Nat)
  BY <1>1 DEF AnyId
<1>3. Last(IF from = Absent THEN state.previous ELSE Append(state.previous, from), Keep) \in Short(Nat, Keep)
  BY <1>1, <1>2, LastTyped
<1> QED BY <1>1, <1>3 DEF Follow, States

LEMMA ActiveWhole ==
    ASSUME NEW seen \in Files, seen.profiles # <<>>
    PROVE  /\ Active(seen) \in WholeProfiles
           /\ IF seen.state.active \in IdsOf(seen.profiles)
              THEN Active(seen).id = seen.state.active ELSE Active(seen) = seen.profiles[1]
<1>1. seen.profiles \in Seq(WholeProfiles) /\ seen.profiles[1] \in WholeProfiles
  BY DEF Files
<1>2. CASE seen.state.active \in IdsOf(seen.profiles)
  <2>1. \E n \in DOMAIN seen.profiles : seen.profiles[n].id = seen.state.active
    BY <1>2 DEF IdsOf
  <2> DEFINE m == CHOOSE n \in DOMAIN seen.profiles : seen.profiles[n].id = seen.state.active
  <2>2. m \in DOMAIN seen.profiles /\ seen.profiles[m].id = seen.state.active
    BY <2>1
  <2>3. Active(seen) = seen.profiles[m]
    BY <1>2 DEF Active, ProfileOf
  <2> HIDE DEF m
  <2>4. seen.profiles[m] \in WholeProfiles
    BY <1>1, <2>2
  <2> QED BY <1>2, <2>2, <2>3, <2>4
<1>3. CASE seen.state.active \notin IdsOf(seen.profiles)
  BY <1>1, <1>3 DEF Active
<1> QED BY <1>2, <1>3

\* What a call has in hand when it decides.
LEMMA DecidingCall ==
    ASSUME ConfigInv, NEW p \in Procs, me[p].pc = "decide"
    PROVE  /\ me[p] \in CallRecord /\ Sound(me[p], file) /\ me[p].op \in Operations /\ me[p].seen \in Files
           /\ me[p].op.kind \in {"draft", "publish"} => Configured(me[p].seen.drafts)
           /\ me[p].op.kind \in {"publish", "override", "rollback", "query"} => me[p].seen.profiles # <<>>
<1>1. me[p] \in CallRecord /\ Sound(me[p], file)
  BY CallOf
<1>2. me[p].plan = <<>>
  BY <1>1 DEF Sound, Planned
<1>3. \A name : ~InPlan(me[p], name)
  BY <1>2 DEF InPlan
<1> QED BY <1>1, <1>3 DEF Sound, Planned, CallRecord

\* A decision that writes.
LEMMA DecidedWrite ==
    ASSUME ConfigInv, NEW p \in Procs, me[p].pc \in {"decide", "log"},
           NEW todo \in Writes, NEW put \in Files, NEW then \in {"idle", "log", "instances"},
           todo[1] = "drafts" => Configured(put.drafts), todo[1] = "profiles" => put.profiles # <<>>,
           then = "instances" => me[p].op.kind = "import",
           NEW from \in Transitions
    PROVE  /\ Writing(me[p], todo, put, then) \in CallRecord /\ Sound(Writing(me[p], todo, put, then), file)
           /\ [Writing(me[p], todo, put, then) EXCEPT !.from = from] \in CallRecord
           /\ Sound([Writing(me[p], todo, put, then) EXCEPT !.from = from], file)
<1> DEFINE w == Writing(me[p], todo, put, then)
           v == [w EXCEPT !.from = from]
<1>1. me[p] \in CallRecord /\ Sound(me[p], file) /\ then \in Labels
  BY CallOf, LabelsAre
<1>2. /\ w \in CallRecord /\ w.pc = "write" /\ w.todo = todo /\ w.put = put /\ w.then = then
      /\ w.op = me[p].op /\ w.plan = me[p].plan /\ w.seen = me[p].seen
  BY <1>1, WritingTyped
<1> HIDE DEF w
<1>3. v \in CallRecord
  BY <1>2 DEF CallRecord
<1>4. /\ v.pc = w.pc /\ v.todo = w.todo /\ v.put = w.put /\ v.then = w.then /\ v.op = w.op
      /\ v.plan = w.plan /\ v.seen = w.seen
  BY <1>2 DEF CallRecord
<1> HIDE DEF v
<1>5. ASSUME NEW x, x.pc = "write", x.todo = todo, x.put = put, x.then = then, x.op = me[p].op,
             x.plan = me[p].plan, x.seen = me[p].seen
      PROVE  Sound(x, file)
  <2>1. ToWrite(x)
    BY <1>5 DEF ToWrite
  <2>2. Planned(x)
    BY <1>1, <1>5 DEF Sound, Planned, Ensuring, InPlan
  <2>3. OnFile(x, file)
    BY <1>5 DEF OnFile, PastDrafts, PastProfiles, Operating
  <2> QED BY <1>5, <2>1, <2>2, <2>3 DEF Sound
<1>6. Sound(w, file)
  BY <1>2, <1>5
<1>7. Sound(v, file)
  BY <1>2, <1>4, <1>5
<1> QED BY <1>2, <1>3, <1>6, <1>7 DEF v, w

LEMMA NoTransition == Absent \in Transitions
BY DEF Transitions

LEMMA DecideInstanceStep ==
    ASSUME ConfigInv, NEW p \in Procs, DecideInstance(p)
    PROVE  ConfigInv'
<1> DEFINE inst == me[p].seen.instances
           op == me[p].op
           To(value) == [NoFiles EXCEPT !.instances = [inst EXCEPT ![op.instance] = value]]
<1>1. /\ me[p].pc = "decide" /\ op.kind \in {"save", "enable", "delete"}
      /\ UNCHANGED <<use, file>> /\ nextId' = nextId
  BY DEF DecideInstance, Decides, At, Only
<1>2. /\ me[p] \in CallRecord /\ op \in Operations /\ inst \in InstanceFile /\ op.instance \in Instances
      /\ op.kind = "save" => op.settings \in Settings
  BY <1>1, DecidingCall, OperationsTyped DEF Files
<1>3. ASSUME NEW value \in Settings \cup {Absent} PROVE To(value) \in Files
  <2>1. [inst EXCEPT ![op.instance] = value] \in InstanceFile
    BY <1>2 DEF InstanceFile
  <2> QED BY <2>1, NoFilesTyped, FileEdited, NamesAre DEF Contents
<1>4. PICK value \in Settings \cup {Absent} :
         Become(p, Idle) \/ Become(p, Writing(me[p], <<"instances">>, To(value), "idle"))
  <2>1. CASE Decides(p, "save")
    BY <1>2, <2>1 DEF DecideInstance, Decides, WriteOrFail
  <2>2. CASE Decides(p, "enable")
    <3>1. CASE op.instance \in Present(inst)
      <4>1. Toggle[inst[op.instance]] \in Settings
        BY <1>2, <3>1, ConfigAssumption DEF Present, InstanceFile, ConfigAssumption
      <4> QED BY <2>2, <3>1, <4>1 DEF DecideInstance, Decides, WriteOrFail
    <3>2. CASE op.instance \notin Present(inst)
      BY <2>2, <3>2 DEF DecideInstance, Decides, WriteOrFail
    <3> QED BY <3>1, <3>2
  <2>3. CASE Decides(p, "delete")
    BY <2>3 DEF DecideInstance, Decides, WriteOrFail
  <2> QED BY <2>1, <2>2, <2>3 DEF DecideInstance
<1>5. To(value) \in Files
  BY <1>3
<1> HIDE DEF To
<1>6. <<"instances">> \in Writes /\ <<"instances">>[1] = "instances" /\ Absent \in Transitions
  BY WritesAre, NoTransition
<1>7. Writing(me[p], <<"instances">>, To(value), "idle") \in CallRecord
      /\ Sound(Writing(me[p], <<"instances">>, To(value), "idle"), file)
  BY <1>1, <1>5, <1>6, DecidedWrite
<1>8. nextId' \in Nat
  BY <1>1 DEF ConfigInv
<1> QED BY <1>1, <1>4, <1>7, <1>8, LocalStep

LEMMA DecideDraftStep ==
    ASSUME ConfigInv, NEW p \in Procs, DecideDraft(p)
    PROVE  ConfigInv'
<1> DEFINE op == me[p].op
           drafts == [me[p].seen.drafts EXCEPT ![op.contract] = op.sources]
           put == [NoFiles EXCEPT !.drafts = drafts]
           w == Writing(me[p], <<"drafts">>, put, "idle")
<1>1. /\ me[p].pc = "decide" /\ op.kind = "draft" /\ UNCHANGED <<use, file>> /\ nextId' = nextId
      /\ Become(p, w) \/ Become(p, Idle)
  BY DEF DecideDraft, Decides, At, Only, WriteOrFail
<1>2. /\ me[p] \in CallRecord /\ op \in Operations /\ me[p].seen.drafts \in PolicyFile
      /\ op.contract \in Contracts /\ op.sources \in SUBSET Instances /\ Configured(me[p].seen.drafts)
  BY <1>1, DecidingCall, OperationsTyped DEF Files
<1>3. drafts \in PolicyFile
  BY <1>2 DEF PolicyFile
<1>4. Configured(drafts)
  BY <1>2, NoAbsentSet DEF Configured, PolicyFile
<1>5. put \in Files /\ put["drafts"] = drafts
  BY <1>3, NoFilesTyped, FileEdited, NamesAre DEF Contents
<1> HIDE DEF drafts, put
<1>6. <<"drafts">> \in Writes /\ <<"drafts">>[1] = "drafts" /\ Absent \in Transitions
  BY WritesAre, NoTransition
<1>7. w \in CallRecord /\ Sound(w, file)
  BY <1>1, <1>4, <1>5, <1>6, DecidedWrite
<1>8. nextId' \in Nat
  BY <1>1 DEF ConfigInv
<1> QED BY <1>1, <1>7, <1>8, LocalStep

\* The files of a new profile.
NewProfile(seen, profile, state) ==
    [NoFiles EXCEPT !.profiles = Append(seen.profiles, profile), !.state = state]

LEMMA NewProfileTyped ==
    ASSUME NEW seen \in Files, NEW profile \in WholeProfiles,
           NEW state \in States
    PROVE  /\ NewProfile(seen, profile, state) \in Files
           /\ NewProfile(seen, profile, state).profiles = Append(seen.profiles, profile)
           /\ NewProfile(seen, profile, state).state = state
           /\ NewProfile(seen, profile, state).profiles # <<>>
<1> DEFINE profiles == Append(seen.profiles, profile)
           f == [NoFiles EXCEPT !.profiles = profiles]
           g == [f EXCEPT !.state = state]
<1>1. profiles \in Seq(WholeProfiles) /\ profiles # <<>>
  <2>1. seen.profiles \in Seq(WholeProfiles)
    BY DEF Files
  <2>2. profiles \in Seq(WholeProfiles) /\ Len(profiles) = Len(seen.profiles) + 1 /\ Len(seen.profiles) \in Nat
    BY <2>1
  <2>3. Len(profiles) # 0
    BY <2>2
  <2> QED BY <2>2, <2>3
<1> HIDE DEF profiles
<1>2. f \in Files
  BY <1>1, NoFilesTyped, FileEdited, NamesAre DEF Contents
<1>3. f.profiles = profiles
  BY NoFilesTyped DEF Files
<1> HIDE DEF f
<1>4. g \in Files
  BY <1>2, FileEdited, NamesAre DEF Contents
<1>5. g.profiles = f.profiles /\ g.state = state
  BY <1>2 DEF Files
<1>6. NewProfile(seen, profile, state) = g
  BY NoFilesTyped DEF NewProfile, Files, f, profiles
<1> QED BY <1>1, <1>3, <1>4, <1>5, <1>6 DEF profiles

LEMMA DecidePublishStep ==
    ASSUME ConfigInv, NEW p \in Procs, DecidePublish(p)
    PROVE  ConfigInv'
<1> DEFINE seen == me[p].seen
           profile == [id |-> nextId, instances |-> seen.instances, policies |-> seen.drafts]
           state == Follow(seen.state, seen.state.active, nextId)
           put == NewProfile(seen, profile, state)
           w == Writing(me[p], <<"profiles", "state">>, put, "idle")
<1>1. /\ me[p].pc = "decide" /\ me[p].op.kind = "publish" /\ UNCHANGED <<use, file>> /\ nextId' = nextId + 1
      /\ (ValidProfile(profile) /\ Become(p, w)) \/ Become(p, Idle)
  BY DEF DecidePublish, Decides, At, WriteOrFail, NewProfile
<1>2. seen \in Files /\ Configured(seen.drafts) /\ nextId \in Nat
  BY <1>1, DecidingCall DEF ConfigInv
<1>3. seen.instances \in InstanceFile /\ seen.drafts \in PolicyFile /\ seen.state.active \in AnyId
      /\ seen.state \in States
  BY <1>2 DEF Files, States
<1>4. profile \in Profile /\ profile.policies = seen.drafts
  BY <1>2, <1>3 DEF Profile
<1>5. state \in States
  BY <1>2, <1>3, FollowTyped
<1> HIDE DEF profile, state
<1>6. CASE ValidProfile(profile) /\ Become(p, w)
  <2>1. profile \in WholeProfiles
    BY <1>2, <1>4, <1>6 DEF WholeProfiles, ValidProfile
  <2>2. put \in Files /\ put.profiles # <<>>
    BY <1>2, <1>5, <2>1, NewProfileTyped
  <2> HIDE DEF put
  <2>3. <<"profiles", "state">> \in Writes /\ <<"profiles", "state">>[1] = "profiles" /\ Absent \in Transitions
    BY WritesAre, NoTransition
  <2>4. w \in CallRecord /\ Sound(w, file)
    BY <1>1, <2>2, <2>3, DecidedWrite
  <2>5. nextId' \in Nat
    BY <1>1, <1>2
  <2> QED BY <1>1, <1>6, <2>4, <2>5, LocalStep
<1>7. CASE Become(p, Idle)
  <2>1. nextId' \in Nat
    BY <1>1, <1>2
  <2> QED BY <1>1, <1>7, <2>1, LocalStep
<1> QED BY <1>1, <1>6, <1>7

LEMMA DecideQueryStep ==
    ASSUME ConfigInv, NEW p \in Procs, DecideQuery(p)
    PROVE  ConfigInv'
<1> DEFINE active == Active(me[p].seen)
           c == [me[p] EXCEPT !.active = active, !.pc = "answer"]
<1>1. /\ me[p].pc = "decide" /\ me[p].op.kind = "query" /\ UNCHANGED <<use, file>> /\ nextId' = nextId
      /\ Become(p, c)
  BY DEF DecideQuery, Decides, At, Only
<1>2. /\ me[p] \in CallRecord /\ Sound(me[p], file) /\ me[p].seen \in Files /\ me[p].seen.profiles # <<>>
  BY <1>1, DecidingCall
<1>3. active \in WholeProfiles
  BY <1>2, ActiveWhole
<1> HIDE DEF active
<1>4. /\ c \in CallRecord /\ c.pc = "answer" /\ c.op = me[p].op /\ c.plan = me[p].plan /\ c.seen = me[p].seen
  BY <1>2, <1>3, LabelsAre DEF CallRecord
<1> HIDE DEF c
<1>5. Sound(c, file)
  BY <1>1, <1>2, <1>4 DEF Sound, Planned, ToWrite, OnFile, PastDrafts, PastProfiles, Ensuring, Operating, InPlan
<1>6. nextId' \in Nat
  BY <1>1 DEF ConfigInv
<1> QED BY <1>1, <1>4, <1>5, <1>6, LocalStep

LEMMA DecideOverrideStep ==
    ASSUME ConfigInv, NEW p \in Procs, DecideOverride(p)
    PROVE  ConfigInv'
<1> DEFINE active == Active(me[p].seen)
           requested == me[p].op.sources \ Present(active.instances)
           inst == [i \in Instances |-> IF i \in requested THEN me[p].seen.instances[i] ELSE active.instances[i]]
           plan == <<"profiles", "state">>
           c == [me[p] EXCEPT !.pc = "read", !.plan = plan, !.active = active, !.inst = inst]
<1>1. /\ me[p].pc = "decide" /\ me[p].op.kind = "override" /\ UNCHANGED <<use, file>> /\ nextId' = nextId
      /\ Become(p, c) \/ Become(p, Idle)
  BY DEF DecideOverride, Decides, At, Only
<1>2. /\ me[p] \in CallRecord /\ Sound(me[p], file) /\ me[p].seen \in Files /\ me[p].seen.profiles # <<>>
  BY <1>1, DecidingCall
<1>3. active \in WholeProfiles /\ active.instances \in InstanceFile /\ me[p].seen.instances \in InstanceFile
  BY <1>2, ActiveWhole DEF WholeProfiles, Profile, Files
<1> HIDE DEF active
<1>4. inst \in InstanceFile
  BY <1>3 DEF InstanceFile
<1>5. plan \in Seq(Names) /\ plan # <<>>
  BY ListOfTwo, NamesAre
<1> HIDE DEF inst, plan
<1>6. /\ c \in CallRecord /\ c.pc = "read" /\ c.op = me[p].op /\ c.plan = plan /\ c.seen = me[p].seen
  BY <1>2, <1>3, <1>4, <1>5, LabelsAre DEF CallRecord
<1> HIDE DEF c
<1>7. Sound(c, file)
  BY <1>1, <1>2, <1>5, <1>6 DEF Sound, Planned, ToWrite, OnFile, PastDrafts, PastProfiles, Ensuring, Operating
<1>8. nextId' \in Nat
  BY <1>1 DEF ConfigInv
<1> QED BY <1>1, <1>6, <1>7, <1>8, LocalStep

LEMMA DecideOverrideEndStep ==
    ASSUME ConfigInv, NEW p \in Procs, DecideOverrideEnd(p)
    PROVE  ConfigInv'
<1> DEFINE seen == me[p].seen
           active == me[p].active
           op == me[p].op
           policies == [active.policies EXCEPT ![op.contract] = op.sources]
           profile == [id |-> nextId, instances |-> me[p].inst, policies |-> policies]
           state == Follow(seen.state, active.id, nextId)
           put == NewProfile(seen, profile, state)
           from == <<active.id, nextId>>
           w == [Writing(me[p], <<"profiles", "state">>, put, "log") EXCEPT !.from = from]
<1>1. /\ me[p].pc = "decide" /\ op.kind = "override" /\ active # Absent
      /\ UNCHANGED <<use, file>> /\ nextId' = nextId + 1
      /\ (ValidProfile(profile) /\ Become(p, w)) \/ Become(p, Idle)
  BY DEF DecideOverrideEnd, Decides, At, NewProfile
<1>2. /\ seen \in Files /\ nextId \in Nat /\ me[p].inst \in InstanceFile /\ active \in WholeProfiles
      /\ op.contract \in Contracts /\ op.sources \in SUBSET Instances
  BY <1>1, DecidingCall, OperationsTyped DEF ConfigInv, CallRecord
<1>3. /\ active.policies \in PolicyFile /\ Configured(active.policies) /\ active.id \in Nat /\ active.id \in AnyId
      /\ seen.state \in States
  BY <1>2 DEF WholeProfiles, Profile, Files, AnyId
<1>4. policies \in PolicyFile
  BY <1>2, <1>3 DEF PolicyFile
<1>5. Configured(policies)
  BY <1>2, <1>3, NoAbsentSet DEF Configured, PolicyFile
<1> HIDE DEF policies
<1>6. profile \in Profile /\ profile.policies = policies
  BY <1>2, <1>4 DEF Profile
<1>7. state \in States
  BY <1>2, <1>3, FollowTyped
<1>8. from \in Transitions
  BY <1>2, <1>3 DEF Transitions
<1> HIDE DEF profile, state, from
<1>9. nextId' \in Nat
  BY <1>1, <1>2
<1>10. CASE ValidProfile(profile) /\ Become(p, w)
  <2>1. profile \in WholeProfiles
    BY <1>5, <1>6, <1>10 DEF WholeProfiles, ValidProfile
  <2>2. put \in Files /\ put.profiles # <<>>
    BY <1>2, <1>7, <2>1, NewProfileTyped
  <2> HIDE DEF put
  <2>3. <<"profiles", "state">> \in Writes /\ <<"profiles", "state">>[1] = "profiles"
    BY WritesAre
  <2>4. w \in CallRecord /\ Sound(w, file)
    BY <1>1, <1>8, <2>2, <2>3, DecidedWrite
  <2> QED BY <1>1, <1>9, <1>10, <2>4, LocalStep
<1>11. CASE Become(p, Idle)
  BY <1>1, <1>9, <1>11, LocalStep
<1> QED BY <1>1, <1>10, <1>11

LEMMA DecideRollbackStep ==
    ASSUME ConfigInv, NEW p \in Procs, DecideRollback(p)
    PROVE  ConfigInv'
<1> DEFINE seen == me[p].seen
           op == me[p].op
           state == Follow(seen.state, seen.state.active, op.id)
           put == [NoFiles EXCEPT !.state = state]
           from == <<seen.state.active, op.id>>
           w == [Writing(me[p], <<"state">>, put, "log") EXCEPT !.from = from]
<1>1. /\ me[p].pc = "decide" /\ op.kind = "rollback" /\ UNCHANGED <<use, file>> /\ nextId' = nextId
      /\ Become(p, w) \/ Become(p, Idle)
  BY DEF DecideRollback, Decides, At, Only
<1>2. /\ seen.state \in States /\ seen.state.active \in AnyId /\ op.id \in Nat
  BY <1>1, DecidingCall, OperationsTyped DEF Files, States
<1>3. state \in States /\ from \in Transitions
  BY <1>2, FollowTyped DEF Transitions
<1> HIDE DEF state, from
<1>4. put \in Files
  BY <1>3, NoFilesTyped, FileEdited, NamesAre DEF Contents
<1> HIDE DEF put
<1>5. <<"state">> \in Writes /\ <<"state">>[1] = "state"
  BY WritesAre
<1>6. w \in CallRecord /\ Sound(w, file)
  BY <1>1, <1>3, <1>4, <1>5, DecidedWrite
<1>7. nextId' \in Nat
  BY <1>1 DEF ConfigInv
<1> QED BY <1>1, <1>6, <1>7, LocalStep

LEMMA DecideImportStep ==
    ASSUME ConfigInv, NEW p \in Procs, DecideImport(p)
    PROVE  ConfigInv'
<1> DEFINE imports == me[p].seen.imports \cup {me[p].op.package}
           put == [NoFiles EXCEPT !.imports = imports]
           w == Writing(me[p], <<"imports">>, put, "instances")
<1>1. /\ me[p].pc = "decide" /\ me[p].op.kind = "import" /\ UNCHANGED <<use, file>> /\ nextId' = nextId
      /\ Become(p, w)
  BY DEF DecideImport, Decides, At, Only
<1>2. imports \in SUBSET Packages
  BY <1>1, DecidingCall, OperationsTyped DEF Files
<1> HIDE DEF imports
<1>3. put \in Files
  BY <1>2, NoFilesTyped, FileEdited, NamesAre DEF Contents
<1> HIDE DEF put
<1>4. <<"imports">> \in Writes /\ <<"imports">>[1] = "imports" /\ Absent \in Transitions
  BY WritesAre, NoTransition
<1>5. w \in CallRecord /\ Sound(w, file)
  BY <1>1, <1>3, <1>4, DecidedWrite
<1>6. nextId' \in Nat
  BY <1>1 DEF ConfigInv
<1> QED BY <1>1, <1>5, <1>6, LocalStep

LEMMA ReadLogStep ==
    ASSUME ConfigInv, NEW p \in Procs, ReadLog(p)
    PROVE  ConfigInv'
<1> DEFINE log == Last(Append(file.log, me[p].from), KeepLog)
           put == [NoFiles EXCEPT !.log = log]
           w == Writing(me[p], <<"log">>, put, "idle")
<1>1. /\ me[p].pc = "log" /\ UNCHANGED <<use, file>> /\ nextId' = nextId
      /\ Become(p, w)
  BY DEF ReadLog, At, Only
<1>2. me[p].from \in Transitions /\ file.log \in Seq(Transitions) /\ KeepLog \in Nat
  BY <1>1, CallOf, ConfigAssumption DEF CallRecord, ConfigInv, Files, ConfigAssumption, Logs, Short
<1>3. log \in Logs
  <2>1. Append(file.log, me[p].from) \in Seq(Transitions)
    BY <1>2
  <2> QED BY <1>2, <2>1, LastTyped DEF Logs
<1> HIDE DEF log
<1>4. put \in Files
  BY <1>3, NoFilesTyped, FileEdited, NamesAre DEF Contents
<1> HIDE DEF put
<1>5. <<"log">> \in Writes /\ <<"log">>[1] = "log"
  BY WritesAre
<1>6. w \in CallRecord /\ Sound(w, file)
  BY <1>1, <1>2, <1>4, <1>5, DecidedWrite
<1>7. nextId' \in Nat
  BY <1>1 DEF ConfigInv
<1> QED BY <1>1, <1>6, <1>7, LocalStep

LEMMA CallsTyped ==
    ASSUME nextId \in Nat, NEW op \in Calls
    PROVE  op \in Operations
<1>1. CASE op \in {[kind |-> "publish"], [kind |-> "query"]}
  BY <1>1 DEF Operations
<1>2. ASSUME NEW i \in Instances, NEW s \in Settings, op = [kind |-> "save", instance |-> i, settings |-> s]
      PROVE  op \in Operations
  BY <1>2 DEF Operations
<1>3. ASSUME NEW i \in Instances, NEW kind \in {"enable", "delete"}, op = [kind |-> kind, instance |-> i]
      PROVE  op \in Operations
  BY <1>3 DEF Operations
<1>4. ASSUME NEW c \in Contracts, NEW s \in SourceSets, NEW kind \in {"draft", "override"},
             op = [kind |-> kind, contract |-> c, sources |-> s]
      PROVE  op \in Operations
  BY <1>4 DEF Operations
<1>5. ASSUME NEW n \in 0..(nextId - 1), op = [kind |-> "rollback", id |-> n] PROVE op \in Operations
  BY <1>5 DEF Operations
<1>6. ASSUME NEW k \in Packages \ Builtin, op = [kind |-> "import", package |-> k] PROVE op \in Operations
  BY <1>6 DEF Operations
<1> QED BY <1>1, <1>2, <1>3, <1>4, <1>5, <1>6 DEF Calls

LEMMA ConfigStart == Init => ConfigInv
<1> SUFFICES ASSUME Init PROVE ConfigInv
  OBVIOUS
<1>1. \A p \in Procs : me[p] = Idle
  BY DEF Init
<1>2. me \in [Procs -> CallRecord \cup {Idle}]
  BY DEF Init
<1> QED BY <1>1, <1>2, NoFilesTyped DEF Init, ConfigInv

\* The steps of a process.
LEMMA ConfigProcessStep ==
    ASSUME ConfigInv, NEW p \in Procs, Begin(p) \/ Step(p) \/ Crash(p)
    PROVE  ConfigInv'
<1>0. nextId \in Nat
  BY DEF ConfigInv
<1>1. CASE Begin(p)
  <2>1. PICK op \in Calls : me' = [me EXCEPT ![p] = NewCall(op)]
    BY <1>1 DEF Begin
  <2>2. NewCall(op) \in CallRecord /\ Sound(NewCall(op), file)
    BY <1>0, <2>1, CallsTyped, NewCallTyped
  <2>3. UNCHANGED <<use, file>> /\ nextId' \in Nat
    BY <1>0, <1>1 DEF Begin
  <2>4. Become(p, NewCall(op))
    BY <2>1 DEF Become
  <2> QED BY <2>2, <2>3, <2>4, LocalStep
<1>2. CASE Crash(p)
  BY <1>0, <1>2, LocalStep DEF Crash
<1>3. CASE Answer(p)
  BY <1>0, <1>3, LocalStep DEF Answer, Only
<1>4. CASE Ensure(p)
  BY <1>4, EnsureInstancesStep, EnsureDraftsStep, EnsureProfilesStep, EnsureStateStep DEF Ensure
<1>5. CASE Decide(p)
  BY <1>5, DecideInstanceStep, DecideDraftStep, DecidePublishStep, DecideQueryStep, DecideOverrideStep,
     DecideOverrideEndStep, DecideRollbackStep, DecideImportStep DEF Decide
<1> QED BY <1>1, <1>2, <1>3, <1>4, <1>5, ReadStep, ReadLogStep, WriteStep DEF Step

LEMMA ConfigStep == ConfigInv /\ [Next]_vars => ConfigInv'
<1> SUFFICES ASSUME ConfigInv, [Next]_vars PROVE ConfigInv'
  OBVIOUS
<1>1. ASSUME NEW p \in Procs, Begin(p) \/ Step(p) \/ Crash(p) PROVE ConfigInv'
  BY <1>1, ConfigProcessStep
<1>2. ASSUME NEW k \in Packages, Vanish(k) PROVE ConfigInv'
  BY <1>2 DEF Vanish, ConfigInv
<1>3. CASE UNCHANGED vars
  BY <1>3 DEF vars, ConfigInv
<1> QED BY <1>1, <1>2, <1>3 DEF Next

\* What the counters are.
CountInv ==
    /\ gone \subseteq Packages /\ ops \in 0..use.ops /\ crashes \in 0..use.crashes
    /\ nextId \in Nat \ {0}

LEMMA CountStart == Init => CountInv
<1> SUFFICES ASSUME Init PROVE CountInv
  OBVIOUS
<1>1. use.ops \in Nat /\ use.crashes \in Nat
  BY ConfigAssumption DEF Init, ConfigAssumption
<1> QED BY <1>1 DEF Init, CountInv

LEMMA CountStep == ConfigInv /\ CountInv /\ [Next]_vars => CountInv'
<1> SUFFICES ASSUME ConfigInv, CountInv, [Next]_vars PROVE CountInv'
  OBVIOUS
<1>1. use.ops \in Nat /\ use.crashes \in Nat
  BY ConfigAssumption DEF ConfigInv, ConfigAssumption
<1>2. ASSUME NEW p \in Procs, Begin(p) \/ Step(p) \/ Crash(p) PROVE CountInv'
  <2>1. Begin(p) => CountInv'
    BY <1>1 DEF Begin, CountInv
  <2>2. Crash(p) => CountInv'
    BY <1>1 DEF Crash, CountInv
  <2>3. Step(p) => UNCHANGED <<use, gone, ops, crashes>> /\ (nextId' = nextId \/ nextId' = nextId + 1)
    <3>1. Ensure(p) => UNCHANGED <<use, gone, ops, crashes, nextId>>
      BY DEF Ensure, EnsureInstances, EnsureDrafts, EnsureProfiles, EnsureState, Only
    <3>2. Decide(p) => UNCHANGED <<use, gone, ops, crashes>> /\ (nextId' = nextId \/ nextId' = nextId + 1)
      BY DEF Decide, DecideInstance, DecideDraft, DecidePublish, DecideQuery, DecideOverride, DecideOverrideEnd,
             DecideRollback, DecideImport, Only
    <3>3. Read(p) \/ Answer(p) \/ ReadLog(p) \/ Write(p) => UNCHANGED <<use, gone, ops, crashes, nextId>>
      BY DEF Read, Answer, ReadLog, Write, Only
    <3> QED BY <3>1, <3>2, <3>3 DEF Step
  <2> QED BY <1>2, <2>1, <2>2, <2>3 DEF CountInv
<1>3. ASSUME NEW k \in Packages, Vanish(k) PROVE CountInv'
  BY <1>3 DEF Vanish, CountInv
<1>4. CASE UNCHANGED vars
  BY <1>4 DEF vars, CountInv
<1> QED BY <1>2, <1>3, <1>4 DEF Next

\* The files stay what they are read as, with every value that any call reads
\* or is about to write; the previous ids and the transitions stay within
\* their bounds.
THEOREM TypeCorrect == Spec => []TypeOK
<1>1. ConfigInv /\ CountInv => TypeOK
  <2> SUFFICES ASSUME ConfigInv, CountInv PROVE TypeOK
    OBVIOUS
  <2>1. /\ file.instances \in InstanceFile /\ file.drafts \in PolicyFile
        /\ file.profiles \in Seq(WholeProfiles) /\ file.state \in States /\ file.log \in Logs
        /\ file.imports \subseteq Packages /\ use \in Deployments
    BY DEF ConfigInv, Files
  <2>2. file.profiles \in Seq(Profile)
    <3>1. WholeProfiles \subseteq Profile
      BY DEF WholeProfiles
    <3> QED BY <2>1, <3>1
  <2>3. file.state \in State /\ Len(file.state.previous) <= Keep /\ Len(file.log) <= KeepLog
    BY <2>1 DEF States, State, Logs, Short, AnyId
  <2>4. \A p \in Procs : me[p].pc \in Labels
    BY LabelsAre DEF ConfigInv, CallRecord, Idle
  <2> QED BY <2>1, <2>2, <2>3, <2>4 DEF TypeOK, CountInv
<1> QED BY <1>1, ConfigStart, ConfigStep, CountStart, CountStep, PTL DEF Spec

\* Every profile on file, whoever wrote it and whatever was edited meanwhile,
\* has a policy for each contract that can be configured and names only
\* instances it has: the drafts are configured once any process has begun an
\* operation, and what ensure_initialized or a publish writes is made of such.
THEOREM ProfilesAreComplete == Spec => []ProfilesComplete
<1>1. ConfigInv => ProfilesComplete
  <2> SUFFICES ASSUME ConfigInv, NEW n \in DOMAIN file.profiles
               PROVE  /\ NoDanglingIn(file.profiles[n])
                      /\ \A c \in Contracts : Root[c] = c => file.profiles[n].policies[c] # Absent
    BY DEF ProfilesComplete
  <2>1. file.profiles[n] \in WholeProfiles
    BY DEF ConfigInv, Files
  <2> QED BY <2>1 DEF WholeProfiles, Configured
<1> QED BY <1>1, ConfigStart, ConfigStep, PTL DEF Spec

-----------------------------------------------------------------------------
(***************************************************************************)
(* One process, and queries.  A call of the only process there is has read  *)
(* what is on file and writes what keeps it; a query knows all the profiles *)
(* that were active since it began.                                         *)
(***************************************************************************)

Wanted(kind, name) == \E n \in 1..Len(Plan(kind)) : Plan(kind)[n] = name

\* The profiles of the second list are in the first, the published ones as they were.
Keeps(new, old) ==
    \A n \in DOMAIN old : \E m \in DOMAIN new :
        new[m].id = old[n].id /\ (old[n].id # 0 => new[m].instances = old[n].instances)

Edits(c, i) == c.op.kind \in {"save", "enable", "delete"} /\ c.op.instance = i

\* The files a call is about to write keep what is on file: no profile and no
\* setting is lost, but for one of a package that is not there or that the call
\* itself edits; and the state names a profile.
WritesKeep(c, f, packages) ==
    /\ c.todo[1] = "profiles" =>
         /\ Keeps(c.put.profiles, f.profiles)
         /\ c.todo = <<"profiles", "state">> => c.put.state.active \in IdsOf(c.put.profiles)
         /\ c.then = "state" => c.put.profiles = c.seen.profiles
    /\ c.todo[1] = "state" => c.put.state.active \in IdsOf(f.profiles)
    /\ c.todo[1] = "instances" =>
         \A i \in Present(f.instances) :
            c.put.instances[i] = f.instances[i] \/ PackageOf[i] \notin packages \/ Edits(c, i)

Fresh(c, f, packages) ==
    /\ Operating(c) =>
         /\ f.state.active \in IdsOf(f.profiles)
         /\ \A name \in Names : Wanted(c.op.kind, name) => InPlan(c, name) \/ c.seen[name] = f[name]
    /\ c.pc = "state" => c.seen.profiles = f.profiles
    /\ c.pc = "write" => WritesKeep(c, f, packages)

\* A query knows the active profiles, and answers with the one it has read.
Heard(c, f) ==
    c.op.kind = "query" =>
        /\ f.state.active \in c.during
        /\ InPlan(c, "state") \/ c.seen.state.active \in c.during
        /\ c.pc = "answer" => c.active = Active(c.seen)

UsersOnly == \A p \in Procs : p \notin use.procs => me[p] = Idle

AloneInv ==
    Alone => /\ file.state.active \in IdsOf(file.profiles) \cup {Absent}
             /\ \A p \in Procs : me[p] # Idle => Fresh(me[p], file, known)

KeptInv == UsersOnly /\ AloneInv /\ \A p \in Procs : me[p] # Idle => Heard(me[p], file)

\* What a step that neither reads nor decides leaves of a call.
SameReading(d, c) ==
    /\ d.op = c.op /\ d.plan = c.plan /\ d.during = c.during /\ d.seen.state = c.seen.state
    /\ d.pc # "answer"

LEMMA HeardSame ==
    ASSUME NEW c, NEW d, NEW f, Heard(c, f), SameReading(d, c)
    PROVE  Heard(d, f)
BY DEF Heard, SameReading, InPlan

LEMMA OneAtATime ==
    ASSUME ConfigInv, UsersOnly, Alone, NEW p \in Procs, NEW q \in Procs, me[p] # Idle, me[q] # Idle
    PROVE  p = q
<1>1. use.procs \in SUBSET Procs /\ IsFiniteSet(Procs)
  BY ConfigAssumption DEF ConfigInv, ConfigAssumption
<1>2. IsFiniteSet(use.procs)
  BY <1>1, FS_Subset
<1>3. PICK x : use.procs = {x}
  BY <1>2, FS_Singleton DEF Alone
<1>4. p \in use.procs /\ q \in use.procs
  BY DEF UsersOnly
<1> QED BY <1>3, <1>4

LEMMA KeptLocal ==
    ASSUME ConfigInv, KeptInv, NEW p \in Procs, p \in use.procs, NEW d, Become(p, d),
           UNCHANGED <<use, file, gone>>,
           d = Idle \/ (Heard(d, file) /\ (Alone => Fresh(d, file, known)))
    PROVE  KeptInv'
<1>1. known' = known /\ Alone' = Alone /\ file' = file
  BY DEF known, Alone
<1>2. \A q \in Procs : me'[q] = IF q = p THEN d ELSE me[q]
  BY DEF ConfigInv, Become
<1>3. UsersOnly'
  BY <1>2 DEF KeptInv, UsersOnly
<1>4. AloneInv'
  BY <1>1, <1>2 DEF KeptInv, AloneInv
<1>5. \A q \in Procs : me'[q] # Idle => Heard(me'[q], file)
  BY <1>2 DEF KeptInv
<1> QED BY <1>1, <1>3, <1>4, <1>5 DEF KeptInv

\* What is known of a call that takes a step of its own.
LEMMA Knows ==
    ASSUME ConfigInv, KeptInv, NEW p \in Procs, me[p].pc # "idle"
    PROVE  /\ me[p] \in CallRecord /\ Sound(me[p], file) /\ Heard(me[p], file) /\ p \in use.procs
           /\ file \in Files /\ me[p].op \in Operations /\ me[p].seen \in Files
           /\ Alone => /\ Fresh(me[p], file, known)
                       /\ file.state.active \in IdsOf(file.profiles) \cup {Absent}
<1>1. me[p] \in CallRecord /\ Sound(me[p], file) /\ me[p] # Idle
  BY CallOf DEF Idle
<1> QED BY <1>1 DEF KeptInv, UsersOnly, AloneInv, ConfigInv, CallRecord

LEMMA WritingFields ==
    ASSUME NEW c \in CallRecord, NEW todo, NEW put, NEW then
    PROVE  /\ Writing(c, todo, put, then).pc = "write" /\ Writing(c, todo, put, then).todo = todo
           /\ Writing(c, todo, put, then).put = put /\ Writing(c, todo, put, then).then = then
           /\ Writing(c, todo, put, then).op = c.op /\ Writing(c, todo, put, then).seen = c.seen
           /\ SameReading(Writing(c, todo, put, then), c)
BY DEF Writing, CallRecord, SameReading

-----------------------------------------------------------------------------
(* ensure_initialized keeps what there is.                                 *)

LEMMA EnsureInstancesKeeps ==
    ASSUME ConfigInv, KeptInv, NEW p \in Procs, EnsureInstances(p)
    PROVE  KeptInv'
<1> DEFINE inst == Reconcile(file.instances)
           c == [me[p] EXCEPT !.inst = inst, !.pc = "drafts"]
           put == [NoFiles EXCEPT !.instances = inst]
           w == Writing(c, <<"instances">>, put, "drafts")
<1>1. /\ me[p].pc = "instances" /\ me[p] \in CallRecord /\ Heard(me[p], file) /\ p \in use.procs
      /\ UNCHANGED <<use, file, gone>> /\ file.instances \in InstanceFile
      /\ Become(p, c) \/ Become(p, w)
  <2>1. me[p].pc = "instances"
    BY DEF EnsureInstances, At
  <2> QED BY <2>1, Knows DEF EnsureInstances, Only, Files
<1>2. inst \in InstanceFile
  BY <1>1, ReconcileTyped
<1>3. \A i \in Present(file.instances) : inst[i] = file.instances[i] \/ PackageOf[i] \notin known
  BY <1>1 DEF Reconcile, Present, InstanceFile
<1>4. put.instances = inst
  BY DEF NoFiles
<1> HIDE DEF inst, put
<1>5. c \in CallRecord /\ c.pc = "drafts" /\ SameReading(c, me[p])
  BY <1>1, <1>2 DEF CallRecord, Labels, SameReading
<1> HIDE DEF c
<1>6. /\ w.pc = "write" /\ w.todo = <<"instances">> /\ w.put = put /\ w.then = "drafts"
      /\ SameReading(w, c)
  BY <1>5, WritingFields
<1> HIDE DEF w
<1>7. <<"instances">>[1] = "instances"
  OBVIOUS
<1>8. Heard(c, file) /\ Heard(w, file)
  BY <1>1, <1>5, <1>6, HeardSame
<1>9. Fresh(c, file, known)
  BY <1>5 DEF Fresh, Operating
<1>10. Fresh(w, file, known)
  BY <1>3, <1>4, <1>6, <1>7 DEF Fresh, Operating, WritesKeep
<1> QED BY <1>1, <1>8, <1>9, <1>10, KeptLocal

LEMMA EnsureDraftsKeeps ==
    ASSUME ConfigInv, KeptInv, NEW p \in Procs, EnsureDrafts(p)
    PROVE  KeptInv'
<1> DEFINE drafts == Resolved(me[p].inst, file.drafts, me[p].inst)
           c == [me[p] EXCEPT !.pc = "profiles"]
           put == [NoFiles EXCEPT !.drafts = drafts]
           w == Writing(me[p], <<"drafts">>, put, "profiles")
<1>1. /\ me[p].pc = "drafts" /\ me[p] \in CallRecord /\ Heard(me[p], file) /\ p \in use.procs
      /\ UNCHANGED <<use, file, gone>>
      /\ Become(p, c) \/ Become(p, w)
  <2>1. me[p].pc = "drafts"
    BY DEF EnsureDrafts, At
  <2> QED BY <2>1, Knows DEF EnsureDrafts, Only
<1> HIDE DEF drafts, put
<1>2. c.pc = "profiles" /\ SameReading(c, me[p])
  BY <1>1 DEF CallRecord, SameReading
<1> HIDE DEF c
<1>3. w.pc = "write" /\ w.todo = <<"drafts">> /\ SameReading(w, me[p])
  BY <1>1, WritingFields
<1> HIDE DEF w
<1>4. <<"drafts">>[1] = "drafts"
  OBVIOUS
<1>5. Heard(c, file) /\ Heard(w, file)
  BY <1>1, <1>2, <1>3, HeardSame
<1>6. Fresh(c, file, known)
  BY <1>2 DEF Fresh, Operating
<1>7. Fresh(w, file, known)
  BY <1>3, <1>4 DEF Fresh, Operating, WritesKeep
<1> QED BY <1>1, <1>5, <1>6, <1>7, KeptLocal

LEMMA RefreshedKeeps ==
    ASSUME ConfigInv, NEW c \in CallRecord
    PROVE  Keeps(Refreshed(c), file.profiles)
<1>1. /\ Refreshed(c) \in Seq(WholeProfiles) /\ Len(Refreshed(c)) = Len(file.profiles)
      /\ \A n \in 1..Len(file.profiles) :
           /\ Refreshed(c)[n].id = file.profiles[n].id
           /\ file.profiles[n].id # 0 => Refreshed(c)[n].instances = file.profiles[n].instances
  BY RefreshedWhole
<1>2. file.profiles \in Seq(WholeProfiles)
  BY DEF ConfigInv, Files
<1>3. DOMAIN Refreshed(c) = 1..Len(file.profiles) /\ DOMAIN file.profiles = 1..Len(file.profiles)
  BY <1>1, <1>2
<1> QED BY <1>1, <1>3 DEF Keeps

LEMMA EnsureProfilesKeeps ==
    ASSUME ConfigInv, KeptInv, NEW p \in Procs, EnsureProfiles(p)
    PROVE  KeptInv'
<1> DEFINE profiles == Refreshed(me[p])
           first == <<DefaultProfile(me[p].inst)>>
           new == [NoFiles EXCEPT !.profiles = first, !.state.active = 0]
           again == [NoFiles EXCEPT !.profiles = profiles]
           c1 == [me[p] EXCEPT !.again = FALSE]
           c2 == [me[p] EXCEPT !.pc = "state", !.seen.profiles = profiles]
           c3 == [me[p] EXCEPT !.seen.profiles = profiles]
           w1 == Writing(c1, <<"profiles", "state">>, new, AfterEnsure(me[p]))
           w3 == Writing(c3, <<"profiles">>, again, "state")
<1>1. /\ me[p].pc = "profiles" /\ me[p] \in CallRecord /\ Heard(me[p], file) /\ p \in use.procs
      /\ UNCHANGED <<use, file, gone>> /\ me[p].seen \in Files
      /\ Become(p, IF file.profiles = <<>> THEN w1 ELSE IF profiles = file.profiles THEN c2 ELSE w3)
  <2>1. me[p].pc = "profiles"
    BY DEF EnsureProfiles, At
  <2> QED BY <2>1, Knows DEF EnsureProfiles, Only, Refreshed
<1>2. Keeps(profiles, file.profiles) /\ profiles \in Seq(WholeProfiles)
  BY <1>1, RefreshedKeeps, RefreshedWhole
<1>3. new.profiles = first /\ new.state.active = 0 /\ 0 \in IdsOf(first)
  <2>1. new.profiles = first /\ new.state.active = 0
    BY DEF NoFiles, NoState
  <2>2. 1 \in DOMAIN first /\ first[1].id = 0
    BY DEF DefaultProfile
  <2> QED BY <2>1, <2>2 DEF IdsOf
<1>4. again.profiles = profiles
  BY DEF NoFiles
<1> HIDE DEF profiles, new, again, first
<1>5. c1 \in CallRecord
  BY <1>1 DEF CallRecord
<1>6. c1.op = me[p].op /\ c1.plan = me[p].plan /\ c1.during = me[p].during /\ c1.seen = me[p].seen
  BY <1>1 DEF CallRecord
<1>7. /\ c2.pc = "state" /\ c2.seen.profiles = profiles /\ SameReading(c2, me[p])
  BY <1>1 DEF CallRecord, SameReading, Files
<1>8. [me[p].seen EXCEPT !.profiles = profiles] \in Files
  BY <1>1, <1>2, FileEdited, NamesAre DEF Contents
<1>9. /\ c3 \in CallRecord /\ c3.seen.profiles = profiles /\ c3.op = me[p].op /\ c3.plan = me[p].plan
      /\ c3.during = me[p].during /\ c3.seen.state = me[p].seen.state
  BY <1>1, <1>8 DEF CallRecord, Files
<1> HIDE DEF c1, c2, c3
<1>10. /\ w1.pc = "write" /\ w1.todo = <<"profiles", "state">> /\ w1.put = new /\ w1.then = AfterEnsure(me[p])
       /\ SameReading(w1, c1)
  BY <1>5, WritingFields
<1>11. /\ w3.pc = "write" /\ w3.todo = <<"profiles">> /\ w3.put = again /\ w3.then = "state"
       /\ w3.seen = c3.seen /\ SameReading(w3, c3)
  BY <1>9, WritingFields
<1> HIDE DEF w1, w3
<1>12. SameReading(w1, me[p]) /\ SameReading(w3, me[p])
  BY <1>6, <1>9, <1>10, <1>11 DEF SameReading
<1>13. Heard(w1, file) /\ Heard(c2, file) /\ Heard(w3, file)
  BY <1>1, <1>7, <1>12, HeardSame
<1>14. AfterEnsure(me[p]) # "state"
  BY <1>1, AfterEnsureIs
<1>15. ASSUME file.profiles = <<>> PROVE Fresh(w1, file, known)
  <2>1. Keeps(new.profiles, file.profiles)
    BY <1>15 DEF Keeps
  <2>2. <<"profiles", "state">>[1] = "profiles"
    OBVIOUS
  <2> QED BY <1>3, <1>10, <1>14, <2>1, <2>2 DEF Fresh, Operating, WritesKeep
<1>16. ASSUME profiles = file.profiles PROVE Fresh(c2, file, known)
  BY <1>7, <1>16 DEF Fresh, Operating
<1>17. Fresh(w3, file, known)
  <2>1. <<"profiles">>[1] = "profiles" /\ <<"profiles">> # <<"profiles", "state">>
    OBVIOUS
  <2> QED BY <1>2, <1>4, <1>9, <1>11, <2>1 DEF Fresh, Operating, WritesKeep
<1> QED BY <1>1, <1>13, <1>15, <1>16, <1>17, KeptLocal

LEMMA AllPlanned ==
    ASSUME NEW c, c.plan = Plan(c.op.kind)
    PROVE  \A name \in Names : Wanted(c.op.kind, name) => InPlan(c, name)
BY DEF Wanted, InPlan

LEMMA EnsureStateKeeps ==
    ASSUME ConfigInv, KeptInv, NEW p \in Procs, EnsureState(p)
    PROVE  KeptInv'
<1> DEFINE c == [me[p] EXCEPT !.again = FALSE]
           profiles == me[p].seen.profiles
           next == AfterEnsure(me[p])
           d == [c EXCEPT !.pc = next]
           id == profiles[Len(profiles)].id
           put == [NoFiles EXCEPT !.state.active = id]
           w == Writing(c, <<"state">>, put, next)
<1>1. /\ me[p].pc = "state" /\ me[p] \in CallRecord /\ Heard(me[p], file) /\ p \in use.procs
      /\ UNCHANGED <<use, file, gone>> /\ me[p].seen \in Files /\ Sound(me[p], file)
      /\ Alone => file.state.active \in IdsOf(file.profiles) \cup {Absent} /\ profiles = file.profiles
      /\ Become(p, IF file.state.active = Absent THEN w ELSE IF next = "idle" THEN Idle ELSE d)
  <2>1. me[p].pc = "state"
    BY DEF EnsureState, At
  <2> QED BY <2>1, Knows DEF EnsureState, Only, Fresh
<1>2. profiles # <<>> /\ profiles \in Seq(WholeProfiles)
  BY <1>1 DEF Sound, Planned, Files
<1>3. id \in IdsOf(profiles)
  <2>1. Len(profiles) \in DOMAIN profiles
    BY <1>2
  <2> QED BY <2>1 DEF IdsOf
<1>4. put.state.active = id
  BY DEF NoFiles, NoState
<1>5. next \in {"instances", "idle", "read"} /\ next \in Labels
  BY <1>1, AfterEnsureIs
<1> HIDE DEF id, put, next
<1>6. c \in CallRecord /\ SameReading(c, me[p])
  BY <1>1 DEF CallRecord, SameReading
<1> HIDE DEF c
<1>7. d.pc = next /\ SameReading(d, me[p])
  BY <1>5, <1>6 DEF CallRecord, SameReading
<1> HIDE DEF d
<1>8. w.pc = "write" /\ w.todo = <<"state">> /\ w.put = put /\ SameReading(w, c)
  BY <1>6, WritingFields
<1> HIDE DEF w
<1>9. Heard(d, file) /\ Heard(w, file)
  BY <1>1, <1>6, <1>7, <1>8, HeardSame
<1>10. ASSUME Alone PROVE Fresh(w, file, known)
  <2>1. <<"state">>[1] = "state"
    OBVIOUS
  <2> QED BY <1>1, <1>3, <1>4, <1>8, <1>10, <2>1 DEF Fresh, Operating, WritesKeep
<1>11. ASSUME Alone, file.state.active # Absent PROVE Fresh(d, file, known)
  <2>1. d.op.kind # "import" => d.plan = Plan(d.op.kind)
    BY <1>1, <1>7 DEF Sound, Planned, Ensuring, SameReading
  <2>2. Operating(d) => \A name \in Names : Wanted(d.op.kind, name) => InPlan(d, name)
    BY <2>1, AllPlanned DEF Operating
  <2>3. file.state.active \in IdsOf(file.profiles)
    BY <1>1, <1>11
  <2> QED BY <1>5, <1>7, <2>2, <2>3 DEF Fresh
<1> QED BY <1>1, <1>9, <1>10, <1>11, KeptLocal

-----------------------------------------------------------------------------
(* Reads and decisions keep what there is.                                 *)

LEMMA ReadKeeps ==
    ASSUME ConfigInv, KeptInv, NEW p \in Procs, Read(p)
    PROVE  KeptInv'
<1> DEFINE c == AfterRead(me[p])
<1>1. /\ me[p].pc = "read" /\ me[p] \in CallRecord /\ Become(p, c) /\ UNCHANGED <<use, file, gone>>
      /\ c.op = me[p].op /\ c.during = me[p].during /\ c.pc \in {"decide", "read"}
  BY ReadIs
<1>2. /\ \A name \in Names : InPlan(me[p], name) => InPlan(c, name) \/ c.seen[name] = file[name]
      /\ \A name \in Names : c.seen[name] = me[p].seen[name] \/ c.seen[name] = file[name]
  BY ReadIs
<1> HIDE DEF c
<1>3. Heard(me[p], file) /\ p \in use.procs /\ (Alone => Fresh(me[p], file, known))
  BY <1>1, Knows
<1>4. Heard(c, file)
  <2>1. InPlan(me[p], "state") => InPlan(c, "state") \/ c.seen.state = file.state
    BY <1>2, NamesAre
  <2>2. c.seen.state = me[p].seen.state \/ c.seen.state = file.state
    BY <1>2, NamesAre
  <2> QED BY <1>1, <1>3, <2>1, <2>2 DEF Heard
<1>5. ASSUME Alone PROVE Fresh(c, file, known)
  <2>1. ASSUME Operating(c) PROVE Operating(me[p])
    BY <1>1, <2>1 DEF Operating
  <2>2. ASSUME Operating(c), NEW name \in Names, Wanted(c.op.kind, name)
        PROVE  InPlan(c, name) \/ c.seen[name] = file[name]
    <3>1. InPlan(me[p], name) \/ me[p].seen[name] = file[name]
      BY <1>1, <1>3, <1>5, <2>1, <2>2 DEF Fresh
    <3> QED BY <1>2, <3>1
  <2>3. Operating(c) => file.state.active \in IdsOf(file.profiles)
    BY <1>3, <1>5, <2>1 DEF Fresh
  <2> QED BY <1>1, <2>2, <2>3 DEF Fresh
<1> QED BY <1>1, <1>3, <1>4, <1>5, KeptLocal

\* What the only process has read is what is on file.
LEMMA DecidingFresh ==
    ASSUME ConfigInv, KeptInv, NEW p \in Procs, me[p].pc = "decide"
    PROVE  /\ me[p] \in CallRecord /\ Heard(me[p], file) /\ p \in use.procs /\ me[p].seen \in Files
           /\ ~InPlan(me[p], "state") /\ file \in Files
           /\ Alone /\ me[p].op.kind # "import" =>
                /\ file.state.active \in IdsOf(file.profiles)
                /\ \A name \in Names : Wanted(me[p].op.kind, name) => me[p].seen[name] = file[name]
<1>1. /\ me[p] \in CallRecord /\ Heard(me[p], file) /\ p \in use.procs /\ me[p].seen \in Files
      /\ file \in Files /\ Sound(me[p], file) /\ (Alone => Fresh(me[p], file, known))
  BY Knows
<1>2. me[p].plan = <<>>
  BY <1>1 DEF Sound, Planned
<1>3. \A name : ~InPlan(me[p], name)
  BY <1>2 DEF InPlan
<1> QED BY <1>1, <1>3 DEF Fresh, Operating

LEMMA WantedAre ==
    /\ \A kind \in {"save", "enable", "delete"} : Wanted(kind, "instances")
    /\ Wanted("publish", "profiles") /\ Wanted("override", "profiles") /\ Wanted("override", "instances")
    /\ Wanted("rollback", "profiles") /\ Wanted("query", "profiles") /\ Wanted("query", "state")
<1>1. \A kind \in {"save", "enable", "delete"} : Wanted(kind, "instances")
  <2> SUFFICES ASSUME NEW kind \in {"save", "enable", "delete"} PROVE Wanted(kind, "instances")
    OBVIOUS
  <2>1. Plan(kind) = <<"instances">>
    BY DEF Plan
  <2>2. 1 \in 1..Len(Plan(kind)) /\ Plan(kind)[1] = "instances"
    BY <2>1
  <2> QED BY <2>2 DEF Wanted
<1>2. Wanted("publish", "profiles")
  <2>1. Plan("publish") = <<"profiles", "state", "instances", "drafts">>
    BY DEF Plan
  <2>2. 1 \in 1..Len(Plan("publish")) /\ Plan("publish")[1] = "profiles"
    BY <2>1
  <2> QED BY <2>2 DEF Wanted
<1>3. Wanted("override", "profiles") /\ Wanted("override", "instances")
  <2>1. Plan("override") = <<"profiles", "state", "instances">>
    BY DEF Plan
  <2>2. /\ 1 \in 1..Len(Plan("override")) /\ Plan("override")[1] = "profiles"
        /\ 3 \in 1..Len(Plan("override")) /\ Plan("override")[3] = "instances"
    BY <2>1
  <2> QED BY <2>2 DEF Wanted
<1>4. \A kind \in {"rollback", "query"} : Wanted(kind, "profiles") /\ Wanted(kind, "state")
  <2> SUFFICES ASSUME NEW kind \in {"rollback", "query"} PROVE Wanted(kind, "profiles") /\ Wanted(kind, "state")
    OBVIOUS
  <2>1. Plan(kind) = <<"profiles", "state">>
    BY DEF Plan
  <2>2. /\ 1 \in 1..Len(Plan(kind)) /\ Plan(kind)[1] = "profiles"
        /\ 2 \in 1..Len(Plan(kind)) /\ Plan(kind)[2] = "state"
    BY <2>1
  <2> QED BY <2>2 DEF Wanted
<1> QED BY <1>1, <1>2, <1>3, <1>4

LEMMA DecideInstanceKeeps ==
    ASSUME ConfigInv, KeptInv, NEW p \in Procs, DecideInstance(p)
    PROVE  KeptInv'
<1> DEFINE inst == me[p].seen.instances
           op == me[p].op
           new(value) == [inst EXCEPT ![op.instance] = value]
           To(value) == [NoFiles EXCEPT !.instances = new(value)]
<1>1. me[p].pc = "decide" /\ op.kind \in {"save", "enable", "delete"} /\ UNCHANGED <<use, file, gone>>
  BY DEF DecideInstance, Decides, At, Only
<1>2. /\ me[p] \in CallRecord /\ Heard(me[p], file) /\ p \in use.procs /\ inst \in InstanceFile
      /\ (Alone => inst = file.instances)
  BY <1>1, DecidingFresh, WantedAre, NamesAre DEF Files
<1>3. PICK value : Become(p, Idle) \/ Become(p, Writing(me[p], <<"instances">>, To(value), "idle"))
  BY DEF DecideInstance, Decides, WriteOrFail
<1> DEFINE w == Writing(me[p], <<"instances">>, To(value), "idle")
<1>4. To(value).instances = new(value)
  BY DEF NoFiles
<1>5. \A i \in Present(inst) : new(value)[i] = inst[i] \/ i = op.instance
  BY <1>2 DEF InstanceFile, Present
<1> HIDE DEF To, new
<1>6. w.pc = "write" /\ w.todo = <<"instances">> /\ w.put = To(value) /\ w.op = op /\ SameReading(w, me[p])
  BY <1>2, WritingFields
<1> HIDE DEF w
<1>7. Heard(w, file)
  BY <1>2, <1>6, HeardSame
<1>8. ASSUME Alone PROVE Fresh(w, file, known)
  <2>1. <<"instances">>[1] = "instances"
    OBVIOUS
  <2>2. \A i \in Present(file.instances) : w.put.instances[i] = file.instances[i] \/ Edits(w, i)
    BY <1>1, <1>2, <1>4, <1>5, <1>6, <1>8 DEF Edits
  <2> QED BY <1>6, <2>1, <2>2 DEF Fresh, Operating, WritesKeep
<1> QED BY <1>1, <1>2, <1>3, <1>7, <1>8, KeptLocal DEF w

\* A write of files that nothing is said of.
LEMMA OtherWrite ==
    ASSUME NEW c \in CallRecord, NEW put, NEW then, NEW name \in {"drafts", "log", "imports"}, Heard(c, file)
    PROVE  /\ Heard(Writing(c, <<name>>, put, then), file)
           /\ Fresh(Writing(c, <<name>>, put, then), file, known)
<1> DEFINE w == Writing(c, <<name>>, put, then)
<1>1. w.pc = "write" /\ w.todo = <<name>> /\ SameReading(w, c)
  BY WritingFields
<1>2. <<name>>[1] = name
  OBVIOUS
<1> HIDE DEF w
<1>3. Heard(w, file)
  BY <1>1, HeardSame
<1>4. Fresh(w, file, known)
  BY <1>1, <1>2 DEF Fresh, Operating, WritesKeep
<1> QED BY <1>3, <1>4 DEF w

LEMMA DecideDraftKeeps ==
    ASSUME ConfigInv, KeptInv, NEW p \in Procs, DecideDraft(p)
    PROVE  KeptInv'
<1>1. me[p].pc = "decide" /\ UNCHANGED <<use, file, gone>>
  BY DEF DecideDraft, Decides, At, Only
<1>2. PICK put : Become(p, Writing(me[p], <<"drafts">>, put, "idle")) \/ Become(p, Idle)
  BY DEF DecideDraft, WriteOrFail
<1>3. me[p] \in CallRecord /\ Heard(me[p], file) /\ p \in use.procs
  BY <1>1, DecidingFresh
<1>4. /\ Heard(Writing(me[p], <<"drafts">>, put, "idle"), file)
      /\ Fresh(Writing(me[p], <<"drafts">>, put, "idle"), file, known)
  BY <1>3, OtherWrite
<1> QED BY <1>1, <1>2, <1>3, <1>4, KeptLocal

LEMMA DecideImportKeeps ==
    ASSUME ConfigInv, KeptInv, NEW p \in Procs, DecideImport(p)
    PROVE  KeptInv'
<1>1. me[p].pc = "decide" /\ UNCHANGED <<use, file, gone>>
  BY DEF DecideImport, Decides, At, Only
<1>2. PICK put : Become(p, Writing(me[p], <<"imports">>, put, "instances"))
  BY DEF DecideImport
<1>3. me[p] \in CallRecord /\ Heard(me[p], file) /\ p \in use.procs
  BY <1>1, DecidingFresh
<1>4. /\ Heard(Writing(me[p], <<"imports">>, put, "instances"), file)
      /\ Fresh(Writing(me[p], <<"imports">>, put, "instances"), file, known)
  BY <1>3, OtherWrite
<1> QED BY <1>1, <1>2, <1>3, <1>4, KeptLocal

LEMMA ReadLogKeeps ==
    ASSUME ConfigInv, KeptInv, NEW p \in Procs, ReadLog(p)
    PROVE  KeptInv'
<1>1. me[p].pc = "log" /\ UNCHANGED <<use, file, gone>>
  BY DEF ReadLog, At, Only
<1>2. PICK put : Become(p, Writing(me[p], <<"log">>, put, "idle"))
  BY DEF ReadLog
<1>3. me[p] \in CallRecord /\ Heard(me[p], file) /\ p \in use.procs
  BY <1>1, Knows
<1>4. /\ Heard(Writing(me[p], <<"log">>, put, "idle"), file)
      /\ Fresh(Writing(me[p], <<"log">>, put, "idle"), file, known)
  BY <1>3, OtherWrite
<1> QED BY <1>1, <1>2, <1>3, <1>4, KeptLocal

\* A profile put behind the others.
LEMMA AppendKeeps ==
    ASSUME NEW profiles \in Seq(WholeProfiles), NEW profile \in Profile
    PROVE  /\ Keeps(Append(profiles, profile), profiles)
           /\ profile.id \in IdsOf(Append(profiles, profile))
<1> DEFINE new == Append(profiles, profile)
<1>1. /\ DOMAIN profiles = 1..Len(profiles) /\ Len(profiles) \in Nat
      /\ DOMAIN new = 1..Len(profiles) + 1
      /\ \A n \in 1..Len(profiles) : new[n] = profiles[n]
      /\ new[Len(profiles) + 1] = profile
  OBVIOUS
<1> HIDE DEF new
<1>2. Keeps(new, profiles)
  BY <1>1 DEF Keeps
<1>3. profile.id \in IdsOf(new)
  BY <1>1 DEF IdsOf
<1> QED BY <1>2, <1>3 DEF new

LEMMA NewProfileKeeps ==
    ASSUME NEW c \in CallRecord, Heard(c, file), NEW profile \in Profile, NEW state, NEW then \in {"idle", "log"},
           state.active = profile.id, c.seen.profiles \in Seq(WholeProfiles),
           Alone => c.seen.profiles = file.profiles, NEW from,
           NEW w, \/ w = Writing(c, <<"profiles", "state">>, NewProfile(c.seen, profile, state), then)
                  \/ w = [Writing(c, <<"profiles", "state">>, NewProfile(c.seen, profile, state), then) EXCEPT !.from = from]
    PROVE  Heard(w, file) /\ (Alone => Fresh(w, file, known))
<1> DEFINE put == NewProfile(c.seen, profile, state)
           new == Append(c.seen.profiles, profile)
<1>1. put.profiles = new /\ put.state = state
  BY DEF NewProfile, NoFiles
<1>2. Keeps(new, c.seen.profiles) /\ profile.id \in IdsOf(new)
  BY AppendKeeps
<1> HIDE DEF put, new
<1> DEFINE v == Writing(c, <<"profiles", "state">>, put, then)
<1>3. v.pc = "write" /\ v.todo = <<"profiles", "state">> /\ v.put = put /\ v.then = then /\ SameReading(v, c)
  BY WritingFields
<1>4. /\ [v EXCEPT !.from = from].pc = "write" /\ [v EXCEPT !.from = from].todo = <<"profiles", "state">>
      /\ [v EXCEPT !.from = from].put = put /\ [v EXCEPT !.from = from].then = then
      /\ SameReading([v EXCEPT !.from = from], c)
  BY DEF Writing, CallRecord, SameReading
<1>5. w.pc = "write" /\ w.todo = <<"profiles", "state">> /\ w.put = put /\ w.then = then /\ SameReading(w, c)
  BY <1>3, <1>4 DEF put
<1>6. Heard(w, file)
  BY <1>5, HeardSame
<1>7. ASSUME Alone PROVE Fresh(w, file, known)
  <2>1. <<"profiles", "state">>[1] = "profiles"
    OBVIOUS
  <2> QED BY <1>1, <1>2, <1>5, <1>7, <2>1 DEF Fresh, Operating, WritesKeep
<1> QED BY <1>6, <1>7

LEMMA DecidePublishKeeps ==
    ASSUME ConfigInv, KeptInv, NEW p \in Procs, DecidePublish(p)
    PROVE  KeptInv'
<1> DEFINE seen == me[p].seen
           profile == [id |-> nextId, instances |-> seen.instances, policies |-> seen.drafts]
           state == Follow(seen.state, seen.state.active, nextId)
           w == Writing(me[p], <<"profiles", "state">>, NewProfile(seen, profile, state), "idle")
<1>1. /\ me[p].pc = "decide" /\ me[p].op.kind = "publish" /\ UNCHANGED <<use, file, gone>>
      /\ Become(p, w) \/ Become(p, Idle)
  BY DEF DecidePublish, Decides, At, WriteOrFail, NewProfile
<1>2. /\ me[p] \in CallRecord /\ Heard(me[p], file) /\ p \in use.procs /\ seen \in Files
      /\ Alone => seen.profiles = file.profiles
  BY <1>1, DecidingFresh, WantedAre, NamesAre
<1>3. profile \in Profile /\ profile.id = nextId /\ state.active = nextId /\ seen.profiles \in Seq(WholeProfiles)
  BY <1>2 DEF Profile, Files, ConfigInv, Follow
<1> HIDE DEF profile, state
<1>4. Heard(w, file) /\ (Alone => Fresh(w, file, known))
  BY <1>2, <1>3, NewProfileKeeps
<1> QED BY <1>1, <1>2, <1>4, KeptLocal

LEMMA DecideOverrideEndKeeps ==
    ASSUME ConfigInv, KeptInv, NEW p \in Procs, DecideOverrideEnd(p)
    PROVE  KeptInv'
<1> DEFINE seen == me[p].seen
           op == me[p].op
           policies == [me[p].active.policies EXCEPT ![op.contract] = op.sources]
           profile == [id |-> nextId, instances |-> me[p].inst, policies |-> policies]
           state == Follow(seen.state, me[p].active.id, nextId)
           from == <<me[p].active.id, nextId>>
           w == [Writing(me[p], <<"profiles", "state">>, NewProfile(seen, profile, state), "log") EXCEPT !.from = from]
<1>1. /\ me[p].pc = "decide" /\ op.kind = "override" /\ me[p].active # Absent /\ UNCHANGED <<use, file, gone>>
      /\ Become(p, w) \/ Become(p, Idle)
  BY DEF DecideOverrideEnd, Decides, At, NewProfile
<1>2. /\ me[p] \in CallRecord /\ Heard(me[p], file) /\ p \in use.procs /\ seen \in Files
      /\ Alone => seen.profiles = file.profiles
  BY <1>1, DecidingFresh, WantedAre, NamesAre
<1>3. /\ me[p].active \in WholeProfiles /\ me[p].inst \in InstanceFile /\ op.contract \in Contracts
      /\ op.sources \in SUBSET Instances /\ nextId \in Nat
  BY <1>1, <1>2, OperationsTyped DEF CallRecord, ConfigInv
<1>4. policies \in PolicyFile
  BY <1>3 DEF PolicyFile, WholeProfiles, Profile
<1> HIDE DEF policies
<1>5. profile \in Profile /\ profile.id = nextId /\ state.active = nextId /\ seen.profiles \in Seq(WholeProfiles)
  BY <1>2, <1>3, <1>4 DEF Profile, Files, Follow
<1> HIDE DEF profile, state, from
<1>6. Heard(w, file) /\ (Alone => Fresh(w, file, known))
  BY <1>2, <1>5, NewProfileKeeps
<1> QED BY <1>1, <1>2, <1>6, KeptLocal

LEMMA DecideQueryKeeps ==
    ASSUME ConfigInv, KeptInv, NEW p \in Procs, DecideQuery(p)
    PROVE  KeptInv'
<1> DEFINE active == Active(me[p].seen)
           c == [me[p] EXCEPT !.active = active, !.pc = "answer"]
<1>1. /\ me[p].pc = "decide" /\ me[p].op.kind = "query" /\ UNCHANGED <<use, file, gone>> /\ Become(p, c)
  BY DEF DecideQuery, Decides, At, Only
<1>2. /\ me[p] \in CallRecord /\ Heard(me[p], file) /\ p \in use.procs /\ ~InPlan(me[p], "state")
      /\ Alone /\ me[p].op.kind # "import" =>
                /\ file.state.active \in IdsOf(file.profiles)
                /\ \A name \in Names : Wanted(me[p].op.kind, name) => me[p].seen[name] = file[name]
  BY <1>1, DecidingFresh
<1> HIDE DEF active
<1>3. /\ c.pc = "answer" /\ c.op = me[p].op /\ c.plan = me[p].plan /\ c.seen = me[p].seen /\ c.active = active
      /\ c.during = me[p].during
  BY <1>2 DEF CallRecord
<1> HIDE DEF c
<1>4. Heard(c, file)
  BY <1>2, <1>3 DEF Heard, InPlan, active
<1>5. ASSUME Alone PROVE Fresh(c, file, known)
  BY <1>1, <1>2, <1>3, <1>5 DEF Fresh
<1> QED BY <1>1, <1>2, <1>4, <1>5, KeptLocal

LEMMA DecideOverrideKeeps ==
    ASSUME ConfigInv, KeptInv, NEW p \in Procs, DecideOverride(p)
    PROVE  KeptInv'
<1> DEFINE plan == <<"profiles", "state">>
<1>1. /\ me[p].pc = "decide" /\ me[p].op.kind = "override" /\ UNCHANGED <<use, file, gone>>
  BY DEF DecideOverride, Decides, At, Only
<1>2. PICK active, inst :
         \/ Become(p, [me[p] EXCEPT !.pc = "read", !.plan = plan, !.active = active, !.inst = inst])
         \/ Become(p, Idle)
  BY DEF DecideOverride
<1> DEFINE c == [me[p] EXCEPT !.pc = "read", !.plan = plan, !.active = active, !.inst = inst]
<1>3. /\ me[p] \in CallRecord /\ p \in use.procs
      /\ Alone /\ me[p].op.kind # "import" =>
                /\ file.state.active \in IdsOf(file.profiles)
                /\ \A name \in Names : Wanted(me[p].op.kind, name) => me[p].seen[name] = file[name]
  BY <1>1, DecidingFresh
<1>4. c.pc = "read" /\ c.op = me[p].op /\ c.seen = me[p].seen
  BY <1>3 DEF CallRecord
<1> HIDE DEF c
<1>5. Heard(c, file)
  BY <1>1, <1>4 DEF Heard
<1>6. ASSUME Alone PROVE Fresh(c, file, known)
  BY <1>1, <1>3, <1>4, <1>6 DEF Fresh
<1> QED BY <1>1, <1>2, <1>3, <1>5, <1>6, KeptLocal DEF c

LEMMA DecideRollbackKeeps ==
    ASSUME ConfigInv, KeptInv, NEW p \in Procs, DecideRollback(p)
    PROVE  KeptInv'
<1> DEFINE seen == me[p].seen
           id == me[p].op.id
           put == [NoFiles EXCEPT !.state = Follow(seen.state, seen.state.active, id)]
           from == <<seen.state.active, id>>
           v == Writing(me[p], <<"state">>, put, "log")
           w == [v EXCEPT !.from = from]
<1>1. /\ me[p].pc = "decide" /\ me[p].op.kind = "rollback" /\ UNCHANGED <<use, file, gone>>
      /\ (id \in IdsOf(seen.profiles) /\ Become(p, w)) \/ Become(p, Idle)
  BY DEF DecideRollback, Decides, At, Only
<1>2. /\ me[p] \in CallRecord /\ Heard(me[p], file) /\ p \in use.procs
      /\ Alone => seen.profiles = file.profiles
  BY <1>1, DecidingFresh, WantedAre, NamesAre
<1>3. put.state.active = id
  BY DEF NoFiles, Follow
<1> HIDE DEF put, from
<1>4. w.pc = "write" /\ w.todo = <<"state">> /\ w.put = put /\ SameReading(w, me[p])
  BY <1>2 DEF Writing, CallRecord, SameReading
<1> HIDE DEF w
<1>5. Heard(w, file)
  BY <1>2, <1>4, HeardSame
<1>6. ASSUME Alone, id \in IdsOf(seen.profiles) PROVE Fresh(w, file, known)
  <2>1. <<"state">>[1] = "state"
    OBVIOUS
  <2> QED BY <1>2, <1>3, <1>4, <1>6, <2>1 DEF Fresh, Operating, WritesKeep
<1> QED BY <1>1, <1>2, <1>5, <1>6, KeptLocal

LEMMA BeginKeeps ==
    ASSUME ConfigInv, KeptInv, NEW p \in Procs, Begin(p)
    PROVE  KeptInv'
<1>1. PICK op \in Calls : Become(p, NewCall(op))
  BY DEF Begin, Become
<1>2. p \in use.procs /\ UNCHANGED <<use, file, gone>> /\ op \in Operations
  BY CallsTyped DEF Begin, ConfigInv
<1> DEFINE c == NewCall(op)
<1>3. /\ c.pc = (IF op.kind = "import" THEN "read" ELSE "instances") /\ c.op = op /\ c.plan = Plan(op.kind)
      /\ c.during = IF op.kind = "query" THEN {file.state.active} ELSE {}
  BY DEF NewCall
<1> HIDE DEF c
<1>4. Heard(c, file)
  <2>1. op.kind = "query" => InPlan(c, "state")
    BY <1>3, WantedAre DEF Wanted, InPlan
  <2> QED BY <1>3, <2>1 DEF Heard
<1>5. Fresh(c, file, known)
  BY <1>3 DEF Fresh, Operating
<1> QED BY <1>1, <1>2, <1>4, <1>5, KeptLocal DEF c

-----------------------------------------------------------------------------
(* Writes keep what there is.                                              *)

\* The call after a write, and what it was writing.
LEMMA WrittenIs ==
    ASSUME NEW c \in CallRecord, c.pc = "write", ToWrite(c), Written(c) # Idle
    PROVE  /\ Written(c).op = c.op /\ Written(c).plan = c.plan /\ Written(c).seen = c.seen
           /\ Written(c).during = c.during
           /\ \/ /\ Written(c).pc = "write" /\ Written(c).todo = <<"state">> /\ Written(c).put = c.put
                 /\ c.todo = <<"profiles", "state">> /\ c.todo[1] = "profiles"
              \/ /\ Written(c).pc = c.then /\ c.then \in {"instances", "drafts", "profiles", "state", "read", "log"}
                 /\ c.then = "state" => c.todo[1] = "profiles"
                 /\ c.then = "read" => c.todo[1] = "state" /\ c.op.kind # "import"
<1>1. /\ c.todo \in Writes /\ Head(c.todo) = c.todo[1] /\ c.todo[1] \in Names
      /\ Len(c.todo) > 1 => c.todo = <<"profiles", "state">> /\ Tail(c.todo) = <<"state">>
      /\ Len(c.todo) <= 1 => c.todo = <<c.todo[1]>>
  BY WrittenFacts
<1>2. Len(c.todo) \in Nat
  BY DEF CallRecord
<1>3. CASE Len(c.todo) > 1
  <2> DEFINE d == [c EXCEPT !.todo = Tail(@)]
  <2>1. Written(c) = d
    BY <1>3 DEF Written
  <2>2. /\ d.pc = "write" /\ d.todo = Tail(c.todo) /\ d.put = c.put /\ d.op = c.op
        /\ d.plan = c.plan /\ d.seen = c.seen /\ d.during = c.during
    BY DEF CallRecord
  <2>3. <<"profiles", "state">>[1] = "profiles"
    OBVIOUS
  <2> HIDE DEF d
  <2> QED BY <1>1, <1>3, <2>1, <2>2, <2>3
<1>4. CASE Len(c.todo) <= 1
  <2> DEFINE d == [c EXCEPT !.pc = c.then, !.todo = <<>>, !.put = NoFiles]
  <2>1. c.then # "idle" /\ Written(c) = d
    BY <1>2, <1>4 DEF Written
  <2>2. d.pc = c.then /\ d.op = c.op /\ d.plan = c.plan /\ d.seen = c.seen /\ d.during = c.during
    BY DEF CallRecord
  <2> HIDE DEF d
  <2>3. c.then \in {"instances", "drafts", "profiles", "state", "read", "log"}
    BY <2>1 DEF ToWrite
  <2>4. c.todo # <<"profiles", "state">>
    BY <1>4
  <2>5. /\ c.then = "state" => c.todo = <<"profiles">>
        /\ c.then = "read" => c.todo = <<"state">> /\ c.op.kind # "import"
    BY <2>4 DEF ToWrite
  <2>6. <<"profiles">>[1] = "profiles" /\ <<"state">>[1] = "state"
    OBVIOUS
  <2> QED BY <2>1, <2>2, <2>3, <2>5, <2>6
<1> QED BY <1>2, <1>3, <1>4

LEMMA KeptIds ==
    ASSUME NEW new, NEW old, Keeps(new, old)
    PROVE  \A id \in IdsOf(old) : id \in IdsOf(new)
BY DEF Keeps, IdsOf

\* What the only process writes leaves the state naming a profile, and leaves
\* the process with what it knows.
LEMMA WrittenFresh ==
    ASSUME NEW c \in CallRecord, c.pc = "write", NEW f \in Files, Sound(c, f),
           NEW packages, NEW packagesAfter, Fresh(c, f, packages), f.state.active \in IdsOf(f.profiles) \cup {Absent},
           NEW g, g = [f EXCEPT ![Head(c.todo)] = c.put[Head(c.todo)]]
    PROVE  /\ g.state.active \in IdsOf(g.profiles) \cup {Absent}
           /\ Written(c) # Idle => Fresh(Written(c), g, packagesAfter)
<1> DEFINE name == Head(c.todo)
           d == Written(c)
<1>1. name = c.todo[1] /\ name \in Names /\ ToWrite(c) /\ Planned(c) /\ c.put \in Files
  BY WrittenFacts DEF Sound, CallRecord
<1>2. g[name] = c.put[name] /\ \A other \in Names \ {name} : g[other] = f[other]
  <2>1. c.put[name] \in Contents[name]
    BY <1>1, FileParts
  <2>2. f \in Files /\ name \in Names /\ g = [f EXCEPT ![name] = c.put[name]]
    BY <1>1
  <2> HIDE DEF name
  <2> QED BY <2>1, <2>2, FileEdited
<1>3. WritesKeep(c, f, packages)
  BY DEF Fresh
<1> HIDE DEF name
<1>4. name = "profiles" => Keeps(g.profiles, f.profiles) /\ g.state = f.state
  BY <1>1, <1>2, <1>3, NamesAre DEF WritesKeep
<1>5. name = "state" => g.state.active \in IdsOf(g.profiles)
  BY <1>1, <1>2, <1>3, NamesAre DEF WritesKeep
<1>6. name \notin {"profiles", "state"} => g.profiles = f.profiles /\ g.state = f.state
  BY <1>2, NamesAre
<1>7. g.state.active \in IdsOf(g.profiles) \cup {Absent}
  BY <1>4, <1>5, <1>6, KeptIds
<1>8. ASSUME d # Idle PROVE Fresh(d, g, packagesAfter)
  <2>1. /\ d.op = c.op /\ d.plan = c.plan /\ d.seen = c.seen
        /\ \/ /\ d.pc = "write" /\ d.todo = <<"state">> /\ d.put = c.put
              /\ c.todo = <<"profiles", "state">> /\ c.todo[1] = "profiles"
           \/ /\ d.pc = c.then /\ c.then \in {"instances", "drafts", "profiles", "state", "read", "log"}
              /\ c.then = "state" => c.todo[1] = "profiles"
              /\ c.then = "read" => c.todo[1] = "state" /\ c.op.kind # "import"
    BY <1>1, <1>8, WrittenIs
  <2> HIDE DEF d
  <2>2. CASE d.pc = "write" /\ d.todo = <<"state">> /\ d.put = c.put
             /\ c.todo = <<"profiles", "state">> /\ c.todo[1] = "profiles"
    <3>1. c.put.state.active \in IdsOf(c.put.profiles)
      BY <1>3, <2>2 DEF WritesKeep
    <3>2. g.profiles = c.put.profiles
      BY <1>1, <1>2, <2>2, NamesAre
    <3>3. <<"state">>[1] = "state"
      OBVIOUS
    <3> QED BY <2>2, <3>1, <3>2, <3>3 DEF Fresh, Operating, WritesKeep
  <2>3. CASE d.pc = "read" /\ c.then = "read" /\ c.todo[1] = "state" /\ c.op.kind # "import"
    <3>1. d.plan = Plan(d.op.kind)
      BY <1>1, <2>1, <2>3 DEF Planned, Ensuring
    <3> QED BY <1>1, <1>5, <2>3, <3>1, AllPlanned DEF Fresh
  <2>4. CASE d.pc = "state" /\ c.then = "state" /\ c.todo[1] = "profiles"
    <3>1. g.profiles = c.seen.profiles
      BY <1>1, <1>2, <1>3, <2>4, NamesAre DEF WritesKeep
    <3> QED BY <2>1, <2>4, <3>1 DEF Fresh, Operating
  <2>5. CASE d.pc \in {"instances", "drafts", "profiles", "log"}
    BY <2>5 DEF Fresh, Operating
  <2> QED BY <2>1, <2>2, <2>3, <2>4, <2>5
<1> QED BY <1>7, <1>8

\* A query that is told of the new active profile.
LEMMA HeardTold ==
    ASSUME NEW c \in CallRecord, NEW f, NEW g, Heard(c, f), NEW d,
           \/ d = c /\ (g.state = f.state \/ c.op.kind # "query")
           \/ d = [c EXCEPT !.during = @ \cup {g.state.active}]
    PROVE  Heard(d, g)
<1>1. CASE d = c /\ (g.state = f.state \/ c.op.kind # "query")
  BY <1>1 DEF Heard
<1>2. CASE d = [c EXCEPT !.during = @ \cup {g.state.active}]
  <2>1. /\ d.op = c.op /\ d.plan = c.plan /\ d.seen = c.seen /\ d.pc = c.pc /\ d.active = c.active
        /\ d.during = c.during \cup {g.state.active}
    BY <1>2 DEF CallRecord
  <2> QED BY <2>1 DEF Heard, InPlan
<1> QED BY <1>1, <1>2

LEMMA FreshTold ==
    ASSUME NEW c \in CallRecord, NEW f, NEW packages, Fresh(c, f, packages), NEW x
    PROVE  Fresh([c EXCEPT !.during = @ \cup x], f, packages)
<1> DEFINE d == [c EXCEPT !.during = @ \cup x]
<1>1. /\ d.op = c.op /\ d.plan = c.plan /\ d.seen = c.seen /\ d.pc = c.pc /\ d.todo = c.todo
      /\ d.put = c.put /\ d.then = c.then
  BY DEF CallRecord
<1> HIDE DEF d
<1>2. Fresh(d, f, packages)
  BY <1>1 DEF Fresh, Operating, InPlan, WritesKeep, Edits
<1> QED BY <1>2 DEF d

LEMMA WriteKeeps ==
    ASSUME ConfigInv, KeptInv, NEW p \in Procs, Write(p)
    PROVE  KeptInv'
<1> DEFINE told(q) == Head(me[p].todo) = "state" /\ Afterwards(p, q).pc # "idle" /\ Afterwards(p, q).op.kind = "query"
           d == Written(me[p])
<1>1. /\ me[p].pc = "write" /\ file' = [file EXCEPT ![Head(me[p].todo)] = me[p].put[Head(me[p].todo)]]
      /\ me' = [q \in Procs |-> IF told(q) THEN [Afterwards(p, q) EXCEPT !.during = @ \cup {file'.state.active}]
                                ELSE Afterwards(p, q)]
      /\ UNCHANGED <<use, gone>>
  BY WriteIs
<1>2. /\ me[p] \in CallRecord /\ Sound(me[p], file) /\ Heard(me[p], file) /\ p \in use.procs /\ file \in Files
      /\ Alone => /\ Fresh(me[p], file, known)
                  /\ file.state.active \in IdsOf(file.profiles) \cup {Absent}
  BY <1>1, Knows
<1>3. d = Idle \/ (d \in CallRecord /\ Sound(d, file'))
  BY <1>1, <1>2, WrittenSound
<1>4. d # Idle => Heard(d, file)
  <2>1. ASSUME d # Idle PROVE SameReading(d, me[p])
    BY <1>1, <1>2, <2>1, WrittenIs DEF Sound, SameReading
  <2> QED BY <1>2, <2>1, HeardSame
<1>5. \A q \in Procs : Afterwards(p, q) = IF q = p THEN d ELSE me[q]
  BY DEF Afterwards
<1> HIDE DEF d
<1>6. \A q \in Procs : Afterwards(p, q) # Idle => Afterwards(p, q) \in CallRecord /\ Heard(Afterwards(p, q), file)
  BY <1>3, <1>4, <1>5 DEF ConfigInv, KeptInv
<1>7. \A q \in Procs : Afterwards(p, q) = Idle => me'[q] = Idle
  BY <1>1 DEF Idle
<1>8. UsersOnly'
  BY <1>1, <1>2, <1>5, <1>7 DEF KeptInv, UsersOnly
<1>9. ASSUME NEW q \in Procs, me'[q] # Idle PROVE Heard(me'[q], file')
  <2>1. Afterwards(p, q) \in CallRecord /\ Heard(Afterwards(p, q), file) /\ Afterwards(p, q) # Idle
    BY <1>6, <1>7, <1>9
  <2>2. CASE told(q)
    <3>1. me'[q] = [Afterwards(p, q) EXCEPT !.during = @ \cup {file'.state.active}]
      BY <1>1, <2>2
    <3> QED BY <2>1, <3>1, HeardTold
  <2>3. CASE ~told(q)
    <3>1. me'[q] = Afterwards(p, q)
      BY <1>1, <2>3
    <3>2. Afterwards(p, q).pc # "idle"
      BY <1>2, <1>3, <1>5, <2>1 DEF Sound, ConfigInv
    <3>3. Head(me[p].todo) # "state" => file'.state = file.state
      BY <1>1, <1>2 DEF Files
    <3> QED BY <2>1, <2>3, <3>1, <3>2, <3>3, HeardTold
  <2> QED BY <2>2, <2>3
<1>10. AloneInv'
  <2> SUFFICES ASSUME Alone
               PROVE  /\ file'.state.active \in IdsOf(file'.profiles) \cup {Absent}
                      /\ \A q \in Procs : me'[q] # Idle => Fresh(me'[q], file', known')
    BY <1>1 DEF AloneInv, Alone
  <2>1. /\ file'.state.active \in IdsOf(file'.profiles) \cup {Absent}
        /\ d # Idle => Fresh(d, file', known')
    BY <1>1, <1>2, WrittenFresh DEF d
  <2>2. ASSUME NEW q \in Procs, me'[q] # Idle PROVE Fresh(me'[q], file', known')
    <3>1. me[p] # Idle
      BY <1>1 DEF Idle
    <3>2. q # p => me[q] # Idle
      BY <1>5, <1>7, <2>2
    <3>3. q = p
      BY <3>1, <3>2, OneAtATime DEF KeptInv
    <3>4. Afterwards(p, q) = d /\ d # Idle /\ d \in CallRecord
      BY <1>3, <1>5, <1>7, <2>2, <3>3
    <3>5. me'[q] = d \/ me'[q] = [d EXCEPT !.during = @ \cup {file'.state.active}]
      BY <1>1, <3>4
    <3> QED BY <2>1, <3>4, <3>5, FreshTold
  <2> QED BY <2>1, <2>2
<1> QED BY <1>8, <1>9, <1>10 DEF KeptInv

-----------------------------------------------------------------------------
(* The theorems.                                                           *)

LEMMA VanishKeeps ==
    ASSUME ConfigInv, KeptInv, NEW k \in Packages, Vanish(k)
    PROVE  KeptInv'
<1>1. UNCHANGED <<use, file, me>> /\ gone \subseteq gone'
  BY DEF Vanish
<1>2. known' \subseteq known
  BY <1>1 DEF known
<1>3. ASSUME NEW c, Fresh(c, file, known) PROVE Fresh(c, file, known')
  <2>1. ASSUME WritesKeep(c, file, known) PROVE WritesKeep(c, file, known')
    BY <1>2, <2>1 DEF WritesKeep
  <2> QED BY <1>3, <2>1 DEF Fresh
<1> QED BY <1>1, <1>3 DEF KeptInv, UsersOnly, AloneInv, Alone

LEMMA KeptStart == Init => KeptInv
<1> SUFFICES ASSUME Init PROVE KeptInv
  OBVIOUS
<1>1. \A p \in Procs : me[p] = Idle
  BY DEF Init
<1>2. file.state.active = Absent
  BY NoFilesTyped DEF Init, NoState
<1> QED BY <1>1, <1>2 DEF KeptInv, UsersOnly, AloneInv

LEMMA KeptProcessStep ==
    ASSUME ConfigInv, KeptInv, NEW p \in Procs, Begin(p) \/ Step(p) \/ Crash(p)
    PROVE  KeptInv'
<1>1. CASE Begin(p)
  BY <1>1, BeginKeeps
<1>2. CASE Crash(p)
  <2>1. p \in use.procs /\ UNCHANGED <<use, file, gone>> /\ Become(p, Idle)
    BY <1>2, Knows DEF Crash
  <2> QED BY <2>1, KeptLocal
<1>3. CASE Answer(p)
  <2>1. p \in use.procs /\ UNCHANGED <<use, file, gone>> /\ Become(p, Idle)
    BY <1>3, Knows DEF Answer, Only, At
  <2> QED BY <2>1, KeptLocal
<1>4. CASE Ensure(p)
  BY <1>4, EnsureInstancesKeeps, EnsureDraftsKeeps, EnsureProfilesKeeps, EnsureStateKeeps DEF Ensure
<1>5. CASE Decide(p)
  BY <1>5, DecideInstanceKeeps, DecideDraftKeeps, DecidePublishKeeps, DecideQueryKeeps, DecideOverrideKeeps,
     DecideOverrideEndKeeps, DecideRollbackKeeps, DecideImportKeeps DEF Decide
<1> QED BY <1>1, <1>2, <1>3, <1>4, <1>5, ReadKeeps, ReadLogKeeps, WriteKeeps DEF Step

LEMMA KeptStep == ConfigInv /\ KeptInv /\ [Next]_vars => KeptInv'
<1> SUFFICES ASSUME ConfigInv, KeptInv, [Next]_vars PROVE KeptInv'
  OBVIOUS
<1>1. ASSUME NEW p \in Procs, Begin(p) \/ Step(p) \/ Crash(p) PROVE KeptInv'
  BY <1>1, KeptProcessStep
<1>2. ASSUME NEW k \in Packages, Vanish(k) PROVE KeptInv'
  BY <1>2, VanishKeeps
<1>3. CASE UNCHANGED vars
  BY <1>3 DEF vars, KeptInv, UsersOnly, AloneInv, Alone, known, Heard, Fresh
<1> QED BY <1>1, <1>2, <1>3 DEF Next

\* A query answers with a profile that was active while it ran: it was told of
\* each one written, and the state it read is one of them.  The only process
\* finds that profile among those it has read; with others at work it may not,
\* and then takes the first.
THEOREM AnswersJustified == Spec => []AnswerJustified
<1>1. ConfigInv /\ KeptInv => AnswerJustified
  <2> SUFFICES ASSUME ConfigInv, KeptInv, NEW p \in Procs, At(p, "answer")
               PROVE  me[p].active.id \in me[p].during
                          \cup IF Alone THEN {} ELSE {me[p].seen.profiles[1].id}
    BY DEF AnswerJustified
  <2>1. /\ me[p].pc = "answer" /\ me[p] \in CallRecord /\ Sound(me[p], file) /\ Heard(me[p], file)
        /\ me[p].seen \in Files /\ (Alone => Fresh(me[p], file, known))
    BY Knows DEF At
  <2>2. me[p].op.kind = "query" /\ me[p].plan = <<>>
    BY <2>1 DEF Sound, Planned
  <2>3. \A name : ~InPlan(me[p], name)
    BY <2>2 DEF InPlan
  <2>4. me[p].seen.profiles # <<>> /\ me[p].active = Active(me[p].seen) /\ me[p].seen.state.active \in me[p].during
    BY <2>1, <2>2, <2>3 DEF Sound, Planned, Heard
  <2>5. IF me[p].seen.state.active \in IdsOf(me[p].seen.profiles)
        THEN me[p].active.id = me[p].seen.state.active ELSE me[p].active = me[p].seen.profiles[1]
    BY <2>1, <2>4, ActiveWhole
  <2>6. ASSUME Alone PROVE me[p].seen.state.active \in IdsOf(me[p].seen.profiles)
    <3>1. Operating(me[p])
      BY <2>1, <2>2 DEF Operating
    <3>2. file.state.active \in IdsOf(file.profiles) /\ me[p].seen["profiles"] = file["profiles"]
          /\ me[p].seen["state"] = file["state"]
      BY <2>1, <2>2, <2>3, <2>6, <3>1, WantedAre, NamesAre DEF Fresh
    <3> QED BY <3>2
  <2> QED BY <2>4, <2>5, <2>6
<1> QED BY <1>1, ConfigStart, ConfigStep, KeptStart, KeptStep, PTL DEF Spec

\* Every step but a write leaves the files; a write leaves all but one.
LEMMA OnlyWritesChange ==
    ASSUME ConfigInv, [Next]_vars
    PROVE  file' = file \/ \E p \in Procs : Write(p)
<1>1. ASSUME NEW p \in Procs, Begin(p) \/ Step(p) \/ Crash(p), ~Write(p) PROVE file' = file
  <2>1. Ensure(p) => file' = file
    BY DEF Ensure, EnsureInstances, EnsureDrafts, EnsureProfiles, EnsureState, Only
  <2>2. Decide(p) => file' = file
    BY DEF Decide, DecideInstance, DecideDraft, DecidePublish, DecideQuery, DecideOverride, DecideOverrideEnd,
           DecideRollback, DecideImport, Only
  <2> QED BY <1>1, <2>1, <2>2 DEF Step, Begin, Crash, Read, Answer, ReadLog, Only
<1>2. ASSUME NEW k \in Packages, Vanish(k) PROVE file' = file
  BY <1>2 DEF Vanish
<1> QED BY <1>1, <1>2 DEF Next, vars

\* What the only process writes keeps what there is.
LEMMA AloneWrites ==
    ASSUME ConfigInv, KeptInv, Alone, NEW p \in Procs, Write(p)
    PROVE  /\ me[p].pc = "write" /\ me[p].op \in Operations /\ file \in Files
           /\ file'.profiles = file.profiles \/ Keeps(file'.profiles, file.profiles)
           /\ file'.instances = file.instances \/
                 \A i \in Present(file.instances) :
                    file'.instances[i] = file.instances[i] \/ PackageOf[i] \notin known \/ Edits(me[p], i)
<1> DEFINE name == Head(me[p].todo)
<1>1. me[p].pc = "write" /\ file' = [file EXCEPT ![name] = me[p].put[name]]
  BY WriteIs
<1>2. /\ me[p] \in CallRecord /\ Sound(me[p], file) /\ file \in Files /\ Fresh(me[p], file, known)
      /\ me[p].op \in Operations
  BY <1>1, Knows
<1>3. name = me[p].todo[1] /\ name \in Names
  BY <1>1, <1>2, WrittenFacts DEF Sound
<1>4. WritesKeep(me[p], file, known)
  BY <1>1, <1>2 DEF Fresh
<1> HIDE DEF name
<1>5. DOMAIN file = Names
  BY <1>2 DEF Files, Names
<1>6. /\ name = "profiles" => file'.profiles = me[p].put.profiles
      /\ name # "profiles" => file'.profiles = file.profiles
      /\ name = "instances" => file'.instances = me[p].put.instances
      /\ name # "instances" => file'.instances = file.instances
  BY <1>1, <1>5, NamesAre
<1> QED BY <1>1, <1>2, <1>3, <1>4, <1>6 DEF WritesKeep

\* With one process at work no step takes a published profile from the file or
\* touches its instances: what is written in place of the profiles is what is
\* on file, resolved again, with at most one more.
THEOREM PublishedStay == Spec => PublishedKept
<1>1. ConfigInv /\ KeptInv /\ [Next]_vars =>
        [Alone => \A n \in DOMAIN file.profiles :
          LET old == file.profiles[n] IN
          old.id # 0 => \E m \in DOMAIN file.profiles' :
              file.profiles'[m].id = old.id /\ file.profiles'[m].instances = old.instances]_vars
  <2> SUFFICES ASSUME ConfigInv, KeptInv, [Next]_vars, Alone, NEW n \in DOMAIN file.profiles,
                      file.profiles[n].id # 0
               PROVE  \E m \in DOMAIN file.profiles' :
                         /\ file.profiles'[m].id = file.profiles[n].id
                         /\ file.profiles'[m].instances = file.profiles[n].instances
    OBVIOUS
  <2>1. file'.profiles = file.profiles \/ Keeps(file'.profiles, file.profiles)
    BY OnlyWritesChange, AloneWrites
  <2> QED BY <2>1 DEF Keeps
<1> QED BY <1>1, ConfigStart, ConfigStep, KeptStart, KeptStep, PTL DEF Spec, PublishedKept

\* With one process at work a saved setting changes only in the call that edits
\* it or when its package is gone: ensure_initialized writes the instances it
\* found, and an edit those it has read.
THEOREM SavedStay == Spec => SavedIsKept
<1>1. ConfigInv /\ KeptInv /\ [Next]_vars =>
        [Alone => \A i \in Present(file.instances) : file.instances'[i] # file.instances[i] =>
          \/ PackageOf[i] \notin known
          \/ \E p \in Procs : At(p, "write") /\ me[p].op.kind \in {"save", "enable", "delete"} /\ me[p].op.instance = i
        ]_vars
  <2> SUFFICES ASSUME ConfigInv, KeptInv, [Next]_vars, Alone, NEW i \in Present(file.instances),
                      file'.instances[i] # file.instances[i], PackageOf[i] \in known
               PROVE  \E p \in Procs : At(p, "write") /\ me[p].op.kind \in {"save", "enable", "delete"}
                                       /\ me[p].op.instance = i
    OBVIOUS
  <2>1. PICK p \in Procs : Write(p)
    BY OnlyWritesChange
  <2>2. At(p, "write") /\ Edits(me[p], i)
    BY <2>1, AloneWrites DEF At
  <2> QED BY <2>2 DEF Edits
<1> QED BY <1>1, ConfigStart, ConfigStep, KeptStart, KeptStep, PTL DEF Spec, SavedIsKept
=============================================================================
