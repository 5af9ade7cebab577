---------------------------- MODULE ConfigRuntime ----------------------------
(***************************************************************************)
(* QuoteMuxConfigRuntime (config_runtime/runtime.py) over the JSON files of *)
(* RuntimeConfigStore (config_runtime/store.py): instances and policies are *)
(* edited as drafts, and a profile, a copy of both, is published, made      *)
(* active, or rolled back to.                                               *)
(*                                                                         *)
(* Nothing is locked: a step of a process reads one file or writes one (the *)
(* writes replace the file, so that a reader sees the old or the new one).  *)
(* Every operation, a query's look at the active profile included, begins   *)
(* with ensure_initialized, which rewrites what it finds out of date.       *)
(*                                                                         *)
(* A file of instances maps each instance to its settings, a file of        *)
(* policies each contract to the sources of its source_order (their order,  *)
(* the mode and the merge strategy are left out); Absent is no entry.       *)
(***************************************************************************)
EXTENDS Integers, Sequences, FiniteSets

CONSTANTS
    Procs,           \* processes, or threads, that use the runtime directory
    Packages, Instances, Settings, Contracts,
    Absent,
    PackageOf,       \* the package an instance is of
    DefaultOf,       \* the default instance of a package
    SingleInstance,  \* packages that do not support several instances
    NewSettings,     \* the settings of a default instance
    Disabled,        \* settings with enabled = False
    Root,            \* the contract a contract is configured with: itself, or
                     \* the base of a derived one
    DefaultSources,  \* the packages in the default policy of a contract
    Supports,        \* the contracts a package declares
    Builtin,         \* packages that are always there
    Toggle,          \* the settings with enabled switched
    Deployments,     \* how the directory is used: by which processes, for which
                     \* kinds of Calls; how many calls and crashes (bounds) and
                     \* whether an imported package may vanish
    SourceSets,      \* the source orders given to them
    Keep,            \* previous profile ids that are kept: 20
    KeepLog,         \* transitions that are kept: 200
    MaxOps           \* bound on the calls of any deployment

ASSUME ConfigAssumption ==
    /\ PackageOf \in [Instances -> Packages] /\ DefaultOf \in [Packages -> Instances]
    /\ \A k \in Packages : PackageOf[DefaultOf[k]] = k
    /\ SingleInstance \subseteq Packages /\ Builtin \subseteq Packages
    /\ NewSettings \in Settings \ Disabled /\ IsFiniteSet(Procs)
    /\ Absent \notin Settings /\ Absent \notin Nat /\ \A s \in SUBSET Instances : s # Absent
    /\ Root \in [Contracts -> Contracts] /\ \A c \in Contracts : Root[Root[c]] = Root[c]
    /\ DefaultSources \in [Contracts -> SUBSET Packages]
    /\ Supports \in [Packages -> SUBSET Contracts]
    /\ Toggle \in [Settings -> Settings] /\ SourceSets \subseteq SUBSET Instances
    /\ Keep \in Nat \ {0} /\ KeepLog \in Nat \ {0} /\ MaxOps \in Nat
    /\ Deployments \subseteq [procs : SUBSET Procs, kinds : SUBSET STRING, ops : 0..MaxOps,
                              crashes : Nat, unloads : BOOLEAN]

VARIABLES
    use,     \* the deployment
    file,    \* the JSON files; log is profile_transitions
    gone,    \* imported packages that vanished
    me,      \* the call each process is in
    ops,     \* calls begun
    crashes,
    nextId   \* profile ids come from a clock: no two are equal

vars == <<use, file, gone, me, ops, crashes, nextId>>

InstanceFile == [Instances -> Settings \cup {Absent}]
PolicyFile == [Contracts -> (SUBSET Instances) \cup {Absent}]
Profile == [id : Nat, instances : InstanceFile, policies : PolicyFile]
State == [active : Nat \cup {Absent}, previous : Seq(Nat)]

Present(inst) == {i \in Instances : inst[i] # Absent}
NoInstances == [i \in Instances |-> Absent]
NoPolicies == [c \in Contracts |-> Absent]
NoState == [active |-> Absent, previous |-> <<>>]
NoFiles == [instances |-> NoInstances, drafts |-> NoPolicies, profiles |-> <<>>,
            state |-> NoState, log |-> <<>>, imports |-> {}]

\* The packages that build_source_package_registry finds.
known == Builtin \cup (file.imports \ gone)

IdsOf(profiles) == {profiles[n].id : n \in DOMAIN profiles}
ProfileOf(profiles, id) == profiles[CHOOSE n \in DOMAIN profiles : profiles[n].id = id]
Last(s, n) == IF Len(s) > n THEN SubSeq(s, Len(s) - n + 1, Len(s)) ELSE s

-----------------------------------------------------------------------------
(* What ensure_initialized makes of the files.                             *)

\* Mutant: the values of an instance are set to the defaults of its package.
ReconcileResets(inst) ==
    LET kept == {i \in Present(inst) : PackageOf[i] \in known}
    IN  [i \in Instances |->
            IF i \in kept THEN NewSettings
            ELSE IF /\ i = DefaultOf[PackageOf[i]] /\ PackageOf[i] \in known
                    /\ \A j \in kept : PackageOf[j] # PackageOf[i]
                 THEN NewSettings ELSE Absent]

\* Instances of unknown packages go, a known package without one gets its default.
Reconcile(inst) ==
    LET kept == {i \in Present(inst) : PackageOf[i] \in known}
    IN  [i \in Instances |->
            IF i \in kept THEN inst[i]
            ELSE IF /\ i = DefaultOf[PackageOf[i]] /\ PackageOf[i] \in known
                    /\ \A j \in kept : PackageOf[j] # PackageOf[i]
                 THEN NewSettings ELSE Absent]

\* A policy of a derived contract counts for its root, unless the root has one.
ResolvePolicies(inst, policies) ==
    [c \in Contracts |->
        LET named == {d \in Contracts : Root[d] = c /\ policies[d] # Absent}
        IN  IF Root[c] # c \/ named = {} THEN Absent
            ELSE Present(inst) \cap policies[IF c \in named THEN c ELSE CHOOSE d \in named : TRUE]]

DefaultPolicies(inst) ==
    [c \in Contracts |->
        IF Root[c] # c THEN Absent
        ELSE {i \in Present(inst) : PackageOf[i] \in DefaultSources[c]}]

Merge(policies, defaults) ==
    [c \in Contracts |-> IF policies[c] = Absent THEN defaults[c] ELSE policies[c]]

Resolved(inst, policies, draftInst) ==
    Merge(ResolvePolicies(inst, policies), DefaultPolicies(draftInst))

DefaultProfile(inst) ==
    [id |-> 0, instances |-> inst, policies |-> DefaultPolicies(inst)]

\* Mutant: the draft instances reach every profile.
ResolveProfileAll(profile, inst) ==
    IF profile.id = 0 THEN DefaultProfile(inst)
    ELSE [profile EXCEPT !.instances = inst, !.policies = Resolved(inst, @, inst)]

\* The default profile follows the drafts; a published one keeps its instances.
ResolveProfile(profile, inst) ==
    IF profile.id = 0 THEN DefaultProfile(inst)
    ELSE [profile EXCEPT !.policies = Resolved(profile.instances, @, inst)]

-----------------------------------------------------------------------------
(* Calls.                                                                  *)

Calls ==
    LET On(kind) == {[kind |-> kind, instance |-> i] : i \in Instances}
        With(kind) == {[kind |-> kind, contract |-> c, sources |-> s] : c \in Contracts, s \in SourceSets}
    IN  {[kind |-> "publish"], [kind |-> "query"]}
        \cup {[kind |-> "save", instance |-> i, settings |-> s] : i \in Instances, s \in Settings}
        \cup On("enable") \cup On("delete")
        \cup With("draft") \cup With("override")
        \cup {[kind |-> "rollback", id |-> n] : n \in 0..(nextId - 1)}
        \cup {[kind |-> "import", package |-> k] : k \in Packages \ Builtin}

\* The files an operation reads once ensure_initialized is done, in order.
Plan(kind) ==
    CASE kind \in {"save", "enable", "delete"} -> <<"instances">>
      [] kind = "draft" -> <<"instances", "drafts">>
      [] kind = "publish" -> <<"profiles", "state", "instances", "drafts">>
      [] kind = "override" -> <<"profiles", "state", "instances">>
      [] kind \in {"rollback", "query"} -> <<"profiles", "state">>
      [] kind = "import" -> <<"imports">>

Idle == [pc |-> "idle"]

\* again: publish_active_policy_override calls ensure_initialized and then
\* get_active_profile, which calls it once more.  before and during are
\* history: the active profile on file when an override begins, and the active
\* ids since a query began.
NewCall(op) ==
    [pc |-> IF op.kind = "import" THEN "read" ELSE "instances",
     op |-> op, again |-> op.kind = "override",
     plan |-> Plan(op.kind), seen |-> NoFiles,
     put |-> NoFiles, todo |-> <<>>, then |-> "idle",
     inst |-> NoInstances, active |-> Absent, from |-> Absent,
     before |-> IF op.kind = "override" /\ file.state.active \in IdsOf(file.profiles)
                THEN ProfileOf(file.profiles, file.state.active) ELSE Absent,
     during |-> IF op.kind = "query" THEN {file.state.active} ELSE {}]

Init ==
    /\ use \in Deployments
    /\ file = NoFiles /\ gone = {}
    /\ me = [p \in Procs |-> Idle]
    /\ ops = 0 /\ crashes = 0 /\ nextId = 1

Begin(p) ==
    /\ p \in use.procs /\ me[p].pc = "idle" /\ ops < use.ops
    /\ \E op \in Calls : op.kind \in use.kinds /\ me' = [me EXCEPT ![p] = NewCall(op)]
    /\ ops' = ops + 1
    /\ UNCHANGED <<use, file, gone, crashes, nextId>>

At(p, label) == me[p].pc = label
Become(p, call) == me' = [me EXCEPT ![p] = call]
Goto(p, label) == Become(p, IF label = "idle" THEN Idle ELSE [me[p] EXCEPT !.pc = label])

\* The call goes on by writing these files, and then at this label.
Writing(call, todo, put, then) ==
    [call EXCEPT !.pc = "write", !.todo = todo, !.put = put, !.then = then]

Only == UNCHANGED <<use, file, gone, ops, crashes, nextId>>

-----------------------------------------------------------------------------
(* ensure_initialized.                                                     *)

AfterEnsure(call) ==
    IF call.again THEN "instances" ELSE IF call.op.kind = "import" THEN "idle" ELSE "read"

EnsureInstances(p) ==
    LET inst == Reconcile(file.instances)
        call == [me[p] EXCEPT !.inst = inst, !.pc = "drafts"]
    IN  /\ At(p, "instances")
        /\ Become(p, IF inst = file.instances THEN call
                     ELSE Writing(call, <<"instances">>, [NoFiles EXCEPT !.instances = inst], "drafts"))
        /\ Only

EnsureDrafts(p) ==
    LET drafts == Resolved(me[p].inst, file.drafts, me[p].inst)
    IN  /\ At(p, "drafts")
        /\ Become(p, IF drafts = file.drafts THEN [me[p] EXCEPT !.pc = "profiles"]
                     ELSE Writing(me[p], <<"drafts">>, [NoFiles EXCEPT !.drafts = drafts], "profiles"))
        /\ Only

\* The first profile is written before the state that makes it active; a crash
\* in between is made good by EnsureState.
EnsureProfiles(p) ==
    LET call == me[p]
        profiles == [n \in DOMAIN file.profiles |-> ResolveProfile(file.profiles[n], call.inst)]
    IN  /\ At(p, "profiles")
        /\ Become(p,
             IF file.profiles = <<>>
             THEN Writing([call EXCEPT !.again = FALSE], <<"profiles", "state">>,
                          [NoFiles EXCEPT !.profiles = <<DefaultProfile(call.inst)>>, !.state.active = 0],
                          AfterEnsure(call))
             ELSE IF profiles = file.profiles
             THEN [call EXCEPT !.pc = "state", !.seen.profiles = profiles]
             ELSE Writing([call EXCEPT !.seen.profiles = profiles], <<"profiles">>,
                          [NoFiles EXCEPT !.profiles = profiles], "state"))
        /\ Only

EnsureState(p) ==
    LET call == [me[p] EXCEPT !.again = FALSE]
        profiles == me[p].seen.profiles
        next == AfterEnsure(me[p])
    IN  /\ At(p, "state")
        /\ IF file.state.active = Absent
           THEN Become(p, Writing(call, <<"state">>,
                       [NoFiles EXCEPT !.state.active = profiles[Len(profiles)].id], next))
           ELSE Become(p, IF next = "idle" THEN Idle ELSE [call EXCEPT !.pc = next])
        /\ Only

-----------------------------------------------------------------------------
(* Reading, deciding, writing.                                             *)

Read(p) ==
    LET call == me[p]
    IN  /\ At(p, "read")
        /\ Become(p, [call EXCEPT !.seen[Head(call.plan)] = file[Head(call.plan)],
                                  !.plan = Tail(@),
                                  !.pc = IF Len(call.plan) = 1 THEN "decide" ELSE "read"])
        /\ Only

\* One file is replaced.
Write(p) ==
    LET call == me[p]
        name == Head(call.todo)
        next == IF Len(call.todo) > 1 THEN [call EXCEPT !.todo = Tail(@)]
                ELSE IF call.then = "idle" THEN Idle
                ELSE [call EXCEPT !.pc = call.then, !.todo = <<>>, !.put = NoFiles]
        after == [me EXCEPT ![p] = next]
        Watching(q) == name = "state" /\ after[q].pc # "idle" /\ after[q].op.kind = "query"
    IN  /\ At(p, "write")
        /\ file' = [file EXCEPT ![name] = call.put[name]]
        /\ me' = [q \in Procs |-> IF Watching(q)
                                 THEN [after[q] EXCEPT !.during = @ \cup {file'.state.active}]
                                 ELSE after[q]]
        /\ UNCHANGED <<use, gone, ops, crashes, nextId>>

\* The decision of a call: it ends without a write, or writes.
Decides(p, kind) == At(p, "decide") /\ me[p].op.kind = kind

WriteOrFail(p, valid, todo, put, then) ==
    Become(p, IF valid THEN Writing(me[p], todo, put, then) ELSE Idle)

\* validate_instance.
ValidInstance(i, others) ==
    /\ PackageOf[i] \in known
    /\ PackageOf[i] \in SingleInstance => \A j \in others \ {i} : PackageOf[j] # PackageOf[i]

\* validate_profile.
NoDanglingIn(profile) ==
    \A c \in Contracts : profile.policies[c] # Absent => profile.policies[c] \subseteq Present(profile.instances)

\* Mutant: the sources of the policies are not looked up.
ValidProfilePackages(profile) == \A i \in Present(profile.instances) : PackageOf[i] \in known

ValidProfile(profile) ==
    /\ \A i \in Present(profile.instances) : PackageOf[i] \in known
    /\ NoDanglingIn(profile)

\* save_source_instance, update_source_instance_enabled, delete_source_instance
\* (which reads the list twice in a row, for the validation and for the edit:
\* one read here).
DecideInstance(p) ==
    LET call == me[p]  op == call.op  inst == call.seen.instances
        To(value) == [NoFiles EXCEPT !.instances = [inst EXCEPT ![op.instance] = value]]
        Finish(valid, put) == WriteOrFail(p, valid, <<"instances">>, put, "idle")
    IN  /\ \/ /\ Decides(p, "save")
              /\ Finish(ValidInstance(op.instance, Present(inst)), To(op.settings))
           \/ /\ Decides(p, "enable")
              /\ IF op.instance \in Present(inst)
                 THEN Finish(TRUE, To(Toggle[inst[op.instance]])) ELSE Become(p, Idle)
           \/ Decides(p, "delete") /\ Finish(TRUE, To(Absent))
        /\ Only

\* save_draft_policy.
DecideDraft(p) ==
    LET op == me[p].op  seen == me[p].seen
        profile == [id |-> 0, instances |-> seen.instances, policies |-> [NoPolicies EXCEPT ![op.contract] = op.sources]]
    IN  /\ Decides(p, "draft")
        /\ WriteOrFail(p, ValidProfile(profile), <<"drafts">>,
                       [NoFiles EXCEPT !.drafts = [seen.drafts EXCEPT ![op.contract] = op.sources]], "idle")
        /\ Only

Follow(state, from, to) ==
    [active |-> to,
     previous |-> Last(IF from = Absent THEN state.previous ELSE Append(state.previous, from), Keep)]

\* publish_profile.
DecidePublish(p) ==
    LET seen == me[p].seen
        profile == [id |-> nextId, instances |-> seen.instances, policies |-> seen.drafts]
    IN  /\ Decides(p, "publish")
        /\ WriteOrFail(p, ValidProfile(profile), <<"profiles", "state">>,
                       [NoFiles EXCEPT !.profiles = Append(seen.profiles, profile),
                                       !.state = Follow(seen.state, seen.state.active, nextId)], "idle")
        /\ nextId' = nextId + 1
        /\ UNCHANGED <<use, file, gone, ops, crashes>>

\* Mutant: the newest profile is the active one.
ActiveNewest(seen) == seen.profiles[Len(seen.profiles)]

\* get_active_profile: when the state names a profile that is not there, the
\* first profile.
Active(seen) ==
    IF seen.state.active \in IdsOf(seen.profiles)
    THEN ProfileOf(seen.profiles, seen.state.active) ELSE seen.profiles[1]

DecideQuery(p) ==
    /\ Decides(p, "query")
    /\ Become(p, [me[p] EXCEPT !.active = Active(me[p].seen), !.pc = "answer"])
    /\ Only

Answer(p) == At(p, "answer") /\ Become(p, Idle) /\ Only

\* publish_active_policy_override, up to the point where it reads the profiles
\* again: the policy changes, or brings draft instances with it.
DecideOverride(p) ==
    LET call == me[p]  c == call.op.contract
        active == Active(call.seen)
        requested == call.op.sources \ Present(active.instances)
        valid == /\ active.policies[c] # Absent
                 /\ requested \subseteq Present(call.seen.instances)
                 /\ \A i \in requested :
                        /\ ValidInstance(i, Present(active.instances) \cup requested)
                        /\ call.seen.instances[i] \notin Disabled
                        /\ c \in Supports[PackageOf[i]]
                 /\ active.policies[c] # call.op.sources \/ requested # {}
    IN  /\ Decides(p, "override") /\ call.active = Absent
        /\ Become(p, IF ~valid THEN Idle
                     ELSE [call EXCEPT !.pc = "read", !.plan = <<"profiles", "state">>, !.active = active,
                               !.inst = [i \in Instances |-> IF i \in requested THEN call.seen.instances[i]
                                                             ELSE active.instances[i]]])
        /\ Only

DecideOverrideEnd(p) ==
    LET call == me[p]  seen == call.seen
        profile == [id |-> nextId, instances |-> call.inst,
                    policies |-> [call.active.policies EXCEPT ![call.op.contract] = call.op.sources]]
        put == [NoFiles EXCEPT !.profiles = Append(seen.profiles, profile),
                               !.state = Follow(seen.state, call.active.id, nextId)]
    IN  /\ Decides(p, "override") /\ call.active # Absent
        /\ Become(p, IF ValidProfile(profile)
                     THEN [Writing(call, <<"profiles", "state">>, put, "log") EXCEPT !.from = <<call.active.id, nextId>>]
                     ELSE Idle)
        /\ nextId' = nextId + 1
        /\ UNCHANGED <<use, file, gone, ops, crashes>>

\* rollback_profile.
DecideRollback(p) ==
    LET call == me[p]  seen == call.seen
        put == [NoFiles EXCEPT !.state = Follow(seen.state, seen.state.active, call.op.id)]
    IN  /\ Decides(p, "rollback")
        /\ Become(p, IF call.op.id \in IdsOf(seen.profiles)
                     THEN [Writing(call, <<"state">>, put, "log") EXCEPT !.from = <<seen.state.active, call.op.id>>]
                     ELSE Idle)
        /\ Only

\* add_import_root; the copy of the directory is a new root.
DecideImport(p) ==
    LET call == me[p]
    IN  /\ Decides(p, "import")
        /\ Become(p, Writing(call, <<"imports">>,
                     [NoFiles EXCEPT !.imports = call.seen.imports \cup {call.op.package}], "instances"))
        /\ Only

\* append_profile_transition.
ReadLog(p) ==
    /\ At(p, "log")
    /\ Become(p, Writing(me[p], <<"log">>, [NoFiles EXCEPT !.log = Last(Append(file.log, me[p].from), KeepLog)], "idle"))
    /\ Only

Decide(p) ==
    \/ DecideInstance(p) \/ DecideDraft(p) \/ DecidePublish(p) \/ DecideQuery(p)
    \/ DecideOverride(p) \/ DecideOverrideEnd(p) \/ DecideRollback(p) \/ DecideImport(p)

-----------------------------------------------------------------------------
Crash(p) ==
    /\ me[p].pc # "idle" /\ crashes < use.crashes
    /\ crashes' = crashes + 1
    /\ Become(p, Idle)
    /\ UNCHANGED <<use, file, gone, ops, nextId>>

Vanish(k) ==
    /\ use.unloads /\ k \in file.imports \ gone
    /\ gone' = gone \cup {k}
    /\ UNCHANGED <<use, file, me, ops, crashes, nextId>>

Ensure(p) == EnsureInstances(p) \/ EnsureDrafts(p) \/ EnsureProfiles(p) \/ EnsureState(p)
Step(p) == Ensure(p) \/ Read(p) \/ Decide(p) \/ Answer(p) \/ ReadLog(p) \/ Write(p)

Next ==
    \/ \E p \in Procs : Begin(p) \/ Step(p) \/ Crash(p)
    \/ \E k \in Packages : Vanish(k)

Spec == Init /\ [][Next]_vars

-----------------------------------------------------------------------------
(* Properties.                                                             *)

Labels == {"idle", "instances", "drafts", "profiles", "state", "read", "decide", "write", "answer", "log"}

TypeOK ==
    /\ file.instances \in InstanceFile /\ file.drafts \in PolicyFile
    /\ file.profiles \in Seq(Profile) /\ file.state \in State
    /\ Len(file.state.previous) <= Keep /\ Len(file.log) <= KeepLog
    /\ file.imports \subseteq Packages /\ gone \subseteq Packages
    /\ \A p \in Procs : me[p].pc \in Labels
    /\ use \in Deployments /\ ops \in 0..use.ops /\ crashes \in 0..use.crashes /\ nextId \in Nat \ {0}

\* Nothing is locked, so that with two processes an update can be lost.
Alone == Cardinality(use.procs) = 1

\* A published profile stays as it was published: no edit of the drafts, no
\* start of a newer process and no crash removes it or touches its instances.
\* One process: ensure_initialized of a second one writes back what it read.
PublishedKept ==
    [][Alone => \A n \in DOMAIN file.profiles :
          LET old == file.profiles[n] IN
          old.id # 0 => \E m \in DOMAIN file.profiles' :
              file.profiles'[m].id = old.id /\ file.profiles'[m].instances = old.instances]_vars

\* What an administrator saved for an instance stays until he changes it or its
\* package vanishes; ensure_initialized, which runs on every query, keeps it.
\* One process.
SavedIsKept ==
    [][Alone => \A i \in Present(file.instances) : file.instances'[i] # file.instances[i] =>
          \/ PackageOf[i] \notin known
          \/ \E p \in Procs : At(p, "write") /\ me[p].op.kind \in {"save", "enable", "delete"} /\ me[p].op.instance = i
      ]_vars

\* A query is answered with a profile that was active while it ran: a crash
\* between the two writes of a publish puts no profile in force.  With another
\* process at work it may also be, if the profile the state named was not yet
\* among those it had read, the first.
AnswerJustified ==
    \A p \in Procs : At(p, "answer") =>
        me[p].active.id \in me[p].during
            \cup IF Alone THEN {} ELSE {me[p].seen.profiles[1].id}

\* Every profile, the one in force included, has a policy for every contract
\* that can be configured, and names only instances it contains, however the
\* edits of several processes interleave with a publish.
ProfilesComplete ==
    \A n \in DOMAIN file.profiles :
        /\ NoDanglingIn(file.profiles[n])
        /\ \A c \in Contracts : Root[c] = c => file.profiles[n].policies[c] # Absent

\* The docstring of publish_active_policy_override: the instances of the active
\* profile are preserved, only those the policy asks for are added.
OverridePreservesActive ==
    \A p \in Procs :
        At(p, "write") /\ me[p].op.kind = "override" /\ me[p].then = "log" /\ me[p].before # Absent =>
            LET profiles == me[p].put.profiles
                published == profiles[Len(profiles)]
            IN  \A i \in Present(me[p].before.instances) :
                    published.instances[i] = me[p].before.instances[i]
=============================================================================
