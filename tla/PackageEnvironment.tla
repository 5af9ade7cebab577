-------------------------- MODULE PackageEnvironment --------------------------
(***************************************************************************)
(* Source packages as processes of one machine use them: the registry each *)
(* process builds from the installed files and keeps, install_all_packages *)
(* which replaces the files, and the virtual environments, one directory   *)
(* for each content of a requirements file, that every process checks,     *)
(* builds and runs its workers in.                                         *)
(*                                                                         *)
(* _ENVIRONMENT_LOCK is a lock of threads: nothing keeps two processes off *)
(* one directory.  The files are one package's, known by their version; a  *)
(* requirements file is its content.  The worker's answer is left out.     *)
(***************************************************************************)
EXTENDS Integers, FiniteSets

CONSTANTS EnvThreads, ProcessOf,   \* threads and the process of each
          Versions, Missing,       \* of the installed files; Missing: none are there
          ReqsOf,                  \* the requirements of each version
          RuntimeOf,               \* the runtime source each process runs
          Unset,                   \* nothing cached, no marker
          NoThread,
          MaxInstalls, MaxCrashes  \* bounds

Procs    == {ProcessOf[t] : t \in EnvThreads}
Contents == {ReqsOf[v] : v \in Versions}

\* What a whole marker holds.
Markers == [reqs : Contents, source : Versions, runtime : {RuntimeOf[p] : p \in Procs},
            print : Versions \cup {Missing}]

ASSUME EnvironmentAssumption ==
  /\ MaxInstalls \in Nat /\ MaxCrashes \in Nat
  /\ Missing \notin Versions /\ Unset \notin Versions \cup {Missing} \cup Markers
  /\ NoThread \notin EnvThreads
  /\ DOMAIN ReqsOf = Versions /\ DOMAIN ProcessOf = EnvThreads

VARIABLES disk,       \* version of the installed files
          registry,   \* the lru_cache of get_default_source_package_registry
          envLock,    \* _ENVIRONMENT_LOCK of each process
          venv,       \* the environment directories
          work,       \* what each thread is doing
          swapped,    \* ghost: directories that got other requirements than their name's
          installs, crashes

envVars == <<disk, registry, envLock, venv, work, swapped, installs, crashes>>

Resting == [stage |-> "idle", goal |-> "none", seen |-> Missing, dir |-> Unset,
            reqs |-> Unset, source |-> Missing, print |-> Missing, refreshes |-> 0]
Stages  == {"idle", "read", "store", "lock", "name", "hash", "print", "check", "create", "ensurepip",
            "runtime", "requirements", "again", "marker", "worker", "remove", "put", "refresh"}
Building == {"create", "ensurepip", "runtime", "requirements", "again", "marker"}
Locked   == Building \cup {"name", "hash", "print", "check"}

NoVenv  == [python |-> FALSE, pip |-> FALSE, installed |-> {}, marker |-> Unset]
Torn    == [reqs |-> Unset, source |-> Missing, runtime |-> Unset, print |-> Missing]

EnvInit ==
  /\ disk \in Versions
  /\ registry = [p \in Procs |-> Unset] /\ envLock = [p \in Procs |-> NoThread]
  /\ venv = [c \in Contents |-> NoVenv]
  /\ work = [t \in EnvThreads |-> Resting]
  /\ swapped = {} /\ installs = 0 /\ crashes = 0

At(t, s)      == work[t].stage = s
Moved(t, s)   == work' = [work EXCEPT ![t].stage = s]
\* An exception, or the end: the with block gives the lock back.
Stops(t) ==
  /\ work' = [work EXCEPT ![t] = Resting]
  /\ envLock' = [p \in Procs |-> IF envLock[p] = t THEN NoThread ELSE envLock[p]]

----------------------------------------------------------------------------
(* The registry *)

\* get_handler: the cached registry, or a build of it.  A registry that was
\* built while no files were there knows no package.
Lookup(t) ==
  /\ At(t, "idle")
  /\ IF registry[ProcessOf[t]] = Unset
     THEN work' = [work EXCEPT ![t].stage = "read", ![t].goal = "call"]
     ELSE work' = IF registry[ProcessOf[t]] = Missing THEN work
                  ELSE [work EXCEPT ![t].stage = "lock", ![t].goal = "call"]
  /\ UNCHANGED <<disk, registry, envLock, venv, swapped, installs, crashes>>

\* build_source_package_registry: manifests of the files as they are.
ReadManifests(t) ==
  /\ At(t, "read")
  /\ work' = [work EXCEPT ![t].stage = "store", ![t].seen = disk]
  /\ UNCHANGED <<disk, registry, envLock, venv, swapped, installs, crashes>>

\* lru_cache keeps the result that is there first, and returns this one.
\* install_all_packages refreshes twice, itself and through the runtime.
StoreRegistry(t) ==
  LET p == ProcessOf[t]
      found == work[t].seen # Missing
      refreshesAgain == work[t].goal = "install" /\ work[t].refreshes < 2
  IN  /\ At(t, "store")
      /\ registry' = [registry EXCEPT ![p] = IF @ = Unset THEN work[t].seen ELSE @]
      /\ work' = [work EXCEPT ![t] = IF refreshesAgain THEN [@ EXCEPT !.stage = "refresh"]
                                     ELSE IF found THEN [@ EXCEPT !.stage = "lock"] ELSE Resting]
      /\ UNCHANGED <<disk, envLock, venv, swapped, installs, crashes>>

\* refresh_default_source_package_registry: modules and cache are cleared.
Refresh(t) ==
  /\ At(t, "refresh")
  /\ registry' = [registry EXCEPT ![ProcessOf[t]] = Unset]
  /\ work' = [work EXCEPT ![t].stage = "read", ![t].refreshes = @ + 1]
  /\ UNCHANGED <<disk, envLock, venv, swapped, installs, crashes>>

----------------------------------------------------------------------------
(* install_all_packages: pip replaces the files, first away, then back.    *)

InstallAll(t) ==
  /\ At(t, "idle") /\ installs < MaxInstalls
  /\ installs' = installs + 1
  /\ work' = [work EXCEPT ![t].stage = "remove", ![t].goal = "install"]
  /\ UNCHANGED <<disk, registry, envLock, venv, swapped, crashes>>

RemoveFiles(t) ==
  /\ At(t, "remove")
  /\ disk' = Missing
  /\ Moved(t, "put")
  /\ UNCHANGED <<registry, envLock, venv, swapped, installs, crashes>>

PutFiles(t) ==
  /\ At(t, "put")
  /\ disk' \in Versions
  /\ Moved(t, "refresh")
  /\ UNCHANGED <<registry, envLock, venv, swapped, installs, crashes>>

----------------------------------------------------------------------------
(* ensure_package_environment *)

TakeEnvLock(t) ==
  /\ At(t, "lock") /\ envLock[ProcessOf[t]] = NoThread
  /\ envLock' = [envLock EXCEPT ![ProcessOf[t]] = t]
  /\ Moved(t, "name")
  /\ UNCHANGED <<disk, registry, venv, swapped, installs, crashes>>

\* _environment_directory_name, from the file; without one the call fails.
NameDirectory(t) ==
  /\ At(t, "name")
  /\ IF disk = Missing THEN Stops(t)
     ELSE /\ work' = [work EXCEPT ![t].stage = "hash", ![t].dir = ReqsOf[disk]]
          /\ UNCHANGED envLock
  /\ UNCHANGED <<disk, registry, venv, swapped, installs, crashes>>

\* _requirements_hash, read a second time, and _package_source_hash
HashFiles(t) ==
  /\ At(t, "hash")
  /\ IF disk = Missing THEN Stops(t)
     ELSE /\ work' = [work EXCEPT ![t].stage = "print", ![t].reqs = ReqsOf[disk], ![t].source = disk]
          /\ UNCHANGED envLock
  /\ UNCHANGED <<disk, registry, venv, swapped, installs, crashes>>

\* _installed_packages_fingerprint, before the check and once more after a build
Fingerprint(t) ==
  /\ \/ At(t, "print") /\ work' = [work EXCEPT ![t].stage = "check", ![t].print = disk]
     \/ At(t, "again") /\ work' = [work EXCEPT ![t].stage = "marker", ![t].print = disk]
  /\ UNCHANGED <<disk, registry, envLock, venv, swapped, installs, crashes>>

MarkerOf(t) == [reqs |-> work[t].reqs, source |-> work[t].source,
                runtime |-> RuntimeOf[ProcessOf[t]], print |-> work[t].print]


\* _environment_is_ready: a marker that cannot be read differs from any other.
EnvironmentReady(t) ==
  LET e == venv[work[t].dir] IN e.python /\ e.marker = MarkerOf(t)

Check(t) ==
  /\ At(t, "check")
  /\ IF EnvironmentReady(t)
     THEN /\ envLock' = [envLock EXCEPT ![ProcessOf[t]] = NoThread]
          /\ Moved(t, "worker")
     ELSE Moved(t, "create") /\ UNCHANGED envLock
  /\ UNCHANGED <<disk, registry, venv, swapped, installs, crashes>>

\* _create_venv: python is there before pip is, and a directory that has python
\* is not created again.
CreateVenv(t) ==
  /\ At(t, "create")
  /\ IF venv[work[t].dir].python
     THEN Moved(t, "runtime") /\ UNCHANGED venv
     ELSE Moved(t, "ensurepip") /\ venv' = [venv EXCEPT ![work[t].dir].python = TRUE]
  /\ UNCHANGED <<disk, registry, envLock, swapped, installs, crashes>>

EnsurePip(t) ==
  /\ At(t, "ensurepip")
  /\ venv' = [venv EXCEPT ![work[t].dir].pip = TRUE]
  /\ Moved(t, "runtime")
  /\ UNCHANGED <<disk, registry, envLock, swapped, installs, crashes>>

\* _install_runtime_requirements: a copy of the runtime and the distribution,
\* which other processes may replace at the same time.
InstallRuntime(t) ==
  /\ At(t, "runtime") /\ venv[work[t].dir].pip
  /\ Moved(t, "requirements")
  /\ UNCHANGED <<disk, registry, envLock, venv, swapped, installs, crashes>>

\* _install_requirements: pip reads the file as it is now.
InstallRequirements(t) ==
  LET d == work[t].dir
  IN  /\ At(t, "requirements") /\ disk # Missing
      /\ venv' = [venv EXCEPT ![d].installed = @ \cup {ReqsOf[disk]}]
      /\ swapped' = IF ReqsOf[disk] # d THEN swapped \cup {d} ELSE swapped
      /\ Moved(t, "again")
      /\ UNCHANGED <<disk, registry, envLock, installs, crashes>>

\* Mutant: pip is run without check=True, and the build goes on after it failed.
BuildGoesOn(t) ==
  /\ work[t].stage \in Building
  /\ IF At(t, "requirements") THEN Moved(t, "again") /\ UNCHANGED envLock ELSE Stops(t)
  /\ UNCHANGED <<disk, registry, venv, swapped, installs, crashes>>

\* Any subprocess of a build may fail; without pip the next one has to.
BuildFails(t) ==
  /\ work[t].stage \in Building
  /\ Stops(t)
  /\ UNCHANGED <<disk, registry, venv, swapped, installs, crashes>>

\* write_text truncates the file before it is whole again.
OpenMarker(t) ==
  /\ At(t, "marker") /\ venv[work[t].dir].marker # Torn
  /\ venv' = [venv EXCEPT ![work[t].dir].marker = Torn]
  /\ UNCHANGED <<disk, registry, envLock, work, swapped, installs, crashes>>

WriteMarker(t) ==
  /\ At(t, "marker") /\ venv[work[t].dir].marker = Torn
  /\ venv' = [venv EXCEPT ![work[t].dir].marker = MarkerOf(t)]
  /\ envLock' = [envLock EXCEPT ![ProcessOf[t]] = NoThread]
  /\ Moved(t, "worker")
  /\ UNCHANGED <<disk, registry, swapped, installs, crashes>>

\* IsolatedPackageHandler runs the worker and takes its answer, its error, its
\* exit code or its timeout; install_all_packages has nothing left to do.
WorkerEnds(t) ==
  /\ At(t, "worker")
  /\ Stops(t)
  /\ UNCHANGED <<disk, registry, venv, swapped, installs, crashes>>

\* A process dies between any two steps, and with it its lock and its registry.
ProcessCrashes(p) ==
  /\ crashes < MaxCrashes /\ crashes' = crashes + 1
  /\ registry' = [registry EXCEPT ![p] = Unset]
  /\ envLock' = [envLock EXCEPT ![p] = NoThread]
  /\ work' = [t \in EnvThreads |-> IF ProcessOf[t] = p THEN Resting ELSE work[t]]
  /\ UNCHANGED <<disk, venv, swapped, installs>>

EnvNext ==
  \/ \E t \in EnvThreads :
       \/ Lookup(t) \/ ReadManifests(t) \/ StoreRegistry(t) \/ Refresh(t)
       \/ InstallAll(t) \/ RemoveFiles(t) \/ PutFiles(t)
       \/ TakeEnvLock(t) \/ NameDirectory(t) \/ HashFiles(t) \/ Fingerprint(t) \/ Check(t)
       \/ CreateVenv(t) \/ EnsurePip(t) \/ InstallRuntime(t) \/ InstallRequirements(t)
       \/ BuildFails(t) \/ OpenMarker(t) \/ WriteMarker(t) \/ WorkerEnds(t)
  \/ \E p \in Procs : ProcessCrashes(p)

EnvSpec == EnvInit /\ [][EnvNext]_envVars

----------------------------------------------------------------------------
(* Properties *)

EnvTypeOK ==
  /\ disk \in Versions \cup {Missing}
  /\ registry \in [Procs -> Versions \cup {Missing, Unset}]
  /\ envLock \in [Procs -> EnvThreads \cup {NoThread}]
  /\ \A t \in EnvThreads : work[t].stage \in Stages
  /\ \A t \in EnvThreads : work[t].stage \in Locked <=> envLock[ProcessOf[t]] = t

\* A call runs its worker only in an environment in which the requirements it
\* is named for were once installed in full, however many processes build it,
\* fail or die on the way; unless the requirements file was replaced between
\* the hashing and the pip of a build in it.
ReadyIsBuilt ==
  \A t \in EnvThreads : At(t, "worker") =>
    work[t].dir \in venv[work[t].dir].installed \cup swapped
=============================================================================
