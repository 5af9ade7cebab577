------------------------------ MODULE CaptureJob ------------------------------
(***************************************************************************)
(* QuoteMuxCaptureJob and CaptureRunMaintenance (store/capture.py) for one  *)
(* capability: processes that run scheduled captures, manual captures and   *)
(* repairs, and processes that reconcile orphaned run rows.  They share the *)
(* run table and the PostgreSQL session advisory lock of the capability.    *)
(*                                                                         *)
(* Every SQL statement is a step of its own: CaptureRunRepository.create    *)
(* issues three of them (supersede, insert, select) with nothing that ties  *)
(* them together.  The environment may crash a process, cut the session     *)
(* that holds the lock, make one statement fail, fail a request, interrupt  *)
(* a run or change the policy; Events says which, MaxEvents how often.      *)
(***************************************************************************)
EXTENDS CaptureRuns, FiniteSets, Functions

CONSTANTS
    Procs,       \* processes (threads) that run captures and repairs
    Maint,       \* processes that run reconcile_stale_running
    None,        \* the advisory lock is free
    Lists,       \* the request lists build_capture_requests may return
    FullLists,   \* those it returns while nothing is stored yet
    Modes,       \* which capabilities: how a run cuts its window (mode)
    Limit,       \* the window of a bounded capture
    Triggers,    \* which entry points are called
    Events,      \* which environment events happen
    MaxEvents,   \* bound on their number
    MaxRows      \* bound on the table when a call starts

ASSUME JobAssumption ==
    /\ Procs \cap Maint = {} /\ None \notin Procs \cup Maint
    /\ Lists \subseteq Seq(Requests) /\ FullLists \subseteq Lists
    /\ \A l \in FullLists, stored \in SUBSET Requests :
          \E m \in Lists : Range(m) = Range(l) \ stored
    /\ Modes \subseteq {"all", "first", "checkpoint"}
    /\ Limit \in Nat \ {0}
    /\ Triggers \subseteq {"due", "manual", "repair"}
    /\ Events \subseteq {"crash", "session", "db", "request", "interrupt", "policy", "list"}
    /\ MaxEvents \in Nat /\ MaxRows \in Nat

VARIABLES
    rows,      \* capability_capture_runs
    lock,      \* the process whose session holds the advisory lock
    slot,      \* the planned time _scheduled_time yields now
    enabled,   \* capture policy: enabled
    writable,  \* cache policy: write_enabled (with window_count, batch_size >= 1)
    mode,      \* the capability: every request in one run ("all"), the first
               \* MAX_INTRADAY_CAPTURE_REQUESTS_PER_RUN of those still missing
               \* (stocks.quotes.intraday), policy.batch_size from the checkpoint
               \* on (concepts.members)
    list,      \* the requests the trading days and catalogues of now call for
    pc,        \* the next statement of each process
    job,       \* the locals of a capture process
    cutoff,    \* a maintenance process: started_before
    stale,     \* a maintenance process: stale_run_ids
    done,      \* requests executed without an error, per planned time
    asked,     \* history: the lists the windows of a planned time were cut from
    used,      \* clock readings already taken
    events,    \* environment events so far
    outages    \* history: the outages among them

vars == <<rows, lock, slot, enabled, writable, mode, list, pc, job, cutoff, stale, done, asked,
          used, events, outages>>

Agents == Procs \cup Maint

\* list: all_requests of the run; start, next: the window in it; at: the last one
\* executed; failed: failed_batches is not empty; err: the except branch is
\* running; run: run.id as create returned it; mine: the id the insert produced,
\* which the code never learns (history only).
JobFields == [planned: Times, fp: Fingerprints \cup {NoFp}, list: Seq(Asks), start: Nat,
              next: Nat, at: Nat, failed: BOOLEAN, err: BOOLEAN, run: Nat, mine: Nat]
Job == {j \in JobFields : j.next <= Len(j.list)}

NewJob(t, f) == [planned |-> t, fp |-> f, list |-> <<>>, start |-> 0, next |-> 0, at |-> 0,
                 failed |-> FALSE, err |-> FALSE, run |-> 0, mine |-> 0]

\* A process outside a call has no locals.
NoJob == NewJob(CHOOSE t \in Slots : TRUE, NoFp)
Forget(a) ==
    /\ job' = [p \in Procs |-> IF p = a THEN NoJob ELSE job[p]]
    /\ cutoff' = [m \in Maint |-> IF m = a THEN 0 ELSE cutoff[m]]
    /\ stale' = [m \in Maint |-> IF m = a THEN {} ELSE stale[m]]

Labels == {"idle", "precheck", "lock", "repairLock", "reuse", "skipInsert",
           "skipSelect", "skipFinish", "window", "supersede", "insert", "select",
           "exec", "finish", "release", "mlock", "mread", "mfail"}

\* Where the code believes it holds the lock.
Executing == {"window", "supersede", "insert", "select", "exec", "finish"}
Critical == Executing \cup {"reuse", "mread", "mfail"}

\* A lost session ends exclusion, a failed statement reads as an empty answer.
Outage == {"session", "db"}

EventsOK == events \in 0..MaxEvents /\ outages \subseteq Outage

TypeOK ==
    /\ rows \in Seq(Row)
    /\ lock \in Agents \cup {None}
    /\ slot \in Slots
    /\ enabled \in BOOLEAN /\ writable \in BOOLEAN
    /\ mode \in Modes /\ list \in Lists
    /\ pc \in [Agents -> Labels]
    /\ job \in [Procs -> Job]
    /\ cutoff \in [Maint -> Nat]
    /\ stale \in [Maint -> SUBSET Nat]
    /\ done \in [Times -> SUBSET Asks]
    /\ asked \in [Times -> SUBSET Seq(Asks)]
    /\ used \subseteq NowTimes
    /\ EventsOK

Init ==
    /\ rows = <<>>
    /\ lock = None
    /\ slot \in Slots
    /\ enabled = TRUE /\ writable = TRUE
    /\ mode \in Modes /\ list \in FullLists
    /\ pc = [a \in Agents |-> "idle"]
    /\ job = [p \in Procs |-> NoJob]
    /\ cutoff = [m \in Maint |-> 0]
    /\ stale = [m \in Maint |-> {}]
    /\ done = [t \in Times |-> {}] /\ asked = [t \in Times |-> {}]
    /\ used = {}
    /\ events = 0 /\ outages = {}

At(a, label) == pc[a] = label
Goto(a, label) == pc' = [pc EXCEPT ![a] = label]

Event(e) ==
    /\ e \in Events /\ events < MaxEvents
    /\ events' = events + 1 /\ outages' = outages \cup ({e} \cap Outage)
NoEvent == events' = events /\ outages' = outages

policy == <<slot, enabled, writable, mode, list>>
maint == <<cutoff, stale>>

-----------------------------------------------------------------------------
(* Entry points.                                                           *)

\* run_due_captures: the dueness of the slot is read before any lock is taken;
\* a failed query reads as "no row", hence as due.
StartDue(p) ==
    /\ At(p, "idle") /\ "due" \in Triggers /\ Len(rows) < MaxRows
    /\ enabled
    /\ \/ Due(rows, slot) /\ NoEvent
       \/ Event("db")
    /\ job' = [job EXCEPT ![p] = NewJob(slot, NoFp)]
    /\ Goto(p, "precheck")
    /\ UNCHANGED <<rows, lock, policy, maint, done, asked, used>>

\* run_capture without a planned time, and run_repair: planned_time is now.
StartNow(p, t, f, first) ==
    /\ At(p, "idle") /\ Len(rows) < MaxRows
    /\ t \in NowTimes /\ \A u \in used : u < t
    /\ used' = used \cup {t}
    /\ job' = [job EXCEPT ![p] = NewJob(t, f)]
    /\ Goto(p, first)
    /\ NoEvent
    /\ UNCHANGED <<rows, lock, policy, maint, done, asked>>

StartManual(p) == "manual" \in Triggers /\ \E t \in NowTimes : StartNow(p, t, NoFp, "precheck")

StartRepair(p) ==
    /\ "repair" \in Triggers
    /\ \E t \in NowTimes, f \in Fingerprints : StartNow(p, t, f, "repairLock")

\* run_capture: _precheck_skip, without the lock.
Precheck(p) ==
    /\ At(p, "precheck")
    /\ Goto(p, IF enabled /\ writable THEN "lock" ELSE "skipInsert")
    /\ NoEvent
    /\ UNCHANGED <<rows, lock, policy, job, maint, done, asked, used>>

\* PostgresAdvisoryLock.acquire by run_capture or run_repair.  A connection
\* that cannot be made raises out of the call.
TakeLock(p) ==
    /\ pc[p] \in {"lock", "repairLock"}
    /\ \/ /\ lock = None
          /\ lock' = p
          /\ Goto(p, IF At(p, "lock") THEN "window" ELSE "reuse")
          /\ NoEvent
       \/ /\ lock # None
          /\ Goto(p, "skipInsert")
          /\ NoEvent /\ UNCHANGED lock
       \/ Event("db") /\ Goto(p, "release") /\ UNCHANGED lock
    /\ UNCHANGED <<rows, policy, job, maint, done, asked, used>>

\* run_repair under the lock: locked_precondition may raise; a success with the
\* same fingerprint is reused; _precheck_repair_skip writes a skipped row.
ReuseRepair(p) ==
    /\ At(p, "reuse")
    /\ \/ Event("interrupt") /\ Goto(p, "release")
       \/ RepairDone(rows, job[p].fp) /\ NoEvent /\ Goto(p, "release")
       \/ /\ \/ ~RepairDone(rows, job[p].fp) /\ NoEvent
             \/ Event("db")
          /\ Goto(p, IF writable THEN "window" ELSE "skipInsert")
    /\ UNCHANGED <<rows, lock, policy, job, maint, done, asked, used>>

-----------------------------------------------------------------------------
(* _create_finished_run: a skipped row, created and finished.              *)

\* The insert of create(skipped); when it fails create raises.
SkipInsert(p) ==
    /\ At(p, "skipInsert")
    /\ \/ /\ rows' = Append(rows, [status |-> "skipped", planned |-> job[p].planned,
                                   next |-> 0, fp |-> job[p].fp, list |-> <<>>])
          /\ Goto(p, "skipSelect") /\ NoEvent
       \/ Event("db") /\ Goto(p, "release") /\ UNCHANGED rows
    /\ UNCHANGED <<lock, policy, job, maint, done, asked, used>>

\* The select of create: the latest row of the planned time, whoever wrote it.
SkipSelect(p) ==
    /\ At(p, "skipSelect")
    /\ \/ /\ \E i \in LatestFor(rows, job[p].planned) : job' = [job EXCEPT ![p].run = i]
          /\ Goto(p, "skipFinish") /\ NoEvent
       \/ Event("db") /\ Goto(p, "release") /\ UNCHANGED job
    /\ UNCHANGED <<rows, lock, policy, maint, done, asked, used>>

\* finish(run.id, skipped); its result is not looked at.
SkipFinish(p) ==
    /\ At(p, "skipFinish")
    /\ \/ rows' = Finished(rows, job[p].run, "skipped", 0, job[p].fp, <<>>) /\ NoEvent
       \/ Event("db") /\ UNCHANGED rows
    /\ Goto(p, "release")
    /\ UNCHANGED <<lock, policy, job, maint, done, asked, used>>

-----------------------------------------------------------------------------
(* _run_capture_requests, with the lock.                                   *)

\* build_capture_requests, from the clock, the catalogues and the tables as they
\* are in this run, whatever an earlier run of the planned time was given; most
\* builders leave out what is stored, the one of the checkpoint does not.
Stored == UNION {done[t] : t \in Times}
Builds(l) ==
    \/ mode # "first" /\ l = list
    \/ mode # "checkpoint" /\ Range(l) = Range(list) \ Stored
RunLists(f) == IF f = NoFp THEN {l \in Lists : Builds(l)} ELSE {<<f>>}

\* Mutant: any previous run is continued, a failed one too.
StartOfAnyRun(rs, t, l) ==
    LET previous == {i \in LatestFor(rs, t) : rs[i].status # "running"}
    IN  IF mode # "checkpoint" \/ previous = {} THEN {0}
        ELSE {s \in 0..Len(l) : \E i \in previous : s = rs[i].next}

\* _request_checkpoint_window: a checkpointed capture continues a partial run,
\* at the same index of what may be another list by now.
StartIndexes(rs, t, l) ==
    LET previous == {i \in LatestFor(rs, t) : rs[i].status = "partial"}
    IN  IF mode # "checkpoint" \/ previous = {} THEN {0}
        ELSE {s \in 0..Len(l) : \E i \in previous :
                 \/ s = rs[i].next
                 \/ s = Len(l) /\ s < rs[i].next}

WindowEnd(s, total) == IF mode # "all" /\ s + Limit < total THEN s + Limit ELSE total

WithWindow(j, l, s) == [j EXCEPT !.list = l, !.start = s, !.at = s, !.next = WindowEnd(s, Len(l))]

\* build_capture_requests and the window; a failed query reads as "no previous
\* run", an exception leads to the except branch.
SelectWindow(p) ==
    /\ At(p, "window")
    /\ \/ \E l \in RunLists(job[p].fp) :
             /\ \/ /\ \E s \in StartIndexes(rows, job[p].planned, l) :
                          job' = [job EXCEPT ![p] = WithWindow(@, l, s)]
                   /\ NoEvent
                \/ Event("db") /\ job' = [job EXCEPT ![p] = WithWindow(@, l, 0)]
             /\ asked' = [asked EXCEPT ![job[p].planned] = @ \cup {l}]
       \/ Event("interrupt") /\ job' = [job EXCEPT ![p].err = TRUE] /\ UNCHANGED asked
    /\ Goto(p, "supersede")
    /\ UNCHANGED <<rows, lock, policy, maint, done, used>>

\* create(running), first statement; its result is not looked at.
Supersede(p) ==
    /\ At(p, "supersede")
    /\ \/ rows' = Superseded(rows) /\ NoEvent
       \/ Event("db") /\ UNCHANGED rows
    /\ Goto(p, "insert")
    /\ UNCHANGED <<lock, policy, job, maint, done, asked, used>>

\* create raises: the except branch creates the row once more, and when that
\* fails too the exception leaves through finally.
CreateRaises(p) ==
    /\ Event("db")
    /\ job' = [job EXCEPT ![p].err = TRUE]
    /\ Goto(p, IF job[p].err THEN "release" ELSE "supersede")

\* What the checkpoint of a row says: absent after "prepare failed".
RecordedNext(j) == IF j.err THEN 0 ELSE j.next
RecordedList(j) == IF j.err THEN <<>> ELSE j.list

\* create(running), second statement.
InsertRun(p) ==
    /\ At(p, "insert")
    /\ \/ /\ rows' = Append(rows, [status |-> "running", planned |-> job[p].planned,
                                   next |-> RecordedNext(job[p]), fp |-> job[p].fp,
                                   list |-> RecordedList(job[p])])
          /\ job' = [job EXCEPT ![p].mine = Len(rows) + 1]
          /\ Goto(p, "select") /\ NoEvent
       \/ CreateRaises(p) /\ UNCHANGED rows
    /\ UNCHANGED <<lock, policy, maint, done, asked, used>>

\* create(running), third statement: again the latest row of the planned time.
SelectRun(p) ==
    /\ At(p, "select")
    /\ \/ /\ \E i \in LatestFor(rows, job[p].planned) : job' = [job EXCEPT ![p].run = i]
          /\ Goto(p, IF job[p].err THEN "finish" ELSE "exec") /\ NoEvent
       \/ CreateRaises(p)
    /\ UNCHANGED <<rows, lock, policy, maint, done, asked, used>>

\* _execute_requests: one request, then persist_progress.
ExecuteRequest(p) ==
    /\ At(p, "exec") /\ job[p].at < job[p].next
    /\ \/ /\ done' = [done EXCEPT ![job[p].planned] = @ \cup {job[p].list[job[p].at + 1]}]
          /\ job' = [job EXCEPT ![p].at = @ + 1]
          /\ NoEvent
       \/ /\ Event("request")
          /\ job' = [job EXCEPT ![p].at = @ + 1, ![p].failed = TRUE]
          /\ UNCHANGED done
    /\ rows' = Progressed(rows, job[p].run, job[p].next, job[p].fp, job[p].list)
    /\ UNCHANGED <<lock, policy, pc, maint, asked, used>>

\* A BaseException out of a request.
Interrupt(p) ==
    /\ At(p, "exec") /\ Event("interrupt")
    /\ job' = [job EXCEPT ![p].err = TRUE]
    /\ Goto(p, "finish")
    /\ UNCHANGED <<rows, lock, policy, maint, done, asked, used>>

\* _execution_status, with the pending checkpoint counted as a partial batch.
ExecutionStatus(j) ==
    IF j.err \/ j.failed THEN "failed"
    ELSE IF j.next < Len(j.list) THEN "partial"
    ELSE "success"

\* finish(run.id, status); its result is not looked at.
FinishRun(p) ==
    /\ At(p, "finish") \/ (At(p, "exec") /\ job[p].at = job[p].next)
    /\ \/ /\ rows' = Finished(rows, job[p].run, ExecutionStatus(job[p]), RecordedNext(job[p]),
                              IF job[p].err THEN NoFp ELSE job[p].fp, RecordedList(job[p]))
          /\ NoEvent
       \/ Event("db") /\ UNCHANGED rows
    /\ Goto(p, "release")
    /\ UNCHANGED <<lock, policy, job, maint, done, asked, used>>

\* Mutant: the unlock does not ask who holds the lock.
ReleaseAnyLock(a) ==
    /\ At(a, "release")
    /\ lock' = None
    /\ Goto(a, "idle") /\ Forget(a)
    /\ NoEvent
    /\ UNCHANGED <<rows, policy, done, asked, used>>

\* The finally clause, and the explicit releases; nothing to do for a process
\* that never took the lock or whose session is gone.
Release(a) ==
    /\ At(a, "release")
    /\ lock' = IF lock = a THEN None ELSE lock
    /\ Goto(a, "idle") /\ Forget(a)
    /\ NoEvent
    /\ UNCHANGED <<rows, policy, done, asked, used>>

-----------------------------------------------------------------------------
(* CaptureRunMaintenance.reconcile_stale_running.                          *)

\* The scan: nothing to do without a running row older than started_before.
Scan(m) ==
    /\ At(m, "idle")
    /\ \E c \in 0..Len(rows) :
          /\ RunningBefore(rows, c) # {}
          /\ cutoff' = [cutoff EXCEPT ![m] = c]
    /\ Goto(m, "mlock")
    /\ NoEvent
    /\ UNCHANGED <<rows, lock, policy, job, stale, done, asked, used>>

\* Mutant: maintenance does not take the lock.
MaintLockNot(m) ==
    /\ At(m, "mlock")
    /\ Goto(m, "mread")
    /\ NoEvent
    /\ UNCHANGED <<rows, lock, policy, job, maint, done, asked, used>>

\* A capability whose lock is taken is reported as active and left alone.
MaintLock(m) ==
    /\ At(m, "mlock")
    /\ \/ lock = None /\ lock' = m /\ Goto(m, "mread") /\ UNCHANGED cutoff
       \/ lock # None /\ Goto(m, "idle") /\ UNCHANGED lock /\ cutoff' = [cutoff EXCEPT ![m] = 0]
    /\ NoEvent
    /\ UNCHANGED <<rows, policy, job, stale, done, asked, used>>

\* The second read, under the lock.
MaintRead(m) ==
    /\ At(m, "mread")
    /\ \/ stale' = [stale EXCEPT ![m] = RunningBefore(rows, cutoff[m])] /\ NoEvent
       \/ Event("db") /\ stale' = [stale EXCEPT ![m] = {}]
    /\ Goto(m, IF stale'[m] = {} THEN "release" ELSE "mfail")
    /\ UNCHANGED <<rows, lock, policy, job, cutoff, done, asked, used>>

\* fail_stale_running.
MaintFail(m) ==
    /\ At(m, "mfail")
    /\ \/ rows' = FailRunning(rows, stale[m]) /\ NoEvent
       \/ Event("db") /\ UNCHANGED rows
    /\ Goto(m, "release")
    /\ UNCHANGED <<lock, policy, job, maint, done, asked, used>>

-----------------------------------------------------------------------------
(* The environment.                                                        *)

\* A process dies; PostgreSQL ends its session and frees the lock.
Crash(a) ==
    /\ ~At(a, "idle") /\ Event("crash")
    /\ lock' = IF lock = a THEN None ELSE lock
    /\ Goto(a, "idle") /\ Forget(a)
    /\ UNCHANGED <<rows, policy, done, asked, used>>

\* The session that holds the lock ends while its process goes on.
LoseSession ==
    /\ lock # None /\ Event("session")
    /\ lock' = None
    /\ UNCHANGED <<rows, policy, pc, job, maint, done, asked, used>>

\* update_policy of the capture policy, or an edit of the cache policy.
ChangePolicy ==
    /\ Event("policy")
    /\ \/ enabled' = ~enabled /\ UNCHANGED writable
       \/ writable' = ~writable /\ UNCHANGED enabled
    /\ UNCHANGED <<rows, lock, slot, mode, list, pc, job, maint, done, asked, used>>

\* A trading day closes, or a catalogue that requests are made for changes.
ChangeList ==
    /\ Event("list")
    /\ \E l \in FullLists : l # list /\ list' = l
    /\ UNCHANGED <<rows, lock, slot, enabled, writable, mode, pc, job, maint, done, asked, used>>

\* The schedule reaches its next planned time.
NextSlot ==
    /\ \E t \in Slots : t > slot /\ slot' = t
    /\ NoEvent
    /\ UNCHANGED <<rows, lock, enabled, writable, mode, list, pc, job, maint, done, asked, used>>

-----------------------------------------------------------------------------
Capture(p) ==
    \/ StartDue(p) \/ StartManual(p) \/ StartRepair(p)
    \/ Precheck(p) \/ TakeLock(p) \/ ReuseRepair(p)
    \/ SkipInsert(p) \/ SkipSelect(p) \/ SkipFinish(p)
    \/ SelectWindow(p) \/ Supersede(p) \/ InsertRun(p) \/ SelectRun(p)
    \/ ExecuteRequest(p) \/ Interrupt(p) \/ FinishRun(p)

Reconcile(m) == Scan(m) \/ MaintLock(m) \/ MaintRead(m) \/ MaintFail(m)

Environment == LoseSession \/ ChangePolicy \/ ChangeList \/ NextSlot

Next ==
    \/ \E p \in Procs : Capture(p)
    \/ \E m \in Maint : Reconcile(m)
    \/ \E a \in Agents : Release(a) \/ Crash(a)
    \/ Environment

Spec == Init /\ [][Next]_vars

(* Whoever calls run_due_captures and reconcile_stale_running calls them    *)
(* again and again, and a process that is not killed runs on.  Nothing is   *)
(* assumed of the environment, whose events MaxEvents bounds.               *)
Fairness ==
    /\ \A p \in Procs : WF_vars(Capture(p) \/ Release(p))
    /\ \A m \in Maint : WF_vars(Reconcile(m) \/ Release(m))

FairSpec == Spec /\ Fairness

-----------------------------------------------------------------------------
(* Properties.                                                             *)

Exclusive == "session" \notin outages
Reliable == outages = {}

\* While sessions last, one process at most is between acquire and release:
\* captures, repairs and maintenance of a capability exclude each other.
OneExecutor ==
    Exclusive => \A a, b \in Agents : pc[a] \in Critical /\ pc[b] \in Critical => a = b

\* The windows of a checkpointed planned time were cut from lists that say the
\* same wherever both reach: a catalogue that grows or shrinks at its end keeps
\* this, a new trading day or a concept added in front does not.
SameUpTo(l, m) == \A k \in DOMAIN l \cap DOMAIN m : l[k] = m[k]
Steady(t) == mode = "checkpoint" => \A l, m \in asked[t] : SameUpTo(l, m)

\* A success says that every request of the list its run was given was executed,
\* by that run or by a chain of windows, whatever failed, crashed or overlapped:
\* always for the captures without a checkpoint, and for the one that has it as
\* long as the index means the same request from window to window.
SuccessIsComplete ==
    \A i \in DOMAIN rows :
        rows[i].status = "success" /\ Steady(rows[i].planned)
        => Range(rows[i].list) \subseteq done[rows[i].planned]

\* run_repair is idempotent: one success per fingerprint.
RepairOnce ==
    Reliable => \A i, j \in DOMAIN rows :
        /\ rows[i].status = "success" /\ rows[j].status = "success"
        /\ rows[i].fp = rows[j].fp /\ rows[i].fp # NoFp
        => i = j

\* Neither maintenance nor the supersede of another run fails the row of a run
\* that is still executing ("without overriding a live lock owner").
LiveRunKept ==
    Exclusive => \A p \in Procs :
        /\ pc[p] \in {"select", "exec", "finish"}
        /\ rows[job[p].mine].status = "running"
        /\ rows'[job[p].mine].status = "failed"
        => pc'[p] # pc[p]

LiveRunNotFailed == [][LiveRunKept]_vars

\* The checkpoint of the last window executed for a planned time is where the
\* next run of that planned time starts.
ExecutedFor(t) == {i \in IdsFor(rows, t) : rows[i].status # "skipped"}

ResumesFromCheckpoint ==
    [][\A p \in Procs : \A i \in ExecutedFor(job[p].planned) :
        /\ At(p, "window") /\ pc'[p] = "supersede"
        /\ \A j \in ExecutedFor(job[p].planned) : j <= i
        /\ rows[i].status = "partial"
        => job'[p].start = rows[i].next]_vars

\* A slot whose policy stays enabled is captured in the end, unless the next
\* planned time comes first: a crash, a failed request or statement, an interrupt
\* and checkpointed windows notwithstanding.  (Or the table has grown to the bound
\* of the model, which stops the scheduler.)
Captured(t) == \E i \in DOMAIN rows : rows[i].planned = t /\ rows[i].status = "success"

SlotIsCaptured ==
    \A t \in Slots : (slot = t) ~> (slot # t \/ Captured(t) \/ Len(rows) >= MaxRows)

RowRuns(n) == n \in DOMAIN rows /\ rows[n].status = "running"

\* A row that says "running" is finished, superseded or reconciled in the end.
RunningRowEnds ==
    \A n \in 1..MaxRows : RowRuns(n) ~> ~RowRuns(n)
=============================================================================
