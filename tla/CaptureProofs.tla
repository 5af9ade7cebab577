----------------------------- MODULE CaptureProofs -----------------------------
(***************************************************************************)
(* Proofs about the capture of daily rows.                                 *)
(*                                                                         *)
(* CaptureJob, for every set of processes, any request lists and every      *)
(* window: the types, the exclusion the advisory lock gives, the     *)
(* completeness of a recorded success, the rows of the runs that still     *)
(* execute, and the repairs that are made only once.                       *)
(*                                                                         *)
(* CaptureGaps, for any codes, dates and processes: a gap is resolved only *)
(* when its bars are stored.  An audit resolves by the coverage it has     *)
(* written and a batch by the answer it has written, both of which may be  *)
(* old by then; neither can be wrong because bars are never taken back.    *)
(***************************************************************************)
EXTENDS CaptureJob, CaptureGaps, SequenceTheorems, TLAPS

(***************************************************************************)
(* The statements of the repository keep the table a table: rows stay where *)
(* they are and keep their planned time.                                    *)
(***************************************************************************)
Extends(new, old) ==
    /\ new \in Seq(Row)
    /\ DOMAIN old \subseteq DOMAIN new
    /\ \A i \in DOMAIN old : new[i].planned = old[i].planned

LEMMA AppendExtends ==
    ASSUME NEW rs \in Seq(Row), NEW r \in Row
    PROVE  /\ Extends(Append(rs, r), rs)
           /\ DOMAIN Append(rs, r) = DOMAIN rs \cup {Len(rs) + 1}
           /\ \A i \in DOMAIN rs : Append(rs, r)[i] = rs[i]
           /\ Append(rs, r)[Len(rs) + 1] = r
  BY DEF Extends

LEMMA FailRunningExtends ==
    ASSUME NEW rs \in Seq(Row), NEW ids
    PROVE  /\ Extends(FailRunning(rs, ids), rs)
           /\ DOMAIN FailRunning(rs, ids) = DOMAIN rs
  <1> DEFINE new == FailRunning(rs, ids)
  <1>1. DOMAIN rs = 1..Len(rs) /\ Len(rs) \in Nat
    OBVIOUS
  <1>2. new \in [1..Len(rs) -> Row]
    <2> SUFFICES ASSUME NEW i \in 1..Len(rs) PROVE new[i] \in Row
      BY <1>1 DEF FailRunning
    <2>1. rs[i] \in Row
      OBVIOUS
    <2>2. new[i] = IF i \in ids /\ rs[i].status = "running"
                   THEN [rs[i] EXCEPT !.status = "failed"] ELSE rs[i]
      BY <1>1 DEF FailRunning
    <2>3. [rs[i] EXCEPT !.status = "failed"] \in Row
      BY <2>1 DEF Row, Status
    <2> QED
      BY <2>1, <2>2, <2>3
  <1>3. new \in Seq(Row)
    BY <1>1, <1>2, SeqDef
  <1>4. \A i \in DOMAIN rs : new[i].planned = rs[i].planned
    BY <1>1 DEF FailRunning, Row
  <1> QED
    BY <1>1, <1>2, <1>3, <1>4 DEF Extends

\* What finish does to the table: the row id gets its four fields, no other moves.
FinishedRow(new, rs, id, st, nx, fp, ls) ==
    /\ DOMAIN new = DOMAIN rs
    /\ \A i \in DOMAIN rs : i # id => new[i] = rs[i]
    /\ id \in DOMAIN rs => /\ new[id].status = st /\ new[id].next = nx /\ new[id].fp = fp
                         /\ new[id].list = ls

\* What update_progress does: no status moves, and only a running row changes.
ProgressedRow(new, rs) ==
    /\ DOMAIN new = DOMAIN rs
    /\ \A i \in DOMAIN rs : new[i].status = rs[i].status
    /\ \A i \in DOMAIN rs : rs[i].status # "running" => new[i] = rs[i]

LEMMA FinishedExtends ==
    ASSUME NEW rs \in Seq(Row), NEW id, NEW st \in Status, NEW nx \in Nat,
           NEW fp \in Fingerprints \cup {NoFp}, NEW ls \in Seq(Asks)
    PROVE  /\ Extends(Finished(rs, id, st, nx, fp, ls), rs)
           /\ FinishedRow(Finished(rs, id, st, nx, fp, ls), rs, id, st, nx, fp, ls)
  <1> DEFINE new == Finished(rs, id, st, nx, fp, ls)
  <1>1. DOMAIN rs = 1..Len(rs) /\ Len(rs) \in Nat
    OBVIOUS
  <1>2. ASSUME NEW i \in DOMAIN rs
        PROVE  new[i] = IF i = id THEN [rs[i] EXCEPT !.status = st, !.next = nx, !.fp = fp, !.list = ls]
                        ELSE rs[i]
    BY DEF Finished
  <1>3. \A i \in 1..Len(rs) : rs[i] \in Row
    OBVIOUS
  <1>4. ASSUME NEW i \in DOMAIN rs PROVE new[i] \in Row /\ new[i].planned = rs[i].planned
    BY <1>1, <1>2, <1>3 DEF Row
  <1>5. DOMAIN new = DOMAIN rs
    BY DEF Finished
  <1>6. new \in [1..Len(rs) -> Row]
    BY <1>1, <1>4, <1>5 DEF Finished
  <1>7. new \in Seq(Row)
    BY <1>1, <1>6, SeqDef
  <1>8. id \in DOMAIN rs => /\ new[id].status = st /\ new[id].next = nx /\ new[id].fp = fp
                            /\ new[id].list = ls
    BY <1>1, <1>2, <1>3 DEF Row
  <1> HIDE DEF new
  <1>9. \A i \in DOMAIN rs : i # id => new[i] = rs[i]
    BY <1>2
  <1> QED
    BY <1>4, <1>5, <1>7, <1>8, <1>9 DEF Extends, FinishedRow, new

LEMMA ProgressedExtends ==
    ASSUME NEW rs \in Seq(Row), NEW id, NEW nx \in Nat,
           NEW fp \in Fingerprints \cup {NoFp}, NEW ls \in Seq(Asks)
    PROVE  /\ Extends(Progressed(rs, id, nx, fp, ls), rs)
           /\ ProgressedRow(Progressed(rs, id, nx, fp, ls), rs)
  <1>1. CASE rs[id].status = "running"
    <2>1. "running" \in Status
      BY DEF Status
    <2> DEFINE new == Finished(rs, id, "running", nx, fp, ls)
    <2>2. Extends(new, rs) /\ FinishedRow(new, rs, id, "running", nx, fp, ls)
      BY <2>1, FinishedExtends
    <2>4. \A i \in DOMAIN rs : new[i].status = rs[i].status
      BY <1>1, <2>2 DEF FinishedRow
    <2>5. \A i \in DOMAIN rs : rs[i].status # "running" => new[i] = rs[i]
      BY <1>1, <2>2 DEF FinishedRow
    <2>6. Progressed(rs, id, nx, fp, ls) = new
      BY <1>1 DEF Progressed
    <2>7. DOMAIN new = DOMAIN rs
      BY <2>2 DEF FinishedRow
    <2> HIDE DEF new
    <2> QED
      BY <2>2, <2>4, <2>5, <2>6, <2>7 DEF ProgressedRow
  <1>2. CASE rs[id].status # "running"
    BY <1>2 DEF Progressed, Extends, ProgressedRow
  <1> QED
    BY <1>1, <1>2

-----------------------------------------------------------------------------
(* Types.                                                                  *)

LEMMA StartType ==
    ASSUME NEW rs, NEW t, NEW l \in Seq(Asks), NEW s \in StartIndexes(rs, t, l)
    PROVE  s \in 0..Len(l)
  BY DEF StartIndexes

LEMMA RunListType ==
    ASSUME JobAssumption, NEW j \in Job, NEW l \in RunLists(j.fp)
    PROVE  l \in Seq(Asks)
  <1>1. CASE j.fp = NoFp
    <2>1. l \in Seq(Requests)
      BY <1>1 DEF RunLists, JobAssumption
    <2>2. \A i \in 1..Len(l) : l[i] \in Asks
      BY <2>1 DEF Asks
    <2> QED
      BY <2>1, <2>2, SeqDef
  <1>2. CASE j.fp # NoFp
    <2>1. l = <<j.fp>> /\ j.fp \in Asks
      BY <1>2 DEF RunLists, Job, JobFields, Asks
    <2> QED
      BY <2>1
  <1> QED
    BY <1>1, <1>2

LEMMA WindowType ==
    ASSUME JobAssumption, NEW j \in Job, NEW l \in Seq(Asks), NEW s \in 0..Len(l)
    PROVE  /\ WindowEnd(s, Len(l)) \in s..Len(l)
           /\ WithWindow(j, l, s) \in Job
  <1>1. Len(l) \in Nat
    OBVIOUS
  <1>2. WindowEnd(s, Len(l)) \in s..Len(l)
    BY <1>1 DEF WindowEnd, JobAssumption
  <1>3. s \in Nat /\ WindowEnd(s, Len(l)) \in Nat
    BY <1>1, <1>2
  <1> DEFINE w == WithWindow(j, l, s)
  <1>4. w \in JobFields
    BY <1>3 DEF WithWindow, Job, JobFields
  <1>5. w.next = WindowEnd(s, Len(l)) /\ w.list = l
    BY DEF WithWindow, Job, JobFields
  <1> HIDE DEF w
  <1>6. w \in Job
    BY <1>1, <1>2, <1>4, <1>5 DEF Job
  <1> QED
    BY <1>2, <1>6 DEF w

LEMMA JobUpdates ==
    ASSUME NEW j \in Job
    PROVE  /\ \A i \in Nat : [j EXCEPT !.run = i] \in Job
           /\ \A i \in Nat : [j EXCEPT !.mine = i] \in Job
           /\ [j EXCEPT !.err = TRUE] \in Job
           /\ \A i \in Nat : [j EXCEPT !.at = i] \in Job
           /\ \A i \in Nat : [j EXCEPT !.at = i, !.failed = TRUE] \in Job
  BY DEF Job, JobFields

LEMMA LatestIsRow ==
    ASSUME NEW rs \in Seq(Row), NEW t, NEW i \in LatestFor(rs, t)
    PROVE  i \in DOMAIN rs /\ i \in Nat /\ rs[i].planned = t
  BY DEF LatestFor, IdsFor

LEMMA NewJobType ==
    ASSUME JobAssumption, NEW t \in Times, NEW f \in Fingerprints \cup {NoFp}
    PROVE  NewJob(t, f) \in Job
  BY DEF NewJob, Job, JobFields, JobAssumption

LEMMA NoJobType ==
    ASSUME JobAssumption, RunsAssumption
    PROVE  NoJob \in Job
  <1>1. (CHOOSE t \in Slots : TRUE) \in Times
    BY DEF RunsAssumption, Times
  <1> QED
    BY <1>1, NewJobType DEF NoJob

LEMMA ForgetType ==
    ASSUME JobAssumption, RunsAssumption, TypeOK, NEW a, Forget(a)
    PROVE  /\ job' \in [Procs -> Job]
           /\ cutoff' \in [Maint -> Nat] /\ stale' \in [Maint -> SUBSET Nat]
  <1>1. job' \in [Procs -> Job]
    BY NoJobType DEF Forget, TypeOK
  <1>2. cutoff' \in [Maint -> Nat] /\ stale' \in [Maint -> SUBSET Nat]
    BY DEF Forget, TypeOK
  <1> QED
    BY <1>1, <1>2

LEMMA InitType == Init => TypeOK
  <1> SUFFICES ASSUME Init PROVE TypeOK
    OBVIOUS
  <1>1. job \in [Procs -> Job]
    BY NoJobType, JobAssumption, RunsAssumption DEF Init
  <1>2. pc \in [Agents -> Labels]
    BY DEF Init, Labels
  <1>3. rows \in Seq(Row)
    BY DEF Init
  <1> QED
    BY <1>1, <1>2, <1>3, JobAssumption DEF Init, TypeOK, EventsOK, JobAssumption

\* Every step notes the event it depends on, or that there was none.
LEMMA StepNotes == [Next]_vars => NoEvent \/ \E e \in Events : Event(e)
  <1> SUFFICES ASSUME [Next]_vars PROVE NoEvent \/ \E e \in Events : Event(e)
    OBVIOUS
  <1>2. ASSUME NEW p \in Procs, Capture(p) PROVE NoEvent \/ \E e \in Events : Event(e)
    <2>1. CASE StartDue(p) \/ StartManual(p) \/ StartRepair(p)
      BY <2>1 DEF StartDue, StartManual, StartRepair, StartNow, Event
    <2>2. CASE Precheck(p) \/ TakeLock(p) \/ ReuseRepair(p)
      BY <2>2 DEF Precheck, TakeLock, ReuseRepair, Event
    <2>3. CASE SkipInsert(p) \/ SkipSelect(p) \/ SkipFinish(p)
      BY <2>3 DEF SkipInsert, SkipSelect, SkipFinish, Event
    <2>4. CASE SelectWindow(p) \/ Supersede(p)
      BY <2>4 DEF SelectWindow, Supersede, Event
    <2>5. CASE InsertRun(p) \/ SelectRun(p)
      BY <2>5 DEF InsertRun, SelectRun, CreateRaises, Event
    <2>6. CASE ExecuteRequest(p) \/ Interrupt(p) \/ FinishRun(p)
      BY <2>6 DEF ExecuteRequest, Interrupt, FinishRun, Event
    <2> QED
      BY <1>2, <2>1, <2>2, <2>3, <2>4, <2>5, <2>6 DEF Capture
  <1>3. ASSUME NEW m \in Maint, Reconcile(m) PROVE NoEvent \/ \E e \in Events : Event(e)
    BY <1>3 DEF Reconcile, Scan, MaintLock, MaintRead, MaintFail, Event
  <1>4. ASSUME NEW a \in Agents, Release(a) \/ Crash(a) PROVE NoEvent \/ \E e \in Events : Event(e)
    BY <1>4 DEF Release, Crash, Event
  <1>5. ASSUME Environment PROVE NoEvent \/ \E e \in Events : Event(e)
    BY <1>5 DEF Environment, LoseSession, ChangePolicy, ChangeList, NextSlot, Event
  <1>6. CASE UNCHANGED vars
    BY <1>6 DEF vars, NoEvent
  <1> QED
    BY <1>2, <1>3, <1>4, <1>5, <1>6 DEF Next

LEMMA EventType ==
    ASSUME EventsOK, JobAssumption, NoEvent \/ \E e \in Events : Event(e)
    PROVE  EventsOK'
  <1>1. CASE NoEvent
    BY <1>1 DEF EventsOK, NoEvent
  <1>2. ASSUME NEW e \in Events, Event(e) PROVE EventsOK'
    <2>1. events' \in 0..MaxEvents
      BY <1>2, JobAssumption DEF EventsOK, Event, JobAssumption
    <2>2. outages' \subseteq Outage
      BY <1>2 DEF EventsOK, Event
    <2> QED
      BY <2>1, <2>2 DEF EventsOK
  <1> QED
    BY <1>1, <1>2

(***************************************************************************)
(* Every step keeps the types: one case per action.                        *)
(***************************************************************************)
LEMMA StepType == TypeOK /\ [Next]_vars => TypeOK'
  <1> SUFFICES ASSUME TypeOK, [Next]_vars PROVE TypeOK'
    OBVIOUS
  <1>e. EventsOK'
    BY StepNotes, EventType, JobAssumption DEF TypeOK
  <1>0. MaxEvents \in Nat /\ FullLists \subseteq Lists
    BY JobAssumption DEF JobAssumption
  <1> USE JobAssumption, RunsAssumption, <1>0
  <1> USE DEF policy, maint
  <1>1. ASSUME NEW p \in Procs, Capture(p) PROVE TypeOK'
    <2>0. p \in Agents
      BY DEF Agents
    <2>a. job[p] \in Job
      BY DEF TypeOK
    <2>b. /\ job[p].planned \in Times /\ job[p].fp \in Fingerprints \cup {NoFp}
          /\ job[p].next \in Nat /\ job[p].err \in BOOLEAN /\ job[p].list \in Seq(Asks)
      BY <2>a DEF Job, JobFields
    <2>m. RecordedList(job[p]) \in Seq(Asks) /\ <<>> \in Seq(Asks)
      BY <2>b DEF RecordedList
    <2>d. /\ rows \in Seq(Row) /\ job \in [Procs -> Job]
          /\ done \in [Times -> SUBSET Asks]
      BY DEF TypeOK
    <2>f. /\ \A i \in Nat : [job[p] EXCEPT !.run = i] \in Job
          /\ \A i \in Nat : [job[p] EXCEPT !.mine = i] \in Job
      BY <2>a, JobUpdates
    <2>g. [job[p] EXCEPT !.err = TRUE] \in Job
      BY <2>a, JobUpdates
    <2>h. \A e \in Status, n \in Nat, f \in Fingerprints \cup {NoFp}, i \in Nat, l \in Seq(Asks) :
              Finished(rows, i, e, n, f, l) \in Seq(Row)
      BY <2>d, FinishedExtends, Zenon DEF Extends
    <2>i. \A r \in Row : Append(rows, r) \in Seq(Row)
      BY <2>d
    <2>j. job[p].run \in Nat
      BY <2>a DEF Job, JobFields
    <2>k. \A i \in LatestFor(rows, job[p].planned) : i \in Nat
      BY <2>d, LatestIsRow
    <2>l. 0 \in Nat /\ "skipped" \in Status
      BY DEF Status
    <2>c. RecordedNext(job[p]) \in Nat
      BY <2>b DEF RecordedNext
    <2>1. CASE StartDue(p)
      <3>1. NewJob(slot, NoFp) \in Job
        BY NewJobType DEF TypeOK, Times
      <3> QED
        BY <2>0, <2>1, <3>1, <1>e DEF StartDue, TypeOK, Goto, Labels
    <2>2. CASE StartManual(p) \/ StartRepair(p)
      <3>1. PICK t \in NowTimes, f \in Fingerprints \cup {NoFp}, l \in {"precheck", "repairLock"} :
                StartNow(p, t, f, l)
        BY <2>2 DEF StartManual, StartRepair
      <3>2. NewJob(t, f) \in Job
        BY NewJobType DEF Times
      <3> QED
        BY <2>0, <3>1, <3>2, <1>e DEF StartNow, TypeOK, Goto, Labels
    <2>3. CASE Precheck(p)
      BY <2>0, <2>3, <1>e DEF Precheck, TypeOK, Goto, Labels
    <2>4. CASE TakeLock(p)
      BY <2>0, <2>4, <1>e DEF TakeLock, TypeOK, Goto, Labels
    <2>5. CASE ReuseRepair(p)
      <3>1. EventsOK'
        BY <1>e
      <3>2. pc' \in [Agents -> Labels]
        BY <2>0, <2>5 DEF ReuseRepair, TypeOK, Goto, Labels
      <3> QED
        BY <2>5, <3>1, <3>2 DEF ReuseRepair, TypeOK
    <2>6. CASE SkipInsert(p)
      <3>1. [status |-> "skipped", planned |-> job[p].planned, next |-> 0, fp |-> job[p].fp,
             list |-> <<>>] \in Row
        BY <2>b, <2>m DEF Row, Status
      <3>2. rows' \in Seq(Row)
        BY <2>6, <2>d, <2>i, <3>1 DEF SkipInsert
      <3>e. EventsOK'
        BY <1>e
      <3>p. pc' \in [Agents -> Labels]
        BY <2>0, <2>6 DEF SkipInsert, TypeOK, Goto, Labels
      <3> QED
        BY <2>6, <3>2, <3>e, <3>p DEF SkipInsert, TypeOK
    <2>7. CASE SkipSelect(p)
      <3>1. job' \in [Procs -> Job]
        <4>1. CASE \E i \in LatestFor(rows, job[p].planned) : job' = [job EXCEPT ![p].run = i]
          <5>1. PICK i \in Nat : job' = [job EXCEPT ![p].run = i]
            BY <2>k, <4>1
          <5>2. [job[p] EXCEPT !.run = i] \in Job
            BY <2>f
          <5> QED
            BY <2>d, <5>1, <5>2
        <4>2. CASE UNCHANGED job
          BY <2>d, <4>2
        <4> QED
          BY <2>7, <4>1, <4>2 DEF SkipSelect
      <3>e. EventsOK'
        BY <1>e
      <3>p. pc' \in [Agents -> Labels]
        BY <2>0, <2>7 DEF SkipSelect, TypeOK, Goto, Labels
      <3> QED
        BY <2>7, <3>1, <3>e, <3>p DEF SkipSelect, TypeOK
    <2>8. CASE SkipFinish(p)
      <3>1. rows' \in Seq(Row)
        <4>1. Finished(rows, job[p].run, "skipped", 0, job[p].fp, <<>>) \in Seq(Row)
          BY <2>b, <2>h, <2>j, <2>l, <2>m, Zenon
        <4> QED
          BY <2>8, <2>d, <4>1, Zenon DEF SkipFinish
      <3>e. EventsOK'
        BY <1>e
      <3>p. pc' \in [Agents -> Labels]
        BY <2>0, <2>8 DEF SkipFinish, TypeOK, Goto, Labels
      <3> QED
        BY <2>8, <3>1, <3>e, <3>p DEF SkipFinish, TypeOK
    <2>9. CASE SelectWindow(p)
      <3>1. \A l \in RunLists(job[p].fp) : l \in Seq(Asks)
        BY <2>a, RunListType
      <3>2. ASSUME NEW l \in RunLists(job[p].fp), NEW s,
                   s = 0 \/ s \in StartIndexes(rows, job[p].planned, l)
            PROVE  WithWindow(job[p], l, s) \in Job
        <4>1. s \in 0..Len(l)
          BY <3>1, <3>2, StartType
        <4> QED
          BY <2>a, <3>1, <4>1, WindowType
      <3>3. [job[p] EXCEPT !.err = TRUE] \in Job
        BY <2>a DEF Job, JobFields
      <3>4. job' \in [Procs -> Job]
        <4>1. CASE \E l \in RunLists(job[p].fp) : \E s :
                      /\ s = 0 \/ s \in StartIndexes(rows, job[p].planned, l)
                      /\ job' = [job EXCEPT ![p] = WithWindow(@, l, s)]
          BY <2>d, <3>2, <4>1
        <4>2. CASE job' = [job EXCEPT ![p].err = TRUE]
          BY <2>d, <3>3, <4>2
        <4> QED
          BY <2>9, <4>1, <4>2 DEF SelectWindow
      <3>5. asked' \in [Times -> SUBSET Seq(Asks)]
        <4>1. asked \in [Times -> SUBSET Seq(Asks)]
          BY DEF TypeOK
        <4>2. CASE asked' = asked
          BY <4>1, <4>2
        <4>3. CASE \E l \in Seq(Asks) : asked' = [asked EXCEPT ![job[p].planned] = @ \cup {l}]
          BY <2>b, <4>1, <4>3
        <4> QED
          BY <2>9, <3>1, <4>2, <4>3 DEF SelectWindow
      <3>e. EventsOK'
        BY <1>e
      <3>p. pc' \in [Agents -> Labels]
        BY <2>0, <2>9 DEF SelectWindow, TypeOK, Goto, Labels
      <3> QED
        BY <2>9, <3>4, <3>5, <3>e, <3>p DEF SelectWindow, TypeOK
    <2>10. CASE Supersede(p)
      <3>1. rows' \in Seq(Row)
        BY <2>10, FailRunningExtends DEF Supersede, Superseded, TypeOK, Extends
      <3>e. EventsOK'
        BY <1>e
      <3>p. pc' \in [Agents -> Labels]
        BY <2>0, <2>10 DEF Supersede, TypeOK, Goto, Labels
      <3> QED
        BY <2>10, <3>1, <3>e, <3>p DEF Supersede, TypeOK
    <2>11. CASE InsertRun(p)
      <3>1. [status |-> "running", planned |-> job[p].planned, next |-> RecordedNext(job[p]),
             fp |-> job[p].fp, list |-> RecordedList(job[p])] \in Row
        BY <2>b, <2>c, <2>m DEF Row, Status
      <3>2. rows' \in Seq(Row)
        BY <2>11, <2>d, <2>i, <3>1 DEF InsertRun
      <3>3. Len(rows) + 1 \in Nat
        BY DEF TypeOK
      <3>4. job' \in [Procs -> Job]
        BY <2>11, <2>d, <2>f, <2>g, <3>3 DEF InsertRun, CreateRaises
      <3>e. EventsOK'
        BY <1>e
      <3>p. pc' \in [Agents -> Labels]
        BY <2>0, <2>11 DEF InsertRun, CreateRaises, TypeOK, Goto, Labels
      <3> QED
        BY <2>11, <3>2, <3>4, <3>e, <3>p DEF InsertRun, CreateRaises, TypeOK
    <2>12. CASE SelectRun(p)
      <3>1. job' \in [Procs -> Job]
        <4>1. CASE \E i \in LatestFor(rows, job[p].planned) : job' = [job EXCEPT ![p].run = i]
          <5>1. PICK i \in Nat : job' = [job EXCEPT ![p].run = i]
            BY <2>k, <4>1
          <5>2. [job[p] EXCEPT !.run = i] \in Job
            BY <2>f
          <5> QED
            BY <2>d, <5>1, <5>2
        <4>2. CASE job' = [job EXCEPT ![p].err = TRUE]
          BY <2>d, <2>g, <4>2
        <4> QED
          BY <2>12, <4>1, <4>2 DEF SelectRun, CreateRaises
      <3>e. EventsOK'
        BY <1>e
      <3>p. pc' \in [Agents -> Labels]
        BY <2>0, <2>12 DEF SelectRun, CreateRaises, TypeOK, Goto, Labels
      <3> QED
        BY <2>12, <3>1, <3>e, <3>p DEF SelectRun, CreateRaises, TypeOK
    <2>13. CASE ExecuteRequest(p)
      <3>1. job[p].at + 1 \in Nat /\ job[p].list[job[p].at + 1] \in Asks
        BY <2>13, <2>a DEF ExecuteRequest, Job, JobFields
      <3>2. job' \in [Procs -> Job]
        <4>0. job[p].at + 1 \in Nat
          BY <3>1
        <4>1. [job[p] EXCEPT !.at = job[p].at + 1] \in Job
          BY <2>a, <4>0, JobUpdates, Zenon
        <4>2. [job[p] EXCEPT !.at = job[p].at + 1, !.failed = TRUE] \in Job
          BY <2>a, <4>0, JobUpdates, Zenon
        <4> QED
          BY <2>13, <2>d, <4>1, <4>2 DEF ExecuteRequest
      <3>3. done' \in [Times -> SUBSET Asks]
        BY <2>13, <2>b, <2>d, <3>1 DEF ExecuteRequest
      <3>4. rows' \in Seq(Row)
        BY <2>13, <2>b, <2>d, ProgressedExtends DEF ExecuteRequest, Extends
      <3> QED
        BY <2>13, <3>2, <3>3, <3>4 DEF ExecuteRequest, TypeOK, EventsOK, Outage, NoEvent, Event
    <2>14. CASE Interrupt(p)
      <3>1. job' \in [Procs -> Job]
        BY <2>14, <2>a DEF Interrupt, TypeOK, Job, JobFields
      <3>e. EventsOK'
        BY <1>e
      <3>p. pc' \in [Agents -> Labels]
        BY <2>0, <2>14 DEF Interrupt, TypeOK, Goto, Labels
      <3> QED
        BY <2>14, <3>1, <3>e, <3>p DEF Interrupt, TypeOK
    <2>15. CASE FinishRun(p)
      <3>1. ExecutionStatus(job[p]) \in Status
        BY DEF ExecutionStatus, Status
      <3>2. rows' \in Seq(Row)
        <4> DEFINE f == IF job[p].err THEN NoFp ELSE job[p].fp
        <4>1. f \in Fingerprints \cup {NoFp}
          BY <2>b
        <4>2. Finished(rows, job[p].run, ExecutionStatus(job[p]), RecordedNext(job[p]), f,
                       RecordedList(job[p])) \in Seq(Row)
          BY <2>c, <2>h, <2>j, <2>m, <3>1, <4>1, Zenon
        <4> QED
          BY <2>15, <2>d, <4>2, Zenon DEF FinishRun
      <3>e. EventsOK'
        BY <1>e
      <3>p. pc' \in [Agents -> Labels]
        BY <2>0, <2>15 DEF FinishRun, TypeOK, Goto, Labels
      <3> QED
        BY <2>15, <3>2, <3>e, <3>p DEF FinishRun, TypeOK
    <2> QED
      BY <1>1, <2>1, <2>2, <2>3, <2>4, <2>5, <2>6, <2>7, <2>8, <2>9, <2>10, <2>11, <2>12,
         <2>13, <2>14, <2>15 DEF Capture
  <1>2. ASSUME NEW m \in Maint, Reconcile(m) PROVE TypeOK'
    <2>0. m \in Agents
      BY DEF Agents
    <2>1. CASE Scan(m)
      BY <2>0, <2>1, <1>e DEF Scan, TypeOK, Goto, Labels
    <2>2. CASE MaintLock(m)
      <3>1. cutoff' \in [Maint -> Nat]
        BY <2>2 DEF MaintLock, TypeOK
      <3>2. pc' \in [Agents -> Labels]
        BY <2>0, <2>2 DEF MaintLock, TypeOK, Goto, Labels
      <3>3. lock' \in Agents \cup {None} /\ EventsOK'
        BY <2>0, <2>2, <1>e DEF MaintLock, TypeOK
      <3> QED
        BY <2>2, <3>1, <3>2, <3>3 DEF MaintLock, TypeOK
    <2>3. CASE MaintRead(m)
      <3>1. RunningBefore(rows, cutoff[m]) \subseteq Nat
        BY DEF RunningBefore, TypeOK
      <3>2. stale' \in [Maint -> SUBSET Nat]
        BY <2>3, <3>1 DEF MaintRead, TypeOK
      <3>e. EventsOK'
        BY <1>e
      <3>p. pc' \in [Agents -> Labels]
        BY <2>0, <2>3 DEF MaintRead, TypeOK, Goto, Labels
      <3> QED
        BY <2>3, <3>2, <3>e, <3>p DEF MaintRead, TypeOK
    <2>4. CASE MaintFail(m)
      <3>1. rows' \in Seq(Row)
        BY <2>4, FailRunningExtends DEF MaintFail, TypeOK, Extends
      <3>e. EventsOK'
        BY <1>e
      <3>p. pc' \in [Agents -> Labels]
        BY <2>0, <2>4 DEF MaintFail, TypeOK, Goto, Labels
      <3> QED
        BY <2>4, <3>1, <3>e, <3>p DEF MaintFail, TypeOK
    <2> QED
      BY <1>2, <2>1, <2>2, <2>3, <2>4 DEF Reconcile
  <1>3. ASSUME NEW a \in Agents, Release(a) \/ Crash(a) PROVE TypeOK'
    <2>1. /\ job' \in [Procs -> Job]
          /\ cutoff' \in [Maint -> Nat] /\ stale' \in [Maint -> SUBSET Nat]
      BY <1>3, ForgetType DEF Release, Crash
    <2>2. pc' \in [Agents -> Labels]
      BY <1>3 DEF Release, Crash, TypeOK, Goto, Labels
    <2>3. EventsOK' /\ lock' \in Agents \cup {None}
      BY <1>3, <1>e DEF Release, Crash, TypeOK
    <2> QED
      BY <1>3, <2>1, <2>2, <2>3 DEF Release, Crash, TypeOK
  <1>4. CASE Environment
    <2>1. CASE LoseSession
      BY <2>1, <1>e DEF LoseSession, TypeOK
    <2>2. CASE ChangePolicy
      <3>1. EventsOK'
        BY <1>e
      <3>2. enabled' \in BOOLEAN /\ writable' \in BOOLEAN
        BY <2>2, Zenon DEF ChangePolicy, TypeOK
      <3> QED
        BY <2>2, <3>1, <3>2 DEF ChangePolicy, TypeOK
    <2>3. CASE NextSlot
      BY <2>3, <1>e DEF NextSlot, TypeOK
    <2>4. CASE ChangeList
      BY <2>4, <1>e, <1>0 DEF ChangeList, TypeOK
    <2> QED
      BY <1>4, <2>1, <2>2, <2>3, <2>4 DEF Environment
  <1>5. CASE UNCHANGED vars
    BY <1>5, <1>e DEF vars, TypeOK
  <1> QED
    BY <1>1, <1>2, <1>3, <1>4, <1>5 DEF Next

\* Every reachable state of the capture job has the declared types, whatever
\* fails (store/capture.py: the run table, the lock, the locals of each call).
THEOREM TypeCorrect == Spec => []TypeOK
  BY InitType, StepType, PTL DEF Spec

-----------------------------------------------------------------------------
(***************************************************************************)
(* Exclusion.  What makes it inductive is who holds the lock: a process     *)
(* between acquire and release is the holder, as long as no session is cut. *)
(***************************************************************************)
LockInv == Exclusive => \A a \in Agents : pc[a] \in Critical => lock = a

\* A step of agent a that neither takes nor frees the lock, nor enters a
\* critical section, keeps LockInv.
LEMMA LockKept ==
    ASSUME LockInv, NEW a \in Agents,
           lock' = lock, outages \subseteq outages',
           \A b \in Agents : b # a => pc'[b] = pc[b],
           pc'[a] \in Critical => pc[a] \in Critical
    PROVE  LockInv'
  BY DEF LockInv, Exclusive

\* Taking the lock when it is free, and freeing it on the way to "idle".
LEMMA LockMoves ==
    ASSUME TypeOK, LockInv, NEW a \in Agents, outages \subseteq outages',
           \A b \in Agents : b # a => pc'[b] = pc[b],
           \/ lock = None /\ lock' = a
           \/ lock' = (IF lock = a THEN None ELSE lock) /\ pc'[a] = "idle"
    PROVE  LockInv'
  <1>1. None \notin Agents
    BY JobAssumption DEF JobAssumption, Agents
  <1>2. "idle" \notin Critical
    BY DEF Critical, Executing
  <1> QED
    BY <1>1, <1>2 DEF LockInv, Exclusive, TypeOK

LEMMA GotoMoves ==
    ASSUME TypeOK, NEW a \in Agents, NEW l, Goto(a, l)
    PROVE  /\ pc'[a] = l
           /\ \A b \in Agents : b # a => pc'[b] = pc[b]
  BY DEF TypeOK, Goto

LEMMA OutagesGrow ==
    ASSUME [Next]_vars
    PROVE  outages \subseteq outages'
  BY StepNotes DEF NoEvent, Event

LEMMA StepLock == TypeOK /\ LockInv /\ [Next]_vars => LockInv'
  <1> SUFFICES ASSUME TypeOK, LockInv, [Next]_vars PROVE LockInv'
    OBVIOUS
  <1>0. outages \subseteq outages'
    BY OutagesGrow
  <1>1. ASSUME NEW p \in Procs, Capture(p) PROVE LockInv'
    <2>0. p \in Agents
      BY DEF Agents
    <2> USE DEF At, Critical, Executing
    <2>1. CASE StartDue(p)
      BY <2>0, <2>1, LockKept, <1>0, GotoMoves DEF StartDue
    <2>2. CASE StartManual(p) \/ StartRepair(p)
      BY <2>0, <2>2, LockKept, <1>0, GotoMoves DEF StartManual, StartRepair, StartNow
    <2>3. CASE Precheck(p)
      BY <2>0, <2>3, LockKept, <1>0, GotoMoves DEF Precheck
    <2>4. CASE TakeLock(p)
      <3>1. CASE lock = None /\ lock' = p
        BY <2>0, <2>4, <3>1, LockMoves, <1>0, GotoMoves DEF TakeLock
      <3>2. CASE lock' = lock /\ \E l \in {"skipInsert", "release"} : Goto(p, l)
        BY <2>0, <2>4, <3>2, LockKept, <1>0, GotoMoves
      <3> QED
        BY <2>4, <3>1, <3>2 DEF TakeLock
    <2>5. CASE ReuseRepair(p)
      BY <2>0, <2>5, LockKept, <1>0, GotoMoves DEF ReuseRepair
    <2>6. CASE SkipInsert(p)
      BY <2>0, <2>6, LockKept, <1>0, GotoMoves DEF SkipInsert
    <2>7. CASE SkipSelect(p)
      BY <2>0, <2>7, LockKept, <1>0, GotoMoves DEF SkipSelect
    <2>8. CASE SkipFinish(p)
      BY <2>0, <2>8, LockKept, <1>0, GotoMoves DEF SkipFinish
    <2>9. CASE SelectWindow(p)
      BY <2>0, <2>9, LockKept, <1>0, GotoMoves DEF SelectWindow
    <2>10. CASE Supersede(p)
      BY <2>0, <2>10, LockKept, <1>0, GotoMoves DEF Supersede
    <2>11. CASE InsertRun(p)
      BY <2>0, <2>11, LockKept, <1>0, GotoMoves DEF InsertRun, CreateRaises
    <2>12. CASE SelectRun(p)
      BY <2>0, <2>12, LockKept, <1>0, GotoMoves DEF SelectRun, CreateRaises
    <2>13. CASE ExecuteRequest(p)
      BY <2>0, <2>13, LockKept, <1>0 DEF ExecuteRequest
    <2>14. CASE Interrupt(p)
      BY <2>0, <2>14, LockKept, <1>0, GotoMoves DEF Interrupt
    <2>15. CASE FinishRun(p)
      BY <2>0, <2>15, LockKept, <1>0, GotoMoves DEF FinishRun
    <2> QED
      BY <1>1, <2>1, <2>2, <2>3, <2>4, <2>5, <2>6, <2>7, <2>8, <2>9, <2>10, <2>11, <2>12,
         <2>13, <2>14, <2>15 DEF Capture
  <1>2. ASSUME NEW m \in Maint, Reconcile(m) PROVE LockInv'
    <2>0. m \in Agents
      BY DEF Agents
    <2> USE DEF At, Critical, Executing
    <2>1. CASE Scan(m)
      BY <2>0, <2>1, LockKept, <1>0, GotoMoves DEF Scan
    <2>2. CASE MaintLock(m)
      <3>1. CASE lock = None /\ lock' = m
        BY <2>0, <2>2, <3>1, LockMoves, <1>0, GotoMoves DEF MaintLock
      <3>2. CASE lock' = lock /\ Goto(m, "idle")
        BY <2>0, <3>2, LockKept, <1>0, GotoMoves
      <3> QED
        BY <2>2, <3>1, <3>2 DEF MaintLock
    <2>3. CASE MaintRead(m)
      BY <2>0, <2>3, LockKept, <1>0, GotoMoves DEF MaintRead
    <2>4. CASE MaintFail(m)
      BY <2>0, <2>4, LockKept, <1>0, GotoMoves DEF MaintFail
    <2> QED
      BY <1>2, <2>1, <2>2, <2>3, <2>4 DEF Reconcile
  <1>3. ASSUME NEW a \in Agents, Release(a) \/ Crash(a) PROVE LockInv'
    BY <1>3, LockMoves, <1>0, GotoMoves DEF Release, Crash
  <1>4. CASE Environment
    BY <1>4 DEF Environment, LoseSession, ChangePolicy, ChangeList, NextSlot, NoEvent, Event, Outage, LockInv, Exclusive
  <1>5. CASE UNCHANGED vars
    BY <1>5 DEF vars, LockInv, Exclusive
  <1> QED
    BY <1>1, <1>2, <1>3, <1>4, <1>5 DEF Next

LEMMA LockGivesExclusion == LockInv => OneExecutor
  BY DEF LockInv, OneExecutor

\* Captures, repairs and maintenance of a capability exclude each other for
\* any number of processes, as long as no session that holds the lock is cut
\* (PostgresAdvisoryLock, run_capture, run_repair, reconcile_stale_running).
THEOREM Exclusion == Spec => []OneExecutor
  <1>1. Init => LockInv
    BY DEF Init, LockInv, Critical, Executing
  <1> QED
    BY <1>1, InitType, StepType, StepLock, LockGivesExclusion, PTL DEF Spec

-----------------------------------------------------------------------------
(***************************************************************************)
(* Frames: what no step does to the table, and what a step of one process   *)
(* leaves alone.                                                            *)
(***************************************************************************)
LEMMA TableGrows == TypeOK /\ [Next]_vars => Extends(rows', rows)
  <1> SUFFICES ASSUME TypeOK, [Next]_vars PROVE Extends(rows', rows)
    OBVIOUS
  <1>a. TypeOK'
    BY StepType
  <1>b. rows \in Seq(Row)
    BY DEF TypeOK
  <1>c. Extends(rows, rows)
    BY <1>b DEF Extends
  <1>d. rows' \in Seq(Row)
    BY <1>a DEF TypeOK
  <1>1. ASSUME NEW p \in Procs, Capture(p) PROVE Extends(rows', rows)
    <2>1. CASE SkipInsert(p) \/ InsertRun(p)
      <3>1. rows' = rows \/ \E r : rows' = Append(rows, r)
        BY <2>1 DEF SkipInsert, InsertRun, CreateRaises
      <3>2. ASSUME NEW r, rows' = Append(rows, r) PROVE Extends(rows', rows)
        <4>1. DOMAIN rows = 1..Len(rows) /\ Len(rows) \in Nat
          BY <1>b
        <4>2. \A i \in 1..Len(rows) : rows'[i] = rows[i]
          BY <1>b, <3>2
        <4>3. DOMAIN rows' = 1..Len(rows')
          BY <1>d
        <4>4. Len(rows') = Len(rows) + 1
          BY <1>b, <3>2
        <4> QED
          BY <1>d, <4>1, <4>2, <4>3, <4>4 DEF Extends
      <3> QED
        BY <2>1, <1>c, <3>1, <3>2 DEF SkipInsert, InsertRun
    <2>2. CASE SkipFinish(p) \/ FinishRun(p)
      <3>1. rows' = rows \/ \E e, n, f, i, l : rows' = Finished(rows, i, e, n, f, l)
        BY <2>2 DEF SkipFinish, FinishRun
      <3>2. ASSUME NEW e, NEW n, NEW f, NEW i, NEW l, rows' = Finished(rows, i, e, n, f, l)
            PROVE  Extends(rows', rows)
        <4>1. DOMAIN rows' = DOMAIN rows
          BY <3>2 DEF Finished
        <4>2. \A k \in DOMAIN rows : rows'[k].planned = rows[k].planned
          BY <1>b, <3>2 DEF Finished, Row
        <4> QED
          BY <1>d, <4>1, <4>2 DEF Extends
      <3> QED
        BY <2>2, <1>c, <3>1, <3>2 DEF SkipFinish, FinishRun
    <2>3. CASE Supersede(p)
      <3>1. rows' = rows \/ rows' = FailRunning(rows, DOMAIN rows)
        BY <2>3 DEF Supersede, Superseded
      <3> QED
        BY <2>3, <1>b, <1>c, <3>1, FailRunningExtends DEF Supersede
    <2>4. CASE ExecuteRequest(p)
      <3>1. /\ job[p].next \in Nat /\ job[p].fp \in Fingerprints \cup {NoFp}
            /\ job[p].list \in Seq(Asks)
        BY DEF TypeOK, Job, JobFields
      <3>2. Extends(Progressed(rows, job[p].run, job[p].next, job[p].fp, job[p].list), rows)
        BY <1>b, <3>1, ProgressedExtends, Zenon
      <3> QED
        BY <2>4, <3>2, Zenon DEF ExecuteRequest
    <2>5. CASE rows' = rows
      BY <2>5, <1>c
    <2> QED
      BY <1>1, <2>1, <2>2, <2>3, <2>4, <2>5
      DEF Capture, StartDue, StartManual, StartRepair, StartNow, Precheck, TakeLock, ReuseRepair,
          SkipSelect, SelectWindow, SelectRun, Interrupt
  <1>2. ASSUME NEW m \in Maint, Reconcile(m) PROVE Extends(rows', rows)
    <2>1. rows' = rows \/ rows' = FailRunning(rows, stale[m])
      BY <1>2 DEF Reconcile, Scan, MaintLock, MaintRead, MaintFail
    <2> QED
      BY <1>b, <1>c, <2>1, FailRunningExtends
  <1>3. ASSUME rows' = rows PROVE Extends(rows', rows)
    BY <1>3, <1>c
  <1> QED
    BY <1>1, <1>2, <1>3
    DEF Next, vars, Release, Crash, Environment, LoseSession, ChangePolicy, ChangeList, NextSlot

\* What was executed and what was asked for is never taken back.
HistoryGrows ==
    /\ mode' = mode
    /\ \A t \in Times : done[t] \subseteq done'[t] /\ asked[t] \subseteq asked'[t]

LEMMA HistoryStep == TypeOK /\ [Next]_vars => HistoryGrows
  <1> SUFFICES ASSUME TypeOK, [Next]_vars PROVE HistoryGrows
    OBVIOUS
  <1>a. done \in [Times -> SUBSET Asks] /\ asked \in [Times -> SUBSET Seq(Asks)]
    BY DEF TypeOK
  <1>0. UNCHANGED <<mode, done, asked>> => HistoryGrows
    BY DEF HistoryGrows
  <1> USE DEF policy, maint
  <1>1. ASSUME NEW p \in Procs, Capture(p) PROVE HistoryGrows
    <2>1. CASE SelectWindow(p)
      <3>1. mode' = mode /\ done' = done
        BY <2>1 DEF SelectWindow
      <3>2. asked' = asked \/ \E l : asked' = [asked EXCEPT ![job[p].planned] = @ \cup {l}]
        BY <2>1 DEF SelectWindow
      <3>3. \A t \in Times : asked[t] \subseteq asked'[t]
        BY <1>a, <3>2
      <3> QED
        BY <3>1, <3>3 DEF HistoryGrows
    <2>2. CASE ExecuteRequest(p)
      <3>1. mode' = mode /\ asked' = asked
        BY <2>2 DEF ExecuteRequest
      <3>2. done' = done \/ \E r : done' = [done EXCEPT ![job[p].planned] = @ \cup {r}]
        BY <2>2 DEF ExecuteRequest
      <3>3. \A t \in Times : done[t] \subseteq done'[t]
        BY <1>a, <3>2
      <3> QED
        BY <3>1, <3>3 DEF HistoryGrows
    <2>3. CASE StartDue(p) \/ StartManual(p) \/ StartRepair(p) \/ Precheck(p) \/ TakeLock(p)
               \/ ReuseRepair(p)
      BY <1>0, <2>3 DEF StartDue, StartManual, StartRepair, StartNow, Precheck, TakeLock, ReuseRepair
    <2>4. CASE SkipInsert(p) \/ SkipSelect(p) \/ SkipFinish(p) \/ Supersede(p) \/ InsertRun(p)
      BY <1>0, <2>4 DEF SkipInsert, SkipSelect, SkipFinish, Supersede, InsertRun
    <2>5. CASE SelectRun(p) \/ Interrupt(p) \/ FinishRun(p)
      BY <1>0, <2>5 DEF SelectRun, Interrupt, FinishRun
    <2> QED
      BY <1>1, <2>1, <2>2, <2>3, <2>4, <2>5 DEF Capture
  <1>2. ASSUME NEW m \in Maint, Reconcile(m) PROVE HistoryGrows
    BY <1>0, <1>2 DEF Reconcile, Scan, MaintLock, MaintRead, MaintFail
  <1>3. ASSUME NEW a, Release(a) \/ Crash(a) PROVE HistoryGrows
    BY <1>0, <1>3 DEF Release, Crash
  <1>4. ASSUME Environment PROVE HistoryGrows
    BY <1>0, <1>4 DEF Environment, LoseSession, ChangePolicy, ChangeList, NextSlot
  <1>5. CASE UNCHANGED vars
    BY <1>0, <1>5 DEF vars
  <1> QED
    BY <1>1, <1>2, <1>3, <1>4, <1>5 DEF Next

LEMMA SteadyKept == ASSUME HistoryGrows, NEW t \in Times, Steady(t)' PROVE Steady(t)
  BY DEF HistoryGrows, Steady, SameUpTo

LEMMA OthersWait ==
    ASSUME TypeOK, NEW p \in Procs, Capture(p), NEW q \in Procs, q # p
    PROVE  pc'[q] = pc[q] /\ job'[q] = job[q]
  <1>1. pc' = pc \/ \E l : Goto(p, l)
    BY DEF Capture, StartDue, StartManual, StartRepair, StartNow, Precheck, TakeLock, ReuseRepair,
           SkipInsert, SkipSelect, SkipFinish, SelectWindow, Supersede, InsertRun, SelectRun,
           CreateRaises, ExecuteRequest, Interrupt, FinishRun
  <1>2. job' = job \/ \E j : job' = [job EXCEPT ![p] = j]
    BY DEF Capture, StartDue, StartManual, StartRepair, StartNow, Precheck, TakeLock, ReuseRepair,
           SkipInsert, SkipSelect, SkipFinish, SelectWindow, Supersede, InsertRun, SelectRun,
           CreateRaises, ExecuteRequest, Interrupt, FinishRun
  <1>3. p \in Agents /\ q \in Agents
    BY DEF Agents
  <1> QED
    BY <1>1, <1>2, <1>3 DEF TypeOK, Goto

-----------------------------------------------------------------------------
(***************************************************************************)
(* Completeness of a success.  The invariant follows the checkpoint through *)
(* the processes: what a partial row says is captured is captured, a run    *)
(* without a failed request has captured everything before its position,    *)
(* and the row a run writes to is one of its planned time.                  *)
(***************************************************************************)
Begun(l, n, t) == \A k \in 1..n : l[k] \in done[t]

RowTells(r) ==
    /\ r.status = "success" /\ Steady(r.planned) => Range(r.list) \subseteq done[r.planned]
    /\ r.status = "partial" =>
          /\ r.next <= Len(r.list) /\ r.list \in asked[r.planned]
          /\ Steady(r.planned) => Begun(r.list, r.next, r.planned)

RowsTell == \A i \in DOMAIN rows : RowTells(rows[i])

Positioned(j) ==
    /\ j.at <= j.next /\ j.list \in asked[j.planned]
    /\ ~j.failed /\ Steady(j.planned) => Begun(j.list, j.at, j.planned)

JobTells(p) ==
    /\ pc[p] \in {"exec", "finish", "skipFinish"} =>
          job[p].run \in DOMAIN rows /\ rows[job[p].run].planned = job[p].planned
    /\ pc[p] \in {"supersede", "insert", "select", "exec"} /\ ~job[p].err => Positioned(job[p])
    /\ pc[p] = "finish" => job[p].err
    /\ pc[p] = "exec" => ~job[p].err
    /\ pc[p] \in {"precheck", "lock", "repairLock", "reuse", "window"} => ~job[p].failed

CompleteInv == RowsTell /\ \A p \in Procs : JobTells(p)

LEMMA RowFields ==
    ASSUME TypeOK, NEW i \in DOMAIN rows
    PROVE  /\ rows[i].planned \in Times /\ rows[i].next \in Nat /\ rows[i].next \in Nat
           /\ rows[i].status \in Status /\ i \in Nat
  <1>1. rows \in Seq(Row)
    BY DEF TypeOK
  <1>2. rows[i] \in Row /\ i \in Nat
    BY <1>1
  <1> QED
    BY <1>2, RunsAssumption DEF Row, RunsAssumption

LEMMA RowTellsKept ==
    ASSUME HistoryGrows, NEW r, r.planned \in Times, RowTells(r)
    PROVE  RowTells(r)'
  <1>1. done[r.planned] \subseteq done'[r.planned] /\ asked[r.planned] \subseteq asked'[r.planned]
    BY DEF HistoryGrows
  <1>2. Steady(r.planned)' => Steady(r.planned)
    BY SteadyKept
  <1>3. Begun(r.list, r.next, r.planned) => Begun(r.list, r.next, r.planned)'
    BY <1>1 DEF Begun
  <1> QED
    BY <1>1, <1>2, <1>3 DEF RowTells

LEMMA RowsTellKept ==
    ASSUME TypeOK, RowsTell, HistoryGrows,
           \A i \in DOMAIN rows' : rows'[i].status \in {"success", "partial"} =>
               i \in DOMAIN rows /\ rows'[i] = rows[i]
    PROVE  RowsTell'
  <1>1. ASSUME NEW i \in DOMAIN rows', rows'[i].status \in {"success", "partial"}
        PROVE  RowTells(rows[i])'
    <2>1. i \in DOMAIN rows /\ rows'[i] = rows[i]
      BY <1>1
    <2>2. rows[i].planned \in Times /\ RowTells(rows[i])
      BY <2>1, RowFields DEF RowsTell
    <2>3. ASSUME NEW e, e.planned \in Times, RowTells(e), rows'[i] = e PROVE RowTells(rows[i])'
      <3>1. RowTells(e)'
        BY <2>3, RowTellsKept
      <3> QED
        BY <2>3, <3>1 DEF RowTells
    <2> QED
      BY <2>1, <2>2, <2>3
  <1>2. \A i \in DOMAIN rows' : rows'[i].status \notin {"success", "partial"} => RowTells(rows[i])'
    BY DEF RowTells
  <1> QED
    BY <1>1, <1>2 DEF RowsTell

LEMMA PositionKept ==
    ASSUME TypeOK, NEW p \in Procs, Positioned(job[p]), HistoryGrows,
           job'[p].planned = job[p].planned, job'[p].at = job[p].at, job'[p].next = job[p].next,
           job'[p].list = job[p].list, job'[p].failed = job[p].failed
    PROVE  Positioned(job[p])'
  <1> SUFFICES ASSUME NEW t, t = job[p].planned, NEW l, l = job[p].list, NEW n, n = job[p].at
               PROVE  Positioned(job[p])'
    OBVIOUS
  <1>1. t \in Times
    BY DEF TypeOK, Job, JobFields
  <1>2. done[t] \subseteq done'[t] /\ asked[t] \subseteq asked'[t]
    BY <1>1 DEF HistoryGrows
  <1>3. Steady(t)' => Steady(t)
    BY <1>1, SteadyKept
  <1>4. Begun(l, n, t) => Begun(l, n, t)'
    BY <1>2 DEF Begun
  <1> QED
    BY <1>2, <1>3, <1>4 DEF Positioned, Steady, Begun

LEMMA JobTellsKept ==
    ASSUME TypeOK, NEW p \in Procs, JobTells(p), Extends(rows', rows), HistoryGrows,
           pc'[p] = pc[p], job'[p] = job[p]
    PROVE  JobTells(p)'
  <1>1. job[p].run \in DOMAIN rows /\ rows[job[p].run].planned = job[p].planned =>
        job[p].run \in DOMAIN rows' /\ rows'[job[p].run].planned = job[p].planned
    BY DEF Extends
  <1>2. Positioned(job[p]) => Positioned(job[p])'
    BY PositionKept
  <1> QED
    BY <1>1, <1>2 DEF JobTells

\* The first window and the one that continues a partial row are positioned.
LEMMA WindowPositioned ==
    ASSUME TypeOK, RowsTell, HistoryGrows, done' = done, NEW p \in Procs, ~job[p].failed,
           NEW j, j = job[p], NEW t, t = j.planned,
           NEW l \in Seq(Asks), l \in asked'[t],
           NEW s, s \in StartIndexes(rows, t, l) \/ s = 0,
           NEW w, w = WithWindow(j, l, s)
    PROVE  Positioned(w)'
  <1> USE JobAssumption
  <1>1. j \in Job /\ t \in Times
    BY DEF TypeOK, Job, JobFields
  <1>2. s \in 0..Len(l) /\ Len(l) \in Nat
    BY StartType
  <1>3. WindowEnd(s, Len(l)) \in s..Len(l)
    BY <1>1, <1>2, WindowType
  <1>4. /\ w.at = s /\ w.next = WindowEnd(s, Len(l)) /\ w.planned = t /\ w.list = l
        /\ w.failed = j.failed
    BY <1>1 DEF WithWindow, Job, JobFields
  <1>5. ASSUME Steady(t)', s # 0 PROVE \A k \in 1..s : l[k] \in done[t]
    <2>1. mode = "checkpoint"
      BY <1>5 DEF StartIndexes
    <2>2. \A m, n \in asked'[t] : SameUpTo(m, n)
      BY <1>5, <2>1 DEF Steady, HistoryGrows
    <2>3. PICK i \in LatestFor(rows, t) : rows[i].status = "partial" /\ s <= rows[i].next
      <3>1. \A i \in LatestFor(rows, t) : rows[i].next \in Nat
        BY RowFields DEF LatestFor, IdsFor
      <3>2. PICK i \in {k \in LatestFor(rows, t) : rows[k].status = "partial"} :
                s = rows[i].next \/ (s = Len(l) /\ s < rows[i].next)
        BY <1>5 DEF StartIndexes
      <3> QED
        BY <1>2, <3>1, <3>2
    <2>4. i \in DOMAIN rows /\ rows[i].planned = t
      BY <2>3, LatestIsRow DEF TypeOK
    <2> DEFINE m == rows[i].list
    <2>5. /\ rows[i].next <= Len(m) /\ m \in asked[t]
          /\ Steady(t) => Begun(m, rows[i].next, t)
      BY <2>3, <2>4 DEF RowsTell, RowTells
    <2>6. Steady(t)
      BY <1>1, <1>5, SteadyKept
    <2>7. rows[i].next \in Nat /\ m \in Seq(Asks)
      <3>1. rows[i] \in Row
        BY <2>4 DEF TypeOK
      <3> QED
        BY <3>1 DEF Row
    <2>8. SameUpTo(m, l)
      BY <1>1, <2>2, <2>5 DEF HistoryGrows
    <2> SUFFICES ASSUME NEW k \in 1..s PROVE l[k] \in done[t]
      OBVIOUS
    <2>9. k \in 1..rows[i].next /\ k \in DOMAIN m /\ k \in DOMAIN l
      BY <1>2, <2>3, <2>5, <2>7
    <2>10. m[k] \in done[t]
      BY <2>5, <2>6, <2>9 DEF Begun
    <2> QED
      BY <2>8, <2>9, <2>10 DEF SameUpTo
  <1>6. ASSUME Steady(t)' PROVE \A k \in 1..s : l[k] \in done'[t]
    <2>1. CASE s = 0
      BY <2>1
    <2>2. CASE s # 0
      BY <1>5, <1>6, <2>2
    <2> QED
      BY <2>1, <2>2
  <1>7. w.at <= w.next
    BY <1>2, <1>3, <1>4
  <1>8. (w.list \in asked[w.planned])'
    BY <1>4
  <1>9. (~w.failed /\ Steady(w.planned) => Begun(w.list, w.at, w.planned))'
    BY <1>4, <1>6 DEF Begun
  <1> QED
    BY <1>7, <1>8, <1>9 DEF Positioned

LEMMA StepComplete == TypeOK /\ CompleteInv /\ [Next]_vars => CompleteInv'
  <1> SUFFICES ASSUME TypeOK, CompleteInv, [Next]_vars PROVE CompleteInv'
    OBVIOUS
  <1>a. TypeOK' /\ Extends(rows', rows) /\ HistoryGrows
    BY StepType, TableGrows, HistoryStep
  <1>b. RowsTell /\ \A p \in Procs : JobTells(p)
    BY DEF CompleteInv
  <1>c. rows' = rows => RowsTell'
    BY <1>a, <1>b, RowsTellKept, Zenon
  <1>d. rows \in Seq(Row)
    BY DEF TypeOK
  <1>e. \A ids : rows' = FailRunning(rows, ids) => RowsTell'
    <2> SUFFICES ASSUME NEW ids, rows' = FailRunning(rows, ids) PROVE RowsTell'
      OBVIOUS
    <2>1. ASSUME NEW i \in DOMAIN rows', rows'[i].status \in {"success", "partial"}
          PROVE  i \in DOMAIN rows /\ rows'[i] = rows[i]
      <3>1. i \in DOMAIN rows /\ rows[i] \in Row
        BY <1>d, FailRunningExtends
      <3>2. rows'[i] = IF i \in ids /\ rows[i].status = "running"
                       THEN [rows[i] EXCEPT !.status = "failed"] ELSE rows[i]
        BY <3>1 DEF FailRunning
      <3>3. [rows[i] EXCEPT !.status = "failed"].status = "failed"
        BY <3>1 DEF Row
      <3> QED
        BY <2>1, <3>1, <3>2, <3>3
    <2> QED
      BY <2>1, <1>a, <1>b, RowsTellKept
  <1>f. \A r \in Row : rows' = Append(rows, r) /\ r.status \notin {"success", "partial"} => RowsTell'
    <2> SUFFICES ASSUME NEW r \in Row, rows' = Append(rows, r), r.status \notin {"success", "partial"}
                 PROVE  RowsTell'
      OBVIOUS
    <2>1. \A i \in DOMAIN rows' : rows'[i].status \in {"success", "partial"} =>
              i \in DOMAIN rows /\ rows'[i] = rows[i]
      BY <1>d, AppendExtends
    <2> QED
      BY <2>1, <1>a, <1>b, RowsTellKept
  <1>1. ASSUME NEW p \in Procs, Capture(p) PROVE CompleteInv'
    <2>0. p \in Agents /\ job[p] \in Job /\ job'[p] \in Job
      BY <1>a DEF Agents, TypeOK
    <2>a. \A q \in Procs : q # p => JobTells(q)'
      BY <1>1, <1>a, <1>b, OthersWait, JobTellsKept
    <2>b. /\ job[p].planned \in Times /\ job[p].fp \in Fingerprints \cup {NoFp}
          /\ job[p].next \in Nat /\ job[p].err \in BOOLEAN /\ job[p].failed \in BOOLEAN
          /\ job[p].run \in Nat
      BY <2>0, JobAssumption DEF Job, JobFields, JobAssumption
    <2>d. job[p].list \in Seq(Asks) /\ RecordedList(job[p]) \in Seq(Asks) /\ <<>> \in Seq(Asks)
      BY <2>0 DEF Job, JobFields, RecordedList
    <2>c. RecordedNext(job[p]) \in Nat /\ 0 \in Nat
      BY <2>b, RunsAssumption DEF RecordedNext, RunsAssumption
    <2>s. SUFFICES RowsTell' /\ JobTells(p)'
      BY <2>a DEF CompleteInv
    <2> USE DEF At
    <2>1. CASE StartDue(p) \/ StartManual(p) \/ StartRepair(p)
      <3>1. rows' = rows
        BY <2>1 DEF StartDue, StartManual, StartRepair, StartNow
      <3>2. PICK t, f : job' = [job EXCEPT ![p] = NewJob(t, f)]
        BY <2>1 DEF StartDue, StartManual, StartRepair, StartNow
      <3>3. ~job'[p].failed
        BY <3>2 DEF NewJob, TypeOK
      <3>4. pc'[p] \in {"precheck", "repairLock"}
        BY <2>0, <2>1, GotoMoves DEF StartDue, StartManual, StartRepair, StartNow
      <3> QED
        BY <1>c, <3>1, <3>3, <3>4 DEF JobTells
    <2>2. CASE Precheck(p) \/ TakeLock(p) \/ ReuseRepair(p)
      <3>1. rows' = rows /\ job' = job
        BY <2>2 DEF Precheck, TakeLock, ReuseRepair
      <3>2. pc'[p] \in {"skipInsert", "release", "lock", "window", "reuse"}
        BY <2>0, <2>2, GotoMoves DEF Precheck, TakeLock, ReuseRepair
      <3>3. pc[p] \in {"precheck", "lock", "repairLock", "reuse"}
        BY <2>2 DEF Precheck, TakeLock, ReuseRepair
      <3>4. ~job[p].failed
        BY <1>b, <3>3 DEF JobTells
      <3> QED
        BY <1>c, <3>1, <3>2, <3>4 DEF JobTells
    <2>3. CASE SkipInsert(p)
      <3>1. pc'[p] \in {"skipSelect", "release"}
        BY <2>0, <2>3, GotoMoves DEF SkipInsert
      <3>2. JobTells(p)'
        BY <3>1 DEF JobTells
      <3>3. RowsTell'
        <4> DEFINE r == [status |-> "skipped", planned |-> job[p].planned, next |-> 0,
                         fp |-> job[p].fp, list |-> <<>>]
        <4>1. r \in Row /\ r.status = "skipped"
          BY <2>b, <2>c DEF Row, Status
        <4>2. rows' = rows \/ rows' = Append(rows, r)
          BY <2>3 DEF SkipInsert
        <4> HIDE DEF r
        <4> QED
          BY <1>c, <1>f, <4>1, <4>2
      <3> QED
        BY <3>2, <3>3
    <2>4. CASE SkipSelect(p) \/ SelectRun(p)
      <3>1. rows' = rows /\ done' = done
        BY <2>4 DEF SkipSelect, SelectRun
      <3>2. CASE pc'[p] \in {"skipFinish", "exec", "finish"}
                 /\ \E i \in LatestFor(rows, job[p].planned) : job' = [job EXCEPT ![p].run = i]
        <4>1. PICK i \in LatestFor(rows, job[p].planned) : job' = [job EXCEPT ![p].run = i]
          BY <3>2
        <4>2. job'[p] = [job[p] EXCEPT !.run = i]
          BY <4>1 DEF TypeOK
        <4>3. /\ job'[p].run = i /\ job'[p].planned = job[p].planned /\ job'[p].at = job[p].at
              /\ job'[p].next = job[p].next /\ job'[p].list = job[p].list
              /\ job'[p].failed = job[p].failed /\ job'[p].err = job[p].err
          BY <2>0, <4>2 DEF Job, JobFields
        <4>4. i \in DOMAIN rows /\ rows[i].planned = job[p].planned
          BY DEF LatestFor, IdsFor
        <4>a. ASSUME SkipSelect(p) PROVE pc'[p] \in {"skipFinish", "release"}
          BY <2>0, <4>a, GotoMoves DEF SkipSelect
        <4>b. ASSUME SelectRun(p)
              PROVE  /\ pc[p] = "select"
                     /\ pc'[p] = (IF job[p].err THEN "finish" ELSE "exec")
                        \/ pc'[p] \in {"release", "supersede"}
          <5>1. pc[p] = "select"
            BY <4>b DEF SelectRun
          <5>2. \/ Goto(p, IF job[p].err THEN "finish" ELSE "exec")
                \/ Goto(p, IF job[p].err THEN "release" ELSE "supersede")
            BY <4>b DEF SelectRun, CreateRaises
          <5>3. \A l : Goto(p, l) => pc'[p] = l
            BY <2>0, GotoMoves
          <5>4. (IF job[p].err THEN "release" ELSE "supersede") \in {"release", "supersede"}
            OBVIOUS
          <5> QED
            BY <5>1, <5>2, <5>3, <5>4, Zenon
        <4>5. pc'[p] = "finish" => job[p].err
          BY <2>4, <4>a, <4>b
        <4>6. pc'[p] = "exec" => ~job[p].err /\ pc[p] = "select"
          BY <2>4, <4>a, <4>b
        <4>7. pc'[p] = "exec" => Positioned(job[p])
          BY <1>b, <4>6 DEF JobTells
        <4>8. Positioned(job[p]) => Positioned(job[p])'
          BY <1>a, <4>3, PositionKept
        <4>9. JobTells(p)'
          BY <3>1, <3>2, <4>3, <4>4, <4>5, <4>6, <4>7, <4>8 DEF JobTells
        <4> QED
          BY <1>c, <3>1, <4>9
      <3>3. CASE pc'[p] = "release" \/ (pc'[p] = "supersede" /\ job' = [job EXCEPT ![p].err = TRUE])
        <4>1. job' = [job EXCEPT ![p].err = TRUE] => job'[p].err
          BY <2>0 DEF TypeOK, Job, JobFields
        <4>2. JobTells(p)'
          BY <3>3, <4>1 DEF JobTells
        <4> QED
          BY <1>c, <3>1, <4>2
      <3> QED
        BY <2>0, <2>4, <3>2, <3>3, GotoMoves DEF SkipSelect, SelectRun, CreateRaises
    <2>5. CASE SkipFinish(p)
      <3>1. pc'[p] = "release"
        BY <2>0, <2>5, GotoMoves DEF SkipFinish
      <3>2. JobTells(p)'
        BY <3>1 DEF JobTells
      <3>3. CASE rows' = Finished(rows, job[p].run, "skipped", 0, job[p].fp, <<>>)
        <4> DEFINE new == Finished(rows, job[p].run, "skipped", 0, job[p].fp, <<>>)
        <4>0. "skipped" \in Status
          BY DEF Status
        <4>a. FinishedRow(new, rows, job[p].run, "skipped", 0, job[p].fp, <<>>)
          BY <1>d, <2>b, <2>c, <2>d, <4>0, FinishedExtends, Zenon
        <4> HIDE DEF new
        <4>b. rows' = new
          BY <3>3 DEF new
        <4>1. /\ DOMAIN rows' = DOMAIN rows
              /\ \A i \in DOMAIN rows : i # job[p].run => rows'[i] = rows[i]
              /\ job[p].run \in DOMAIN rows => rows'[job[p].run].status = "skipped"
          BY <4>a, <4>b DEF FinishedRow
        <4>2. \A i \in DOMAIN rows' : rows'[i].status \in {"success", "partial"} =>
                  i \in DOMAIN rows /\ rows'[i] = rows[i]
          BY <4>1
        <4> QED
          BY <1>a, <1>b, <3>2, <4>2, RowsTellKept
      <3>4. CASE rows' = rows
        BY <1>c, <3>2, <3>4
      <3> QED
        BY <2>5, <3>3, <3>4 DEF SkipFinish
    <2>6. CASE SelectWindow(p)
      <3>1. rows' = rows /\ done' = done /\ pc[p] = "window" /\ pc'[p] = "supersede"
        BY <2>0, <2>6, GotoMoves DEF SelectWindow
      <3>2. ~job[p].failed
        BY <1>b, <3>1 DEF JobTells
      <3>3. CASE \E l \in RunLists(job[p].fp) : \E s :
                     /\ s \in StartIndexes(rows, job[p].planned, l) \/ s = 0
                     /\ job' = [job EXCEPT ![p] = WithWindow(@, l, s)]
                     /\ asked' = [asked EXCEPT ![job[p].planned] = @ \cup {l}]
        <4>0. PICK l \in RunLists(job[p].fp) : \E s :
                  /\ s \in StartIndexes(rows, job[p].planned, l) \/ s = 0
                  /\ job' = [job EXCEPT ![p] = WithWindow(@, l, s)]
                  /\ asked' = [asked EXCEPT ![job[p].planned] = @ \cup {l}]
          BY <3>3
        <4>1. PICK s :
                  /\ s \in StartIndexes(rows, job[p].planned, l) \/ s = 0
                  /\ job' = [job EXCEPT ![p] = WithWindow(@, l, s)]
                  /\ asked' = [asked EXCEPT ![job[p].planned] = @ \cup {l}]
          BY <4>0
        <4>2. l \in Seq(Asks)
          BY <2>0, JobAssumption, RunListType
        <4>a. l \in asked'[job[p].planned]
          BY <2>b, <4>1 DEF TypeOK
        <4>4. Positioned(job[p])'
          <5> SUFFICES ASSUME NEW j, j = job[p], NEW t, t = j.planned,
                              NEW w, w = WithWindow(j, l, s)
                       PROVE  Positioned(job[p])'
            OBVIOUS
          <5>1. Positioned(w)'
            BY <1>a, <1>b, <3>1, <3>2, <4>1, <4>2, <4>a, WindowPositioned
          <5>2. job'[p] = w
            BY <4>1 DEF TypeOK
          <5> QED
            BY <5>1, <5>2 DEF Positioned, Begun, Steady
        <4> QED
          BY <1>c, <3>1, <4>4 DEF JobTells
      <3>4. CASE job' = [job EXCEPT ![p].err = TRUE]
        <4>1. job'[p].err
          BY <2>0, <3>4 DEF TypeOK, Job, JobFields
        <4> QED
          BY <1>c, <3>1, <4>1 DEF JobTells
      <3> QED
        BY <2>6, <3>3, <3>4 DEF SelectWindow
    <2>7. CASE Supersede(p) \/ InsertRun(p)
      <3>1. done' = done /\ pc[p] \in {"supersede", "insert"}
        BY <2>7 DEF Supersede, InsertRun
      <3>2. pc'[p] \in {"insert", "select", "supersede", "release"}
        BY <2>0, <2>7, GotoMoves DEF Supersede, InsertRun, CreateRaises
      <3>3. ~job[p].err => Positioned(job[p])
        BY <1>b, <3>1 DEF JobTells
      <3>4. \/ job' = job
            \/ job' = [job EXCEPT ![p].mine = Len(rows) + 1]
            \/ job' = [job EXCEPT ![p].err = TRUE]
        BY <2>7 DEF Supersede, InsertRun, CreateRaises
      <3>5. /\ job'[p].planned = job[p].planned /\ job'[p].at = job[p].at
            /\ job'[p].next = job[p].next /\ job'[p].list = job[p].list
            /\ job'[p].failed = job[p].failed
            /\ job'[p].err = job[p].err \/ job'[p].err
        BY <2>0, <3>4 DEF TypeOK, Job, JobFields
      <3>6. Positioned(job[p]) => Positioned(job[p])'
        BY <1>a, <3>5, PositionKept
      <3>7. JobTells(p)'
        BY <3>2, <3>3, <3>5, <3>6 DEF JobTells
      <3>8. RowsTell'
        <4> DEFINE r == [status |-> "running", planned |-> job[p].planned,
                         next |-> RecordedNext(job[p]), fp |-> job[p].fp,
                         list |-> RecordedList(job[p])]
        <4>1. r \in Row /\ r.status = "running"
          BY <2>b, <2>c, <2>d DEF Row, Status
        <4>2. rows' = rows \/ rows' = FailRunning(rows, DOMAIN rows) \/ rows' = Append(rows, r)
          BY <2>7 DEF Supersede, Superseded, InsertRun
        <4> HIDE DEF r
        <4> QED
          BY <1>c, <1>e, <1>f, <4>1, <4>2
      <3> QED
        BY <3>7, <3>8
    <2>8. CASE ExecuteRequest(p)
      <3>1. pc[p] = "exec" /\ pc'[p] = "exec" /\ job[p].at < job[p].next
        BY <2>8 DEF ExecuteRequest
      <3>2. Positioned(job[p]) /\ ~job[p].err
        BY <1>b, <3>1 DEF JobTells
      <3>3. /\ job'[p].planned = job[p].planned /\ job'[p].at = job[p].at + 1
            /\ job'[p].next = job[p].next /\ job'[p].list = job[p].list /\ job'[p].run = job[p].run
            /\ job'[p].err = job[p].err
            /\ \/ job'[p].failed
               \/ /\ job'[p].failed = job[p].failed
                  /\ job[p].list[job[p].at + 1] \in done'[job[p].planned]
        BY <2>0, <2>b, <2>8 DEF ExecuteRequest, TypeOK, Job, JobFields
      <3>4. job[p].at \in Nat /\ job[p].next \in Nat
        BY <2>0, JobAssumption DEF Job, JobFields, JobAssumption
      <3>5. Positioned(job[p])'
        <4> SUFFICES ASSUME NEW t, t = job[p].planned, NEW l, l = job[p].list
                     PROVE  Positioned(job[p])'
          OBVIOUS
        <4>1. job'[p].at <= job'[p].next
          BY <3>1, <3>3, <3>4
        <4>2. done[t] \subseteq done'[t] /\ asked[t] \subseteq asked'[t]
          BY <1>a, <2>b DEF HistoryGrows
        <4>3. Steady(t)' => Steady(t)
          BY <1>a, <2>b, SteadyKept
        <4>4. job'[p].list \in asked'[job'[p].planned]
          BY <3>2, <3>3, <4>2 DEF Positioned
        <4>5. ASSUME ~job'[p].failed, Steady(t)' PROVE \A k \in 1..job'[p].at : l[k] \in done'[t]
          <5> SUFFICES ASSUME NEW k \in 1..job'[p].at PROVE l[k] \in done'[t]
            OBVIOUS
          <5>1. CASE k = job[p].at + 1
            BY <3>3, <4>5, <5>1
          <5>2. CASE k # job[p].at + 1
            <6>1. k \in 1..job[p].at
              BY <3>3, <3>4, <5>2
            <6>2. ~job[p].failed
              BY <3>3, <4>5
            <6> QED
              BY <3>2, <4>2, <4>3, <4>5, <6>1, <6>2 DEF Positioned, Begun
          <5> QED
            BY <5>1, <5>2
        <4> QED
          BY <3>3, <4>1, <4>4, <4>5 DEF Positioned, Begun, Steady
      <3>6. job[p].run \in DOMAIN rows /\ rows[job[p].run].planned = job[p].planned
        BY <1>b, <3>1 DEF JobTells
      <3>7. job'[p].run \in DOMAIN rows' /\ rows'[job'[p].run].planned = job'[p].planned
        BY <1>a, <3>3, <3>6 DEF Extends
      <3>8. JobTells(p)'
        BY <3>1, <3>2, <3>3, <3>5, <3>7 DEF JobTells
      <3> DEFINE new == Progressed(rows, job[p].run, job[p].next, job[p].fp, job[p].list)
      <3>a. ProgressedRow(new, rows)
        BY <1>d, <2>b, <2>d, ProgressedExtends, Zenon
      <3>b. rows' = new
        BY <2>8 DEF ExecuteRequest
      <3> HIDE DEF new
      <3>9. /\ DOMAIN rows' = DOMAIN rows
            /\ \A i \in DOMAIN rows : rows'[i].status = rows[i].status
            /\ \A i \in DOMAIN rows : rows[i].status # "running" => rows'[i] = rows[i]
        BY <3>a, <3>b DEF ProgressedRow
      <3>10. RowsTell'
        BY <1>a, <1>b, <3>9, RowsTellKept
      <3> QED
        BY <3>8, <3>10
    <2>9. CASE Interrupt(p)
      <3>1. pc[p] = "exec" /\ pc'[p] = "finish" /\ rows' = rows
        BY <2>0, <2>9, GotoMoves DEF Interrupt
      <3>2. job'[p].err /\ job'[p].run = job[p].run /\ job'[p].planned = job[p].planned
        BY <2>0, <2>9 DEF Interrupt, TypeOK, Job, JobFields
      <3>3. job[p].run \in DOMAIN rows /\ rows[job[p].run].planned = job[p].planned
        BY <1>b, <3>1 DEF JobTells
      <3> QED
        BY <1>c, <3>1, <3>2, <3>3 DEF JobTells
    <2>10. CASE FinishRun(p)
      <3>1. pc'[p] = "release" /\ done' = done
        BY <2>0, <2>10, GotoMoves DEF FinishRun
      <3>2. JobTells(p)'
        BY <3>1 DEF JobTells
      <3>3. pc[p] \in {"exec", "finish"} /\ (pc[p] = "exec" => job[p].at = job[p].next)
        BY <2>10 DEF FinishRun
      <3>4. job[p].run \in DOMAIN rows /\ rows[job[p].run].planned = job[p].planned
        BY <1>b, <3>3 DEF JobTells
      <3>5. ~job[p].err => Positioned(job[p]) /\ job[p].at = job[p].next
        BY <1>b, <3>3 DEF JobTells
      <3> DEFINE st == ExecutionStatus(job[p])
                 nx == RecordedNext(job[p])
                 f == IF job[p].err THEN NoFp ELSE job[p].fp
                 ls == RecordedList(job[p])
                 k == job[p].run
                 t == job[p].planned
      <3>6. st \in Status /\ nx \in Nat /\ f \in Fingerprints \cup {NoFp} /\ ls \in Seq(Asks)
        BY <2>b, <2>c, <2>d DEF ExecutionStatus, Status
      <3>7. st = "success" /\ Steady(t) => Range(ls) \subseteq done[t]
        <4> SUFFICES ASSUME st = "success", Steady(t) PROVE Range(ls) \subseteq done[t]
          OBVIOUS
        <4>1. ~job[p].err /\ ~job[p].failed /\ ~(job[p].next < Len(job[p].list))
          BY DEF ExecutionStatus
        <4>2. ls = job[p].list
          BY <4>1 DEF RecordedList
        <4>3. job[p].next = Len(job[p].list)
          BY <2>0, <2>b, <4>1 DEF Job, JobFields
        <4>4. Begun(job[p].list, Len(job[p].list), t)
          BY <3>5, <4>1, <4>3 DEF Positioned
        <4> QED
          BY <2>d, <4>2, <4>4 DEF Range, Begun
      <3>8. st = "partial" => /\ nx <= Len(ls) /\ ls \in asked[t]
                              /\ Steady(t) => Begun(ls, nx, t)
        <4> SUFFICES ASSUME st = "partial"
                     PROVE  /\ nx <= Len(ls) /\ ls \in asked[t]
                            /\ Steady(t) => Begun(ls, nx, t)
          OBVIOUS
        <4>1. ~job[p].err /\ ~job[p].failed
          BY DEF ExecutionStatus
        <4>2. ls = job[p].list /\ nx = job[p].next /\ nx <= Len(ls)
          BY <2>0, <4>1 DEF RecordedList, RecordedNext, Job, JobFields
        <4> QED
          BY <3>5, <4>1, <4>2 DEF Positioned
      <3>9. rows' = Finished(rows, k, st, nx, f, ls) \/ rows' = rows
        BY <2>10 DEF FinishRun
      <3>u. asked' = asked /\ mode' = mode
        BY <2>10 DEF FinishRun, policy
      <3>10. CASE rows' = Finished(rows, k, st, nx, f, ls)
        <4> HIDE DEF st, nx, f, k, ls
        <4> DEFINE new == Finished(rows, k, st, nx, f, ls)
        <4>a. FinishedRow(new, rows, k, st, nx, f, ls)
          BY <1>d, <3>6, FinishedExtends, Zenon
        <4>b. rows' = new
          BY <3>10
        <4> HIDE DEF new
        <4>1. /\ DOMAIN rows' = DOMAIN rows
              /\ \A i \in DOMAIN rows : i # k => rows'[i] = rows[i]
              /\ k \in DOMAIN rows => rows'[k].status = st /\ rows'[k].next = nx /\ rows'[k].list = ls
          BY <4>a, <4>b DEF FinishedRow
        <4>2. k \in DOMAIN rows /\ rows'[k].planned = t
          BY <1>a, <3>4 DEF k, Extends
        <4>3. ASSUME NEW i \in DOMAIN rows' PROVE RowTells(rows[i])'
          <5>1. CASE i = k
            BY <3>1, <3>u, <3>7, <3>8, <4>1, <4>2, <5>1 DEF RowTells, Steady, Begun
          <5>2. CASE i # k
            <6>1. RowTells(rows[i]) /\ rows'[i] = rows[i]
              BY <1>b, <4>1, <5>2 DEF RowsTell
            <6> QED
              BY <3>1, <3>u, <6>1 DEF RowTells, Steady, Begun
          <5> QED
            BY <5>1, <5>2
        <4>4. RowsTell'
          BY <4>3 DEF RowsTell
        <4> QED
          BY <3>2, <4>4
      <3>11. CASE rows' = rows
        BY <1>c, <3>2, <3>11
      <3> QED
        BY <3>9, <3>10, <3>11
    <2> QED
      BY <1>1, <2>1, <2>2, <2>3, <2>4, <2>5, <2>6, <2>7, <2>8, <2>9, <2>10 DEF Capture
  <1>2. ASSUME NEW m \in Maint, Reconcile(m) PROVE CompleteInv'
    <2>0. m \in Agents /\ m \notin Procs
      BY JobAssumption DEF Agents, JobAssumption
    <2>1. rows' = rows \/ rows' = FailRunning(rows, stale[m])
      BY <1>2 DEF Reconcile, Scan, MaintLock, MaintRead, MaintFail
    <2>2. job' = job /\ \E l : Goto(m, l)
      BY <1>2 DEF Reconcile, Scan, MaintLock, MaintRead, MaintFail
    <2>3. \A q \in Procs : pc'[q] = pc[q]
      BY <2>0, <2>2, GotoMoves DEF Agents
    <2>4. \A q \in Procs : JobTells(q)'
      BY <1>a, <1>b, <2>2, <2>3, JobTellsKept
    <2> QED
      BY <1>c, <1>e, <2>1, <2>4 DEF CompleteInv
  <1>3. ASSUME NEW a \in Agents, Release(a) \/ Crash(a) PROVE CompleteInv'
    <2>1. rows' = rows /\ Goto(a, "idle") /\ Forget(a)
      BY <1>3 DEF Release, Crash
    <2>2. \A q \in Procs : q # a => JobTells(q)'
      <3> SUFFICES ASSUME NEW q \in Procs, q # a PROVE JobTells(q)'
        OBVIOUS
      <3>1. pc'[q] = pc[q] /\ job'[q] = job[q]
        BY <2>1, GotoMoves DEF Forget, Agents
      <3> QED
        BY <1>a, <1>b, <3>1, JobTellsKept
    <2>3. \A q \in Procs : q = a => JobTells(q)'
      BY <2>1, GotoMoves DEF JobTells
    <2> QED
      BY <1>c, <2>1, <2>2, <2>3 DEF CompleteInv
  <1>4. CASE Environment \/ UNCHANGED vars
    <2>1. rows' = rows /\ pc' = pc /\ job' = job
      BY <1>4 DEF Environment, LoseSession, ChangePolicy, ChangeList, NextSlot, vars
    <2>2. \A q \in Procs : JobTells(q)'
      BY <1>a, <1>b, <2>1, JobTellsKept
    <2> QED
      BY <1>c, <2>1, <2>2 DEF CompleteInv
  <1> QED
    BY <1>1, <1>2, <1>3, <1>4 DEF Next

\* A recorded success is complete, for any request lists and any window,
\* whatever crashes, fails, overlaps or loses its lock: every request of the
\* list its run was given was executed.  For the checkpoint chain of
\* _request_checkpoint_window it needs that the lists of the chain agree where
\* both reach (Steady), since an index is all that one run leaves to the next.
THEOREM SuccessComplete == Spec => []SuccessIsComplete
  <1>1. Init => CompleteInv
    BY DEF Init, CompleteInv, RowsTell, JobTells, NoJob, NewJob, Agents
  <1>2. CompleteInv => SuccessIsComplete
    BY DEF CompleteInv, RowsTell, RowTells, SuccessIsComplete
  <1> QED
    BY <1>1, <1>2, InitType, StepType, StepComplete, PTL DEF Spec

-----------------------------------------------------------------------------
(***************************************************************************)
(* The row of a run that is executing.  Whoever marks rows as failed holds  *)
(* the lock, and the row a run inserted is one of the table.                *)
(***************************************************************************)
HasRow(p) == pc[p] \in {"select", "exec", "finish"} => job[p].mine \in DOMAIN rows
RowInv == \A p \in Procs : HasRow(p)

\* What a step of one process outside of its critical section does to the rows
\* there are: nothing, or one of them becomes a skipped one.
LEMMA OutsidersSkip ==
    ASSUME TypeOK, NEW p \in Procs, Capture(p), pc[p] \notin Critical,
           NEW i \in DOMAIN rows
    PROVE  /\ i \in DOMAIN rows'
           /\ \/ rows'[i] = rows[i]
              \/ rows'[i].status = "skipped"
  <1>0. rows \in Seq(Row) /\ job[p] \in Job
    BY DEF TypeOK
  <1> USE DEF At, Critical, Executing
  <1>1. CASE SkipInsert(p)
    <2>1. rows' = rows \/ \E r : rows' = Append(rows, r)
      BY <1>1 DEF SkipInsert
    <2>2. ASSUME NEW r, rows' = Append(rows, r) PROVE i \in DOMAIN rows' /\ rows'[i] = rows[i]
      BY <1>0, <2>2
    <2> QED
      BY <2>1, <2>2
  <1>2. CASE SkipFinish(p)
    <2>1. rows' = rows \/ rows' = Finished(rows, job[p].run, "skipped", 0, job[p].fp, <<>>)
      BY <1>2 DEF SkipFinish
    <2>2. CASE rows' = Finished(rows, job[p].run, "skipped", 0, job[p].fp, <<>>)
      <3>1. DOMAIN rows' = DOMAIN rows /\ rows[i] \in Row
        BY <1>0, <2>2 DEF Finished
      <3> QED
        BY <2>2, <3>1 DEF Finished, Row
    <2> QED
      BY <2>1, <2>2
  <1>3. CASE rows' = rows
    BY <1>3
  <1> QED
    BY <1>1, <1>2, <1>3
    DEF Capture, StartDue, StartManual, StartRepair, StartNow, Precheck, TakeLock, ReuseRepair,
        SkipSelect, SelectWindow, Supersede, InsertRun, SelectRun, ExecuteRequest, Interrupt, FinishRun

LEMMA StepRow == TypeOK /\ RowInv /\ [Next]_vars => RowInv'
  <1> SUFFICES ASSUME TypeOK, RowInv, [Next]_vars, NEW q \in Procs PROVE HasRow(q)'
    BY DEF RowInv
  <1>a. Extends(rows', rows) /\ HasRow(q) /\ rows \in Seq(Row) /\ rows' \in Seq(Row)
    BY TableGrows, StepType DEF RowInv, TypeOK
  <1>b. ASSUME pc'[q] = pc[q], job'[q] = job[q] PROVE HasRow(q)'
    BY <1>a, <1>b DEF HasRow, Extends
  <1>1. ASSUME NEW p \in Procs, Capture(p) PROVE HasRow(q)'
    <2>1. CASE p # q
      BY <1>1, <1>b, <2>1, OthersWait
    <2>2. CASE p = q
      <3>0. q \in Agents /\ job \in [Procs -> Job]
        BY DEF Agents, TypeOK
      <3>1. CASE InsertRun(q)
        <4>1. CASE CreateRaises(q)
          BY <3>0, <4>1, GotoMoves DEF CreateRaises, HasRow
        <4>2. CASE ~CreateRaises(q)
          <5>1. PICK r : rows' = Append(rows, r) /\ job' = [job EXCEPT ![q].mine = Len(rows) + 1]
            BY <3>1, <4>2 DEF InsertRun
          <5>2. job'[q].mine = Len(rows) + 1
            BY <3>0, <5>1 DEF Job, JobFields
          <5>3. Len(rows) + 1 \in DOMAIN rows'
            BY <1>a, <5>1
          <5> QED
            BY <5>2, <5>3 DEF HasRow
        <4> QED
          BY <4>1, <4>2
      <3>2. CASE SelectRun(q) \/ ExecuteRequest(q) \/ Interrupt(q) \/ FinishRun(q)
        <4>1. pc[q] \in {"select", "exec", "finish"}
          BY <3>2 DEF SelectRun, ExecuteRequest, Interrupt, FinishRun, At
        <4>2. job'[q].mine = job[q].mine
          BY <3>0, <3>2 DEF SelectRun, CreateRaises, ExecuteRequest, Interrupt, FinishRun, Job, JobFields
        <4> QED
          BY <1>a, <4>1, <4>2 DEF HasRow, Extends
      <3>3. CASE ~(InsertRun(q) \/ SelectRun(q) \/ ExecuteRequest(q) \/ Interrupt(q) \/ FinishRun(q))
        <4>1. \E l \in Labels \ {"select", "exec", "finish"} : Goto(q, l)
          BY <1>1, <2>2, <3>3
          DEF Capture, StartDue, StartManual, StartRepair, StartNow, Precheck, TakeLock, ReuseRepair,
              SkipInsert, SkipSelect, SkipFinish, SelectWindow, Supersede, Labels
        <4> QED
          BY <3>0, <4>1, GotoMoves DEF HasRow
      <3> QED
        BY <3>1, <3>2, <3>3
    <2> QED
      BY <2>1, <2>2
  <1>2. ASSUME NEW m \in Maint, Reconcile(m) PROVE HasRow(q)'
    <2>1. q \in Agents /\ m \in Agents /\ m # q
      BY JobAssumption DEF JobAssumption, Agents
    <2>2. job' = job /\ \E l : Goto(m, l)
      BY <1>2 DEF Reconcile, Scan, MaintLock, MaintRead, MaintFail
    <2> QED
      BY <1>b, <2>1, <2>2, GotoMoves
  <1>3. ASSUME NEW a \in Agents, Release(a) \/ Crash(a) PROVE HasRow(q)'
    <2>1. q \in Agents /\ Goto(a, "idle") /\ (q # a => job'[q] = job[q])
      BY <1>3, ForgetType DEF Agents, Release, Crash, Forget
    <2>2. CASE q = a
      BY <2>1, <2>2, GotoMoves DEF HasRow
    <2> QED
      BY <1>b, <2>1, <2>2, GotoMoves
  <1>4. CASE Environment \/ UNCHANGED vars
    BY <1>4, <1>b DEF Environment, LoseSession, ChangePolicy, ChangeList, NextSlot, vars
  <1> QED
    BY <1>1, <1>2, <1>3, <1>4 DEF Next

LEMMA StepLive == TypeOK /\ LockInv /\ RowInv /\ [Next]_vars => LiveRunKept
  <1> SUFFICES ASSUME TypeOK, LockInv, RowInv, [Next]_vars, Exclusive, NEW q \in Procs,
                      pc[q] \in {"select", "exec", "finish"},
                      rows[job[q].mine].status = "running",
                      rows'[job[q].mine].status = "failed"
               PROVE  pc'[q] # pc[q]
    BY DEF LiveRunKept
  <1> DEFINE i == job[q].mine
  <1>0. i \in DOMAIN rows /\ q \in Agents /\ rows \in Seq(Row) /\ job[q] \in Job
    BY DEF RowInv, HasRow, Agents, TypeOK
  <1>1. \A a \in Agents : pc[a] \in Critical => a = q
    BY <1>0, LockGivesExclusion DEF OneExecutor, Critical, Executing
  <1>2. rows' # rows
    OBVIOUS
  <1>3. ASSUME NEW p \in Procs, Capture(p) PROVE pc'[q] # pc[q]
    <2>1. CASE p # q
      <3>1. pc[p] \notin Critical
        BY <1>1, <2>1 DEF Agents
      <3> QED
        BY <1>0, <1>3, <3>1, OutsidersSkip
    <2>2. CASE p = q
      <3>1. CASE FinishRun(q)
        BY <1>0, <3>1, GotoMoves DEF FinishRun
      <3>2. CASE ExecuteRequest(q)
        <4>1. /\ job[q].next \in Nat /\ job[q].fp \in Fingerprints \cup {NoFp}
              /\ job[q].list \in Seq(Asks)
          BY <1>0, JobAssumption DEF JobAssumption, Job, JobFields
        <4>2. ProgressedRow(rows', rows)
          BY <1>0, <3>2, <4>1, ProgressedExtends, Zenon DEF ExecuteRequest
        <4> QED
          BY <1>0, <4>2 DEF ProgressedRow
      <3>3. CASE ~(FinishRun(q) \/ ExecuteRequest(q))
        <4>1. rows' = rows
          BY <1>3, <2>2, <3>3
          DEF Capture, At, StartDue, StartManual, StartRepair, StartNow, Precheck, TakeLock,
              ReuseRepair, SkipInsert, SkipSelect, SkipFinish, SelectWindow, Supersede, InsertRun,
              SelectRun, Interrupt
        <4> QED
          BY <1>2, <4>1
      <3> QED
        BY <3>1, <3>2, <3>3
    <2> QED
      BY <2>1, <2>2
  <1>4. ASSUME NEW m \in Maint, Reconcile(m) PROVE pc'[q] # pc[q]
    <2>1. MaintFail(m)
      BY <1>2, <1>4 DEF Reconcile, Scan, MaintLock, MaintRead
    <2>2. m \in Agents /\ m # q /\ pc[m] \in Critical
      BY <2>1, JobAssumption DEF JobAssumption, Agents, MaintFail, At, Critical
    <2> QED
      BY <1>1, <2>2
  <1> QED
    BY <1>2, <1>3, <1>4 DEF Next, vars, Release, Crash, Environment, LoseSession, ChangePolicy, ChangeList, NextSlot

\* Neither the maintenance nor another run marks the row of a run that is still
\* executing as failed, for any number of processes and reconcilers and any
\* table, as long as no session is cut (fail_stale_running and the supersede of
\* CaptureRunRepository.create, "without overriding a live lock owner").
THEOREM LiveRunsKept == Spec => LiveRunNotFailed
  <1>1. Init => LockInv /\ RowInv
    BY DEF Init, LockInv, RowInv, HasRow, Critical, Executing, Agents
  <1> QED
    BY <1>1, InitType, StepType, StepLock, StepRow, StepLive, PTL DEF Spec, LiveRunNotFailed

-----------------------------------------------------------------------------
(***************************************************************************)
(* Repairs.  A run for a fingerprint begins after a look at the successes,  *)
(* with the lock, and nobody else can add one before it ends.               *)
(***************************************************************************)
SuccessOnce ==
    \A i, j \in DOMAIN rows :
        /\ rows[i].status = "success" /\ rows[j].status = "success"
        /\ rows[i].fp = rows[j].fp /\ rows[i].fp # NoFp
        => i = j

NoneYet == \A p \in Procs : pc[p] \in Executing /\ job[p].fp # NoFp => ~RepairDone(rows, job[p].fp)

RepairInv == Reliable => SuccessOnce /\ NoneYet

\* The successes of the new table are successes of the old one.
NoNewSuccess ==
    \A i \in DOMAIN rows' : rows'[i].status = "success" =>
        i \in DOMAIN rows /\ rows[i].status = "success" /\ rows'[i].fp = rows[i].fp

LEMMA OldSuccesses ==
    ASSUME NoNewSuccess, SuccessOnce
    PROVE  SuccessOnce' /\ \A f : RepairDone(rows', f) => RepairDone(rows, f)
  BY DEF NoNewSuccess, SuccessOnce, RepairDone

LEMMA RowsWithoutSuccess ==
    ASSUME TypeOK
    PROVE  /\ rows' = rows => NoNewSuccess
           /\ \A r : rows' = Append(rows, r) /\ r.status # "success" => NoNewSuccess
           /\ \A ids : rows' = FailRunning(rows, ids) => NoNewSuccess
           /\ \A id, st, nx, fp, ls : rows' = Finished(rows, id, st, nx, fp, ls) /\ st # "success" => NoNewSuccess
           /\ \A id, nx, fp, ls : rows' = Progressed(rows, id, nx, fp, ls) => NoNewSuccess
  <1>0. rows \in Seq(Row) /\ \A i \in DOMAIN rows : rows[i] \in Row
    BY DEF TypeOK
  <1>1. ASSUME rows' = rows PROVE NoNewSuccess
    BY <1>1 DEF NoNewSuccess
  <1>2. ASSUME NEW r, rows' = Append(rows, r), r.status # "success" PROVE NoNewSuccess
    <2>1. /\ DOMAIN rows' = DOMAIN rows \cup {Len(rows) + 1}
          /\ rows'[Len(rows) + 1] = r
          /\ \A i \in DOMAIN rows : rows'[i] = rows[i]
      BY <1>0, <1>2
    <2> QED
      BY <1>2, <2>1 DEF NoNewSuccess
  <1>3. ASSUME NEW ids, rows' = FailRunning(rows, ids) PROVE NoNewSuccess
    BY <1>0, <1>3 DEF NoNewSuccess, FailRunning, Row
  <1>4. ASSUME NEW id, NEW st, NEW nx, NEW fp, NEW ls, rows' = Finished(rows, id, st, nx, fp, ls), st # "success"
        PROVE  NoNewSuccess
    BY <1>0, <1>4 DEF NoNewSuccess, Finished, Row
  <1>5. ASSUME NEW id, NEW nx, NEW fp, NEW ls, rows' = Progressed(rows, id, nx, fp, ls) PROVE NoNewSuccess
    BY <1>1, <1>4, <1>5 DEF Progressed
  <1> QED
    BY <1>1, <1>2, <1>3, <1>4, <1>5

\* A capture that is no repair has no fingerprint when it takes the lock.
Plain == \A p \in Procs : pc[p] \in {"precheck", "lock"} => job[p].fp = NoFp

LEMMA RepairKept ==
    ASSUME SuccessOnce, NoneYet, NoNewSuccess,
           \A q \in Procs : pc'[q] \in Executing =>
               pc[q] \in Executing /\ job'[q].fp = job[q].fp
    PROVE  SuccessOnce' /\ NoneYet'
  <1>1. SuccessOnce' /\ \A f : RepairDone(rows', f) => RepairDone(rows, f)
    BY OldSuccesses
  <1> QED
    BY <1>1 DEF NoneYet, Executing

LEMMA StepPlain == TypeOK /\ Plain /\ [Next]_vars => Plain'
  <1> SUFFICES ASSUME TypeOK, Plain, [Next]_vars, NEW q \in Procs,
                      pc'[q] \in {"precheck", "lock"}
               PROVE  job'[q].fp = NoFp
    BY DEF Plain
  <1>0. q \in Agents /\ job \in [Procs -> Job]
    BY DEF Agents, TypeOK
  <1>b. ASSUME pc'[q] = pc[q], job'[q] = job[q] PROVE job'[q].fp = NoFp
    BY <1>b DEF Plain
  <1>1. ASSUME NEW p \in Procs, Capture(p) PROVE job'[q].fp = NoFp
    <2>1. CASE p # q
      BY <1>1, <1>b, <2>1, OthersWait
    <2>2. CASE p = q
      <3>1. CASE StartDue(q) \/ StartManual(q) \/ StartRepair(q)
        <4>1. CASE StartRepair(q)
          BY <1>0, <4>1, GotoMoves DEF StartRepair, StartNow
        <4>2. CASE StartDue(q) \/ StartManual(q)
          <5>1. \E t : job' = [job EXCEPT ![q] = NewJob(t, NoFp)]
            BY <4>2 DEF StartDue, StartManual, StartNow
          <5> QED
            BY <1>0, <5>1 DEF NewJob
        <4> QED
          BY <3>1, <4>1, <4>2
      <3>2. CASE Precheck(q)
        BY <1>0, <3>2 DEF Precheck, At, Plain
      <3>3. CASE ExecuteRequest(q)
        BY <1>0, <3>3 DEF ExecuteRequest, At
      <3>4. CASE ~(StartDue(q) \/ StartManual(q) \/ StartRepair(q) \/ Precheck(q) \/ ExecuteRequest(q))
        <4>1. \E l \in Labels \ {"precheck", "lock"} : Goto(q, l)
          BY <1>1, <2>2, <3>4
          DEF Capture, TakeLock, ReuseRepair, SkipInsert, SkipSelect, SkipFinish, SelectWindow,
              Supersede, InsertRun, SelectRun, CreateRaises, Interrupt, FinishRun, Labels
        <4> QED
          BY <1>0, <4>1, GotoMoves
      <3> QED
        BY <3>1, <3>2, <3>3, <3>4
    <2> QED
      BY <2>1, <2>2
  <1>2. ASSUME NEW m \in Maint, Reconcile(m) PROVE job'[q].fp = NoFp
    <2>1. q \in Agents /\ m \in Agents /\ m # q
      BY JobAssumption DEF JobAssumption, Agents
    <2>2. job' = job /\ \E l : Goto(m, l)
      BY <1>2 DEF Reconcile, Scan, MaintLock, MaintRead, MaintFail
    <2> QED
      BY <1>b, <2>1, <2>2, GotoMoves
  <1>3. ASSUME NEW a \in Agents, Release(a) \/ Crash(a) PROVE job'[q].fp = NoFp
    <2>1. Goto(a, "idle") /\ (q # a => job'[q] = job[q])
      BY <1>3 DEF Release, Crash, Forget
    <2> QED
      BY <1>0, <1>b, <2>1, GotoMoves
  <1>4. CASE Environment \/ UNCHANGED vars
    BY <1>4, <1>b DEF Environment, LoseSession, ChangePolicy, ChangeList, NextSlot, vars
  <1> QED
    BY <1>1, <1>2, <1>3, <1>4 DEF Next

LEMMA StepRepair == TypeOK /\ LockInv /\ Plain /\ RepairInv /\ [Next]_vars => RepairInv'
  <1> SUFFICES ASSUME TypeOK, LockInv, Plain, RepairInv, [Next]_vars, Reliable'
               PROVE  SuccessOnce' /\ NoneYet'
    BY DEF RepairInv
  <1>a. Reliable /\ Exclusive
    BY OutagesGrow DEF Reliable, Exclusive
  <1>b. SuccessOnce /\ NoneYet
    BY <1>a DEF RepairInv
  <1>c. ~Event("db")
    BY DEF Event, Outage, Reliable
  <1>d. \A a, b \in Agents : pc[a] \in Critical /\ pc[b] \in Critical => a = b
    BY <1>a, LockGivesExclusion DEF OneExecutor
  <1>e. rows \in Seq(Row) /\ job \in [Procs -> Job]
    BY DEF TypeOK
  <1>1. ASSUME NEW p \in Procs, Capture(p) PROVE SuccessOnce' /\ NoneYet'
    <2>0. p \in Agents
      BY DEF Agents
    <2>a. \A q \in Procs : q # p => pc'[q] = pc[q] /\ job'[q] = job[q]
      BY <1>1, OthersWait
    <2>1. CASE FinishRun(p)
      <3> DEFINE id == job[p].run
                 f  == IF job[p].err THEN NoFp ELSE job[p].fp
      <3>1. rows' = Finished(rows, id, ExecutionStatus(job[p]), RecordedNext(job[p]), f,
                                RecordedList(job[p]))
        BY <1>c, <2>1 DEF FinishRun
      <3>2. pc'[p] = "release" /\ pc[p] \in Executing
        BY <2>0, <2>1, GotoMoves DEF FinishRun, At, Executing
      <3>3. \A q \in Procs : pc'[q] \in Executing => FALSE
        BY <1>d, <2>0, <2>a, <3>2 DEF Agents, Critical, Executing
      <3>4. NoneYet'
        BY <3>3 DEF NoneYet, Executing
      <3>5. CASE ExecutionStatus(job[p]) # "success"
        <4>1. NoNewSuccess
          BY <3>1, <3>5, RowsWithoutSuccess
        <4> QED
          BY <1>b, <3>4, <4>1, OldSuccesses
      <3>6. CASE ExecutionStatus(job[p]) = "success"
        <4>1. ~job[p].err
          BY <3>6 DEF ExecutionStatus
        <4>2. DOMAIN rows' = DOMAIN rows
          BY <3>1 DEF Finished
        <4>3. \A k \in DOMAIN rows : k # id => rows'[k] = rows[k]
          BY <3>1 DEF Finished
        <4>4. id \in DOMAIN rows => rows'[id].fp = job[p].fp
          <5>1. ASSUME id \in DOMAIN rows PROVE rows[id] \in Row
            BY <1>e, <5>1
          <5> QED
            BY <3>1, <4>1, <5>1 DEF Finished, Row
        <4>5. job[p].fp # NoFp => ~RepairDone(rows, job[p].fp)
          BY <1>b, <3>2 DEF NoneYet
        <4>6. SuccessOnce'
          BY <1>b, <4>2, <4>3, <4>4, <4>5 DEF SuccessOnce, RepairDone
        <4> QED
          BY <3>4, <4>6
      <3> QED
        BY <3>5, <3>6
    <2>2. CASE ReuseRepair(p) \/ TakeLock(p)
      <3>1. rows' = rows /\ job' = job
        BY <2>2 DEF ReuseRepair, TakeLock
      <3>2. NoNewSuccess
        BY <3>1, RowsWithoutSuccess
      <3>3. SuccessOnce'
        BY <1>b, <3>2, OldSuccesses
      <3>4. ASSUME pc'[p] \in Executing, job[p].fp # NoFp PROVE ~RepairDone(rows, job[p].fp)
        <4>1. CASE ReuseRepair(p)
          BY <1>c, <2>0, <3>4, <4>1, GotoMoves DEF ReuseRepair, Executing
        <4>2. CASE TakeLock(p)
          <5>1. At(p, "lock")
            BY <1>c, <2>0, <3>4, <4>2, GotoMoves DEF TakeLock, Executing
          <5> QED
            BY <3>4, <5>1 DEF At, Plain
        <4> QED
          BY <2>2, <4>1, <4>2
      <3>5. NoneYet'
        BY <1>b, <2>a, <3>1, <3>4 DEF NoneYet, Executing
      <3> QED
        BY <3>3, <3>5
    <2>3. CASE ~(FinishRun(p) \/ ReuseRepair(p) \/ TakeLock(p))
      <3>1. NoNewSuccess
        <4>1. CASE SkipInsert(p) \/ InsertRun(p)
          <5>1. rows' = rows \/ \E r : rows' = Append(rows, r) /\ r.status # "success"
            BY <4>1 DEF SkipInsert, InsertRun
          <5> QED
            BY <5>1, RowsWithoutSuccess
        <4>2. CASE SkipFinish(p)
          <5>1. \/ rows' = rows
                \/ rows' = Finished(rows, job[p].run, "skipped", 0, job[p].fp, <<>>)
            BY <4>2 DEF SkipFinish
          <5> QED
            BY <5>1, RowsWithoutSuccess
        <4>3. CASE Supersede(p) \/ ExecuteRequest(p)
          BY <4>3, RowsWithoutSuccess DEF Supersede, Superseded, ExecuteRequest
        <4>4. CASE rows' = rows
          BY <4>4, RowsWithoutSuccess
        <4> QED
          BY <1>1, <2>3, <4>1, <4>2, <4>3, <4>4
          DEF Capture, StartDue, StartManual, StartRepair, StartNow, Precheck, SkipSelect,
              SelectWindow, SelectRun, Interrupt
      <3>2. pc'[p] \in Executing => pc[p] \in Executing /\ job'[p].fp = job[p].fp
        <4>1. CASE StartDue(p) \/ StartManual(p) \/ StartRepair(p) \/ Precheck(p)
                   \/ SkipInsert(p) \/ SkipSelect(p) \/ SkipFinish(p)
          <5>1. \E l \in Labels \ Executing : Goto(p, l)
            BY <4>1 DEF StartDue, StartManual, StartRepair, StartNow, Precheck, SkipInsert, SkipSelect,
                        SkipFinish, Labels, Executing
          <5> QED
            BY <2>0, <5>1, GotoMoves
        <4>2. CASE ~(StartDue(p) \/ StartManual(p) \/ StartRepair(p) \/ Precheck(p)
                     \/ SkipInsert(p) \/ SkipSelect(p) \/ SkipFinish(p))
          <5>1. pc[p] \in Executing
            BY <1>1, <2>3, <4>2
            DEF Capture, SelectWindow, Supersede, InsertRun, SelectRun, ExecuteRequest, Interrupt,
                At, Executing
          <5>2. CASE SelectWindow(p)
            <6>0. p \in Procs /\ job[p] \in Job
              BY <1>e
            <6>1. \A l, s : WithWindow(job[p], l, s).fp = job[p].fp
              BY <6>0 DEF WithWindow, Job, JobFields
            <6>2. \A l, s : job' = [job EXCEPT ![p] = WithWindow(@, l, s)]
                           => job'[p] = WithWindow(job[p], l, s)
              BY <1>e, <6>0
            <6>3. job' = [job EXCEPT ![p].err = TRUE] => job'[p].fp = job[p].fp
              BY <1>e, <6>0 DEF Job, JobFields
            <6> QED
              BY <5>1, <5>2, <6>1, <6>2, <6>3 DEF SelectWindow
          <5>3. CASE Supersede(p) \/ InsertRun(p) \/ SelectRun(p) \/ ExecuteRequest(p) \/ Interrupt(p)
            <6>1. job'[p].fp = job[p].fp
              BY <1>e, <5>3 DEF Supersede, InsertRun, SelectRun, CreateRaises, ExecuteRequest, Interrupt, Job, JobFields
            <6> QED
              BY <5>1, <6>1
          <5> QED
            BY <1>1, <2>3, <4>2, <5>2, <5>3 DEF Capture
        <4> QED
          BY <4>1, <4>2
      <3> QED
        BY <1>b, <2>a, <3>1, <3>2, RepairKept
    <2> QED
      BY <2>1, <2>2, <2>3
  <1>2. ASSUME NEW m \in Maint, Reconcile(m) PROVE SuccessOnce' /\ NoneYet'
    <2>1. NoNewSuccess
      <3>1. rows' = rows \/ rows' = FailRunning(rows, stale[m])
        BY <1>2 DEF Reconcile, Scan, MaintLock, MaintRead, MaintFail
      <3> QED
        BY <3>1, RowsWithoutSuccess
    <2>2. job' = job /\ \E l : Goto(m, l)
      BY <1>2 DEF Reconcile, Scan, MaintLock, MaintRead, MaintFail
    <2>3. m \in Agents /\ \A q \in Procs : q \in Agents /\ q # m
      BY JobAssumption DEF JobAssumption, Agents
    <2>4. \A q \in Procs : pc'[q] = pc[q]
      BY <2>2, <2>3, GotoMoves
    <2> QED
      BY <1>b, <2>1, <2>2, <2>4, RepairKept
  <1>3. ASSUME NEW a \in Agents, Release(a) \/ Crash(a) PROVE SuccessOnce' /\ NoneYet'
    <2>1. NoNewSuccess
      BY <1>3, RowsWithoutSuccess DEF Release, Crash
    <2>2. Goto(a, "idle") /\ \A q \in Procs : q # a => job'[q] = job[q]
      BY <1>3 DEF Release, Crash, Forget
    <2>3. "idle" \notin Executing /\ Procs \subseteq Agents
      BY DEF Executing, Agents
    <2>4. \A q \in Procs : pc'[q] \in Executing => pc[q] \in Executing /\ job'[q].fp = job[q].fp
      BY <2>2, <2>3, GotoMoves
    <2> QED
      BY <1>b, <2>1, <2>4, RepairKept
  <1>4. CASE Environment \/ UNCHANGED vars
    <2>1. rows' = rows /\ pc' = pc /\ job' = job
      BY <1>4 DEF Environment, LoseSession, ChangePolicy, ChangeList, NextSlot, vars
    <2>2. NoNewSuccess
      BY <2>1, RowsWithoutSuccess
    <2> QED
      BY <1>b, <2>1, <2>2, RepairKept
  <1> QED
    BY <1>1, <1>2, <1>3, <1>4 DEF Next

\* A repair succeeds once for its fingerprint, for any number of processes and
\* repairs and whatever crashes, fails or is interrupted, as long as sessions
\* last and statements do not fail (run_repair: the look at
\* latest_success_for_repair_fingerprint is made under the lock).
THEOREM RepairsOnce == Spec => []RepairOnce
  <1>1. Init => LockInv /\ Plain /\ RepairInv
    BY DEF Init, LockInv, Plain, RepairInv, SuccessOnce, NoneYet, Critical, Executing, Agents
  <1>2. RepairInv => RepairOnce
    BY DEF RepairInv, SuccessOnce, RepairOnce
  <1> QED
    BY <1>1, <1>2, InitType, StepType, StepLock, StepPlain, StepRepair, PTL DEF Spec

-----------------------------------------------------------------------------
(* The gap book.                                                           *)

TaskFields == {"at", "goal", "days", "scan", "todo", "work", "good", "priced", "written", "left"}

\* A task that has written its answer is recording it, and has stored the bars
\* of all that was priced.
TaskSound(t, stored) ==
    /\ DOMAIN t = TaskFields
    /\ t.work \subseteq Pairs /\ t.priced \subseteq Pairs
    /\ t.written => t.at = "record" /\ \A cd \in t.priced : stored[cd]

GapInv ==
    /\ whole \in [Pairs -> BOOLEAN]
    /\ DOMAIN task = Workers /\ \A p \in Workers : TaskSound(task[p], whole)
    /\ \A cd \in Pairs : coverage[cd] = "full" => whole[cd]
    /\ ResolvedIsWhole

LEMMA IdleTask == DOMAIN Idle = TaskFields /\ Idle.work = {} /\ Idle.priced = {} /\ ~Idle.written
BY DEF Idle, TaskFields

\* What a step leaves of a task that it does not speak of.
LEMMA ChangedTask ==
    ASSUME NEW t, DOMAIN t = TaskFields, NEW r
    PROVE  /\ DOMAIN Changed(t, r) = TaskFields
           /\ "at" \in DOMAIN r => Changed(t, r).at = r.at
           /\ "work" \in DOMAIN r => Changed(t, r).work = r.work
           /\ "work" \notin DOMAIN r => Changed(t, r).work = t.work
           /\ "priced" \in DOMAIN r => Changed(t, r).priced = r.priced
           /\ "priced" \notin DOMAIN r => Changed(t, r).priced = t.priced
           /\ "written" \in DOMAIN r => Changed(t, r).written = r.written
           /\ "written" \notin DOMAIN r => Changed(t, r).written = t.written
           /\ "at" \notin DOMAIN r => Changed(t, r).at = t.at
BY DEF Changed, TaskFields

\* A step that comes before the answer is written, and says nothing of it.
Unwritten == {"idle", "choose", "cover", "sum", "open", "suspend", "close", "retryable", "lock", "build",
              "list", "release", "fetch", "write"}

LEMMA EarlyStep ==
    ASSUME NEW t, NEW stored, TaskSound(t, stored), t.at \in Unwritten, NEW r,
           "written" \notin DOMAIN r, "priced" \notin DOMAIN r,
           "work" \in DOMAIN r => r.work \subseteq Pairs
    PROVE  TaskSound(Changed(t, r), stored)
<1>1. DOMAIN t = TaskFields /\ ~t.written
  BY DEF TaskSound, Unwritten
<1> QED BY <1>1, ChangedTask DEF TaskSound

LEMMA StoredMore ==
    ASSUME NEW t, NEW before, NEW after, TaskSound(t, before), \A cd \in Pairs : before[cd] => after[cd]
    PROVE  TaskSound(t, after)
BY DEF TaskSound

LEMMA NewestPairs == ASSUME NEW S \in SUBSET Pairs PROVE Newest(S) \in SUBSET Pairs
BY DEF Newest

\* Every step leaves its task sound; only the writing of facts and the live bars
\* change what is stored, and they only add to it.
LEMMA TaskStep ==
    ASSUME GapInv, NEW p \in Workers, StartAudit(p) \/ Continue(p) \/ Dies(p) \/ RecordRaises(p)
    PROVE  /\ whole' \in [Pairs -> BOOLEAN] /\ \A cd \in Pairs : whole[cd] => whole'[cd]
           /\ \E t : task' = [task EXCEPT ![p] = t] /\ TaskSound(t, whole')
<1>0. /\ whole \in [Pairs -> BOOLEAN] /\ TaskSound(task[p], whole) /\ DOMAIN task[p] = TaskFields
      /\ task[p].work \subseteq Pairs /\ task[p].priced \subseteq Pairs
      /\ TaskSound(Idle, whole)
  BY IdleTask DEF GapInv, TaskSound
<1> DEFINE Goal == \E t : task' = [task EXCEPT ![p] = t] /\ TaskSound(t, whole')
<1>1. CASE StartAudit(p) \/ AuditAgain(p)
  <2>1. PICK goal \in {"audit", "retry"} :
          \/ Does(p, [at |-> "choose", goal |-> goal, days |-> Selected])
          \/ Does(p, [at |-> "choose", days |-> Selected])
    BY <1>1 DEF StartAudit, AuditAgain
  <2>2. UNCHANGED whole /\ task[p].at \in Unwritten
    BY <1>1 DEF StartAudit, AuditAgain, Unrecorded, Step, Unwritten
  <2>3. TaskSound(Changed(task[p], [at |-> "choose", goal |-> goal, days |-> Selected]), whole)
    BY <1>0, <2>2, EarlyStep
  <2>4. TaskSound(Changed(task[p], [at |-> "choose", days |-> Selected]), whole)
    BY <1>0, <2>2, EarlyStep
  <2> QED BY <1>0, <2>1, <2>2, <2>3, <2>4 DEF Does
<1>2. CASE ChooseDates(p) \/ CoverDate(p) \/ SummarizeDate(p) \/ OpenGaps(p) \/ Suspend(p)
  <2>1. PICK r : Does(p, r) /\ "written" \notin DOMAIN r /\ "priced" \notin DOMAIN r /\ "work" \notin DOMAIN r
    <3>1. CASE ChooseDates(p)
      <4> DEFINE r == [at |-> "cover", scan |-> DatesToScan(task[p].days), todo |-> DatesToScan(task[p].days)]
      <4>1. Does(p, r) /\ DOMAIN r = {"at", "scan", "todo"}
        BY <3>1 DEF ChooseDates
      <4> QED BY <4>1
    <3>2. CASE CoverDate(p)
      <4>1. Does(p, [at |-> "sum"]) /\ DOMAIN [at |-> "sum"] = {"at"}
        BY <3>2 DEF CoverDate
      <4> QED BY <4>1
    <3>3. CASE SummarizeDate(p)
      <4> DEFINE r == [at |-> IF Len(task[p].todo) = 1 THEN "open" ELSE "cover", todo |-> Tail(task[p].todo)]
      <4>1. Does(p, r) /\ DOMAIN r = {"at", "todo"}
        BY <3>3 DEF SummarizeDate
      <4> QED BY <4>1
    <3>4. CASE OpenGaps(p) \/ Suspend(p)
      <4>1. PICK s \in {"suspend", "close"} : Does(p, [at |-> s])
        BY <3>4 DEF OpenGaps, Suspend
      <4>2. DOMAIN [at |-> s] = {"at"}
        OBVIOUS
      <4> QED BY <4>1, <4>2
    <3> QED BY <1>2, <3>1, <3>2, <3>3, <3>4
  <2>2. UNCHANGED whole /\ task[p].at \in Unwritten
    BY <1>2 DEF ChooseDates, CoverDate, SummarizeDate, OpenGaps, Suspend, Unrecorded, Step, Unwritten
  <2>3. TaskSound(Changed(task[p], r), whole)
    BY <1>0, <2>1, <2>2, EarlyStep
  <2> QED BY <1>0, <2>1, <2>2, <2>3 DEF Does
<1>3. CASE CloseGaps(p)
  <2> DEFINE next == [Idle EXCEPT !.at = "retryable"]
  <2>1. UNCHANGED whole /\ (task' = [task EXCEPT ![p] = next] \/ task' = [task EXCEPT ![p] = Idle])
    BY <1>3 DEF CloseGaps, Unrecorded
  <2>2. TaskSound(next, whole)
    BY DEF Idle, TaskSound, TaskFields
  <2> HIDE DEF next
  <2> QED BY <1>0, <2>1, <2>2
<1>4. CASE ListRetryable(p)
  <2>1. PICK due \in SUBSET {cd \in Pairs : cd[2] \in Selected /\ Open(cd)} :
          \/ task' = [task EXCEPT ![p] = Idle]
          \/ Does(p, [at |-> "lock", goal |-> "audit", work |-> Newest(due)])
    BY <1>4, Zenon DEF ListRetryable
  <2>2. UNCHANGED whole /\ task[p].at \in Unwritten
    BY <1>4 DEF ListRetryable, Unrecorded, Step, Unwritten
  <2>3. Newest(due) \subseteq Pairs
    BY NewestPairs
  <2> DEFINE r == [at |-> "lock", goal |-> "audit", work |-> Newest(due)]
  <2>4. "written" \notin DOMAIN r /\ "priced" \notin DOMAIN r /\ r.work \subseteq Pairs
    BY <2>3
  <2> HIDE DEF r
  <2>5. TaskSound(Changed(task[p], r), whole)
    BY <1>0, <2>2, <2>4, EarlyStep
  <2> QED BY <1>0, <2>1, <2>2, <2>5 DEF Does, r
<1>5. CASE LockOrSkip(p) \/ Unlock(p)
  <2>1. \/ task' = [task EXCEPT ![p] = Idle]
        \/ \E s \in {"build", "fetch", "list"} : Does(p, [at |-> s])
    BY <1>5 DEF LockOrSkip, Unlock
  <2>2. UNCHANGED whole /\ task[p].at \in Unwritten
    BY <1>5 DEF LockOrSkip, Unlock, Step, Unwritten
  <2>3. ASSUME NEW s, Does(p, [at |-> s]) PROVE Goal
    <3>1. DOMAIN [at |-> s] = {"at"}
      OBVIOUS
    <3>2. TaskSound(Changed(task[p], [at |-> s]), whole)
      BY <1>0, <2>2, <3>1, EarlyStep
    <3> QED BY <2>2, <2>3, <3>2 DEF Does
  <2> QED BY <1>0, <2>1, <2>2, <2>3
<1>6. CASE BuildRequests(p)
  <2> DEFINE missing == {cd \in Pairs : cd[2] \in Selected /\ daily[cd] = "traded" /\ ~whole[cd]}
             blank   == \E d \in Selected : \A c \in GapCodes : daily[c, d] # "traded"
             r       == [at |-> IF blank \/ missing = {} THEN "release" ELSE "fetch",
                         work |-> IF blank THEN {} ELSE Newest(missing)]
  <2>1. Does(p, r)
    BY <1>6 DEF BuildRequests
  <2>2. UNCHANGED whole /\ task[p].at \in Unwritten
    BY <1>6 DEF BuildRequests, Unrecorded, Step, Unwritten
  <2>3. missing \in SUBSET Pairs
    OBVIOUS
  <2>4. Newest(missing) \subseteq Pairs
    BY <2>3, NewestPairs
  <2> HIDE DEF missing, blank
  <2>5. "written" \notin DOMAIN r /\ "priced" \notin DOMAIN r /\ r.work \subseteq Pairs
    BY <2>4
  <2> HIDE DEF r
  <2>6. TaskSound(Changed(task[p], r), whole)
    BY <1>0, <2>2, <2>5, EarlyStep
  <2> QED BY <1>0, <2>1, <2>2, <2>6 DEF Does
<1>7. CASE Fetch(p)
  <2>1. PICK good \in SUBSET Batch(p) :
          \E priced \in {good} \cup (IF turns < MaxTurns THEN SUBSET good ELSE {}) :
            /\ Does(p, [at |-> "write", good |-> good, priced |-> priced])
            /\ turns' = IF priced = good THEN turns ELSE turns + 1
    BY <1>7, Zenon DEF Fetch
  <2>2. PICK priced \in SUBSET good : Does(p, [at |-> "write", good |-> good, priced |-> priced])
    BY <2>1
  <2>3. UNCHANGED whole /\ task[p].at \in Unwritten
    BY <1>7 DEF Fetch, Step, Unwritten
  <2> DEFINE r == [at |-> "write", good |-> good, priced |-> priced]
  <2>4. "written" \notin DOMAIN r /\ "priced" \in DOMAIN r /\ r.priced = priced /\ "work" \notin DOMAIN r
    OBVIOUS
  <2>5. priced \subseteq Pairs /\ ~task[p].written
    BY <1>0, <2>3 DEF Batch, TaskSound, Unwritten
  <2> HIDE DEF r
  <2>6. TaskSound(Changed(task[p], r), whole)
    BY <1>0, <2>4, <2>5, ChangedTask DEF TaskSound
  <2> QED BY <1>0, <2>2, <2>3, <2>6 DEF Does, r
<1>8. CASE FetchRaises(p)
  <2> DEFINE r == [at |-> "record", left |-> Batch(p)]
  <2>1. Does(p, r) /\ UNCHANGED whole /\ task[p].at \in Unwritten
    BY <1>8 DEF FetchRaises, Unrecorded, Step, Unwritten
  <2>2. "written" \notin DOMAIN r /\ "priced" \notin DOMAIN r /\ "work" \notin DOMAIN r
    OBVIOUS
  <2> HIDE DEF r
  <2>3. TaskSound(Changed(task[p], r), whole)
    BY <1>0, <2>1, <2>2, EarlyStep
  <2> QED BY <1>0, <2>1, <2>3 DEF Does
<1>9. CASE WriteFacts(p)
  <2>1. PICK ok \in BOOLEAN, put \in BOOLEAN :
          /\ ok => put
          /\ whole' = [cd \in Pairs |-> whole[cd] \/ (put /\ cd \in task[p].priced)]
          /\ Does(p, [at |-> "record", written |-> ok /\ task[p].good # {}, left |-> Batch(p)])
    BY <1>9, Zenon DEF WriteFacts
  <2> DEFINE r == [at |-> "record", written |-> ok /\ task[p].good # {}, left |-> Batch(p)]
  <2>2. /\ "written" \in DOMAIN r /\ (r.written => ok) /\ "at" \in DOMAIN r /\ r.at = "record"
        /\ "priced" \notin DOMAIN r /\ "work" \notin DOMAIN r
    OBVIOUS
  <2> HIDE DEF r
  <2>3. whole' \in [Pairs -> BOOLEAN] /\ (\A cd \in Pairs : whole[cd] => whole'[cd])
        /\ (ok => \A cd \in task[p].priced : whole'[cd])
    BY <1>0, <2>1
  <2>4. TaskSound(Changed(task[p], r), whole')
    BY <1>0, <2>2, <2>3, ChangedTask DEF TaskSound
  <2> QED BY <2>1, <2>3, <2>4 DEF Does, r
<1>10. CASE RecordOne(p)
  <2>1. PICK cd \in task[p].left : Does(p, [left |-> task[p].left \ {cd}])
    BY <1>10, Zenon DEF RecordOne
  <2> DEFINE r == [left |-> task[p].left \ {cd}]
  <2>2. DOMAIN r = {"left"} /\ UNCHANGED whole
    BY <1>10 DEF RecordOne
  <2> HIDE DEF r
  <2>3. TaskSound(Changed(task[p], r), whole)
    BY <1>0, <2>2, ChangedTask DEF TaskSound
  <2> QED BY <1>0, <2>1, <2>2, <2>3 DEF Does, r
<1>11. CASE NextBatch(p)
  <2> DEFINE rest == task[p].work \ Batch(p)
             r    == [at |-> IF rest = {} THEN "release" ELSE "fetch", work |-> rest,
                      good |-> {}, priced |-> {}, written |-> FALSE]
  <2>1. Does(p, r) /\ UNCHANGED whole
    BY <1>11 DEF NextBatch, Unrecorded
  <2>2. /\ "written" \in DOMAIN r /\ ~r.written /\ "priced" \in DOMAIN r /\ r.priced = {}
        /\ "work" \in DOMAIN r /\ r.work \subseteq Pairs
    BY <1>0
  <2> HIDE DEF r
  <2>3. TaskSound(Changed(task[p], r), whole)
    BY <1>0, <2>2, ChangedTask DEF TaskSound
  <2> QED BY <1>0, <2>1, <2>3 DEF Does
<1>12. CASE Dies(p)
  BY <1>0, <1>12 DEF Dies
<1>13. CASE RecordRaises(p)
  <2> DEFINE r == [good |-> {}, priced |-> {}, left |-> Batch(p)]
  <2>1. Does(p, r) /\ UNCHANGED whole
    BY <1>13 DEF RecordRaises
  <2>2. DOMAIN r = {"good", "priced", "left"} /\ r.priced = {}
    OBVIOUS
  <2> HIDE DEF r
  <2>3. TaskSound(Changed(task[p], r), whole)
    BY <1>0, <2>2, ChangedTask DEF TaskSound
  <2> QED BY <1>0, <2>1, <2>3 DEF Does
<1> QED BY <1>1, <1>2, <1>3, <1>4, <1>5, <1>6, <1>7, <1>8, <1>9, <1>10, <1>11, <1>12, <1>13 DEF Continue

LEMMA GapInvInit == GapInit => GapInv
<1> SUFFICES ASSUME GapInit PROVE GapInv
  OBVIOUS
<1>1. whole \in [Pairs -> BOOLEAN] /\ \A cd \in Pairs : coverage[cd] # "full"
  BY DEF GapInit
<1>2. DOMAIN task = Workers /\ \A p \in Workers : task[p] = Idle
  BY DEF GapInit
<1>3. TaskSound(Idle, whole)
  BY IdleTask DEF TaskSound
<1>4. ResolvedIsWhole
  BY DEF GapInit, ResolvedIsWhole
<1> QED BY <1>1, <1>2, <1>3, <1>4 DEF GapInv

\* Coverage is called full only of a day whose bars are counted there and then.
LEMMA CoverageStep ==
    ASSUME GapInv, NEW p \in Workers, StartAudit(p) \/ Continue(p) \/ Dies(p) \/ RecordRaises(p),
           \A cd \in Pairs : whole[cd] => whole'[cd]
    PROVE  \A cd \in Pairs : coverage'[cd] = "full" => whole'[cd]
<1>1. CASE CoverDate(p)
  <2>1. PICK d : coverage' = [cd \in Pairs |-> IF cd[2] = d /\ daily[cd] = "traded"
                                             THEN IF whole[cd] THEN "full" ELSE "short"
                                             ELSE coverage[cd]]
    BY <1>1 DEF CoverDate
  <2> QED BY <2>1 DEF GapInv
<1>2. CASE ~CoverDate(p)
  <2>1. UNCHANGED coverage
    BY <1>2 DEF StartAudit, Continue, Dies, RecordRaises, AuditAgain, ChooseDates, SummarizeDate, OpenGaps,
                Suspend, CloseGaps, ListRetryable, LockOrSkip, BuildRequests, Fetch, FetchRaises, WriteFacts,
                RecordOne, NextBatch, Unlock, Unrecorded
  <2> QED BY <2>1 DEF GapInv
<1> QED BY <1>1, <1>2

\* A step resolves only gaps whose coverage is full, and the gap of an answer
\* that is written: its bars are stored, or it lacked a price and is claimed.
LEMMA ResolvedStep ==
    ASSUME GapInv, NEW p \in Workers, StartAudit(p) \/ Continue(p) \/ Dies(p) \/ RecordRaises(p),
           \A cd \in Pairs : whole[cd] => whole'[cd]
    PROVE  ResolvedIsWhole'
<1>0. \A cd \in Pairs : gaps[cd] = "resolved" => whole[cd] \/ cd \in claimed
  BY DEF GapInv, ResolvedIsWhole
<1>1. CASE OpenGaps(p) \/ Suspend(p)
  <2> DEFINE short     == {cd \in Pairs : Scanned(p, cd) /\ coverage[cd] = "short" /\ daily[cd] = "traded"}
             suspended == {cd \in Pairs : cd[2] \in task[p].days /\ daily[cd] = "confirmed" /\ Open(cd)}
  <2>1. gaps' = Set(short, "pending") \/ gaps' = Set(suspended, "ineligible_suspended")
    BY <1>1 DEF OpenGaps, Suspend
  <2>2. UNCHANGED claimed
    BY <1>1 DEF OpenGaps, Suspend, Unrecorded
  <2> HIDE DEF short, suspended
  <2>3. \A cd \in Pairs : gaps'[cd] = "resolved" => gaps[cd] = "resolved"
    BY <2>1 DEF Set
  <2> QED BY <1>0, <2>2, <2>3 DEF ResolvedIsWhole
<1>2. CASE CloseGaps(p)
  <2>1. gaps' = Set({cd \in Pairs : Scanned(p, cd) /\ coverage[cd] = "full" /\ Open(cd)}, "resolved")
        /\ UNCHANGED claimed
    BY <1>2 DEF CloseGaps, Unrecorded
  <2>2. \A cd \in Pairs : gaps'[cd] = "resolved" => coverage[cd] = "full" \/ gaps[cd] = "resolved"
    BY <2>1 DEF Set
  <2> QED BY <1>0, <2>1, <2>2 DEF ResolvedIsWhole, GapInv
<1>3. CASE RecordOne(p)
  <2>1. PICK one \in task[p].left :
          /\ gaps' = IF one \in task[p].good
                     THEN Set(IF MayResolve(p, one) /\ gaps[one] # "none" THEN {one} ELSE {}, "resolved")
                     ELSE Set({one}, "tried")
          /\ claimed' = IF MayResolve(p, one) /\ one \in task[p].good \ task[p].priced
                        THEN claimed \cup {one} ELSE claimed
    BY <1>3, Zenon DEF RecordOne
  <2>2. claimed \subseteq claimed'
    BY <2>1
  <2>3. SUFFICES ASSUME NEW cd \in Pairs, gaps'[cd] = "resolved", gaps[cd] # "resolved"
                 PROVE  whole'[cd] \/ cd \in claimed'
    BY <1>0, <2>2 DEF ResolvedIsWhole
  <2>4. CASE one \in task[p].good
    <3>1. gaps'[cd] = IF cd \in IF MayResolve(p, one) /\ gaps[one] # "none" THEN {one} ELSE {}
                      THEN "resolved" ELSE gaps[cd]
      BY <2>1, <2>4 DEF Set
    <3>2. cd = one /\ MayResolve(p, one)
      BY <2>3, <3>1
    <3>3. CASE one \in task[p].priced
      BY <3>2, <3>3 DEF GapInv, TaskSound, MayResolve
    <3>4. CASE one \notin task[p].priced
      BY <2>1, <2>4, <3>2, <3>4
    <3> QED BY <3>3, <3>4
  <2>5. CASE one \notin task[p].good
    BY <2>1, <2>3, <2>5 DEF Set
  <2> QED BY <2>4, <2>5
<1>4. CASE ~(OpenGaps(p) \/ Suspend(p) \/ CloseGaps(p) \/ RecordOne(p))
  <2>1. UNCHANGED <<gaps, claimed>>
    BY <1>4 DEF StartAudit, Continue, Dies, RecordRaises, AuditAgain, ChooseDates, CoverDate, SummarizeDate,
                ListRetryable, LockOrSkip, BuildRequests, Fetch, FetchRaises, WriteFacts, NextBatch, Unlock,
                Unrecorded
  <2> QED BY <1>0, <2>1 DEF ResolvedIsWhole
<1> QED BY <1>1, <1>2, <1>3, <1>4

\* A step of one process keeps the tasks of the others sound.
LEMMA ProcessStep ==
    ASSUME GapInv, NEW p \in Workers, StartAudit(p) \/ Continue(p) \/ Dies(p) \/ RecordRaises(p)
    PROVE  GapInv'
<1>1. /\ whole' \in [Pairs -> BOOLEAN] /\ \A cd \in Pairs : whole[cd] => whole'[cd]
      /\ \E t : task' = [task EXCEPT ![p] = t] /\ TaskSound(t, whole')
  BY TaskStep
<1>2. DOMAIN task' = Workers /\ \A q \in Workers : TaskSound(task'[q], whole')
  <2>1. PICK t : task' = [task EXCEPT ![p] = t] /\ TaskSound(t, whole')
    BY <1>1
  <2>2. ASSUME NEW q \in Workers PROVE TaskSound(task[q], whole')
    BY <1>1, StoredMore DEF GapInv
  <2> QED BY <2>1, <2>2 DEF GapInv
<1>3. \A cd \in Pairs : coverage'[cd] = "full" => whole'[cd]
  BY <1>1, CoverageStep
<1>4. ResolvedIsWhole'
  BY <1>1, ResolvedStep
<1> QED BY <1>1, <1>2, <1>3, <1>4 DEF GapInv

LEMMA GapInvStep == GapInv /\ [GapNext]_gapVars => GapInv'
<1> SUFFICES ASSUME GapInv, [GapNext]_gapVars PROVE GapInv'
  OBVIOUS
<1>1. CASE \E p \in Workers : StartAudit(p) \/ Continue(p) \/ Dies(p) \/ RecordRaises(p)
  BY <1>1, ProcessStep
<1>2. CASE StartCapture
  <2> DEFINE r == [at |-> "lock", goal |-> "capture"]
  <2>1. /\ Does(Scheduler, r) /\ task[Scheduler].at \in Unwritten /\ Scheduler \in Workers
        /\ UNCHANGED <<whole, coverage, gaps, claimed>>
    BY <1>2 DEF StartCapture, Unrecorded, Step, Unwritten, Workers
  <2>2. "written" \notin DOMAIN r /\ "priced" \notin DOMAIN r /\ "work" \notin DOMAIN r
    OBVIOUS
  <2> HIDE DEF r
  <2>3. TaskSound(Changed(task[Scheduler], r), whole)
    BY <2>1, <2>2, EarlyStep DEF GapInv
  <2> QED BY <2>1, <2>3 DEF GapInv, Does, ResolvedIsWhole
<1>3. CASE DailyArrives
  BY <1>3 DEF DailyArrives, GapInv, ResolvedIsWhole
<1>4. CASE LiveDay
  <2>1. PICK new \in Pairs : whole' = [whole EXCEPT ![new] = TRUE]
    BY <1>4 DEF LiveDay
  <2>2. whole' \in [Pairs -> BOOLEAN] /\ \A cd \in Pairs : whole[cd] => whole'[cd]
    BY <2>1 DEF GapInv
  <2>3. UNCHANGED <<coverage, gaps, task, claimed>>
    BY <1>4 DEF LiveDay
  <2>4. \A p \in Workers : TaskSound(task[p], whole')
    BY <2>2, StoredMore DEF GapInv
  <2> QED BY <2>2, <2>3, <2>4 DEF GapInv, ResolvedIsWhole
<1>5. CASE UNCHANGED gapVars
  BY <1>5 DEF gapVars, GapInv, ResolvedIsWhole
<1> QED BY <1>1, <1>2, <1>3, <1>4, <1>5 DEF GapNext

\* ResolvedIsWhole: whoever resolves a gap, and however long ago it counted the
\* bars or asked for them, the bars are stored, except of an answer that had
\* every minute and not every price (CaptureGapRepository.resolve and the last
\* statement of audit_intraday).
THEOREM ResolvedStaysWhole == GapSpec => []ResolvedIsWhole
<1>1. GapInit => GapInv
  BY GapInvInit
<1>2. GapInv /\ [GapNext]_gapVars => GapInv'
  BY GapInvStep
<1>3. GapInv => ResolvedIsWhole
  BY DEF GapInv
<1> QED BY <1>1, <1>2, <1>3, PTL DEF GapSpec
=============================================================================
