----------------------------- MODULE CaptureRuns -----------------------------
(***************************************************************************)
(* The table capability_capture_runs of one capability, as               *)
(* CaptureRunRepository (store/capture.py) reads and writes it.  A table is *)
(* a sequence of rows in the order of started_at; the id of a row is its    *)
(* position.  Every operator is one SQL statement, hence atomic; the        *)
(* methods that issue several statements are split into steps by the        *)
(* module that calls them.                                                  *)
(*                                                                         *)
(* Of detail_json a row keeps what is read back: request_next_index ("next",*)
(* 0 when the key is absent) and repair_fingerprint ("fp").  "list" is the  *)
(* request list that detail was written for, of which the code stores the   *)
(* length only (request_total); it is there for the properties.             *)
(***************************************************************************)
EXTENDS Naturals, Sequences

CONSTANTS
    Slots,         \* planned times the schedule yields
    NowTimes,      \* planned times taken from the clock, each used once
    Fingerprints,  \* fingerprints of the repairs requested
    NoFp,          \* "not a repair"
    Requests       \* requests of scheduled and manual captures

ASSUME RunsAssumption ==
    /\ NoFp \notin Fingerprints
    /\ Slots \subseteq Nat /\ Slots # {}
    /\ Slots \cap NowTimes = {}

Times == Slots \cup NowTimes

\* What a run may ask for: a repair has one request, named by its fingerprint.
Asks == Requests \cup Fingerprints

Status == {"running", "success", "partial", "failed", "skipped"}

Row == [status: Status, planned: Times, next: Nat, fp: Fingerprints \cup {NoFp}, list: Seq(Asks)]

\* select ... where capability_id and planned_time order by started_at desc
\* limit 1: the set holds at most one id.
IdsFor(rs, t) == {i \in DOMAIN rs : rs[i].planned = t}
LatestFor(rs, t) == {i \in IdsFor(rs, t) : \A j \in IdsFor(rs, t) : j <= i}

\* Mutant: a partial run is taken for a finished one.
DueIgnoringPartial(rs, t) ==
    \A i \in LatestFor(rs, t) : rs[i].status \in {"failed", "skipped"}

\* is_capture_due: no row for the planned time, or the latest may be retried.
Due(rs, t) ==
    \A i \in LatestFor(rs, t) : rs[i].status \in {"partial", "failed", "skipped"}

\* Mutant: only the last row of the table is looked at.
RepairDoneLast(rs, f) == Len(rs) > 0 /\ rs[Len(rs)].status = "success" /\ rs[Len(rs)].fp = f

\* latest_success_for_repair_fingerprint finds a row.
RepairDone(rs, f) == \E i \in DOMAIN rs : rs[i].status = "success" /\ rs[i].fp = f

\* Mutant: started_at < cutoff.
RunningStrictlyBefore(rs, c) == {i \in DOMAIN rs : i < c /\ rs[i].status = "running"}

\* list_running_started_before(cutoff).
RunningBefore(rs, c) == {i \in DOMAIN rs : i <= c /\ rs[i].status = "running"}

\* The two guarded updates to "failed": the one that opens create(running) and
\* the one of fail_stale_running.
FailRunning(rs, ids) ==
    [i \in DOMAIN rs |->
        IF i \in ids /\ rs[i].status = "running"
        THEN [rs[i] EXCEPT !.status = "failed"]
        ELSE rs[i]]

Superseded(rs) == FailRunning(rs, DOMAIN rs)

\* finish: by id alone, whatever the status of the row.
Finished(rs, id, status, next, fp, list) ==
    [rs EXCEPT ![id] = [@ EXCEPT !.status = status, !.next = next, !.fp = fp, !.list = list]]

\* update_progress: only while the row is running.
Progressed(rs, id, next, fp, list) ==
    IF rs[id].status = "running" THEN Finished(rs, id, "running", next, fp, list) ELSE rs
=============================================================================
