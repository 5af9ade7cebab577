----------------------------- MODULE PageCache -----------------------------
(***************************************************************************)
(* The bounded page cache in front of one provider's audited pages, twice  *)
(* in the code: p0_fundamentals (BoundedP0Cache and query) and             *)
(* migration_contracts (BoundedMigrationCache and query), which differ in  *)
(* their limits only.                                                      *)
(*                                                                         *)
(* The cache is an OrderedDict of entries, from the least to the most      *)
(* recently used, with a count of the bytes it holds in all and for each   *)
(* capability, under one lock.  A query reads it, loads the page on a miss *)
(* with no lock held, validates it and puts it, which evicts entry by      *)
(* entry until the page fits.  Threads run queries side by side, also of   *)
(* the same request.  A page is its size and whether it validates.         *)
(***************************************************************************)
EXTENDS Integers, FiniteSets

CONSTANTS Callers,        \* threads running a query
          Requests,       \* requests, told apart by _cache_key
          Capabilities,
          CapabilityOf,   \* the capability of each request
          CapLimit,       \* ..._CACHE_BYTES_BY_CAPABILITY
          TotalLimit,     \* ..._CACHE_TOTAL_BYTES
          Ttl,            \* ..._CACHE_TTL_SECONDS_BY_CAPABILITY
          PageSizes,      \* sizes of the pages providers return
          MaxNow,         \* bound on the clock
          NoOne            \* no caller, no request

ASSUME LimitsAssumption ==
  /\ CapabilityOf \in [Requests -> Capabilities]
  /\ CapLimit \in [Capabilities -> Nat] /\ Ttl \in [Capabilities -> Nat]
  /\ TotalLimit \in Nat /\ MaxNow \in Nat
  /\ \A c \in Capabilities : CapLimit[c] <= TotalLimit
  /\ PageSizes \subseteq Nat
  /\ NoOne \notin Callers \cup Requests

VARIABLES held,      \* the keys of _entries
          older,     \* pairs of them: the first is before the second in _entries
          entry,     \* their entries, of no meaning for a key that is not held
          total,     \* _total_bytes
          capBytes,  \* _capability_bytes
          lock,      \* who holds _lock
          now, call

cache == <<held, older, entry, total, capBytes>>
pageVars  == <<held, older, entry, total, capBytes, lock, now, call>>

Phases   == {"idle", "get", "load", "put", "lock", "evict", "done"}
Outcomes == {"none", "page", "provider_error", "contract_error", "cache_error", "database_error"}
Pages    == [size : Nat, good : BOOLEAN, expires : Nat]
Blank    == [size |-> 0, good |-> TRUE, expires |-> 0]
Idle     == [phase |-> "idle", outcome |-> "none", request |-> NoOne, page |-> Blank]

PageTypeOK ==
  /\ held \subseteq Requests /\ older \subseteq held \X held
  /\ entry \in [Requests -> Pages]
  /\ total \in Nat /\ capBytes \in [Capabilities -> Nat]
  /\ lock \in Callers \cup {NoOne}
  /\ now \in 0..MaxNow
  /\ call \in [Callers -> [phase : Phases, outcome : Outcomes,
                           request : Requests \cup {NoOne}, page : Pages]]
  /\ \A p \in Callers : call[p].phase = "idle" \/ call[p].request \in Requests

PageInit ==
  /\ held = {} /\ older = {} /\ entry = [k \in Requests |-> Blank]
  /\ total = 0 /\ capBytes = [c \in Capabilities |-> 0]
  /\ lock = NoOne /\ now = 0
  /\ call = [p \in Callers |-> Idle]

----------------------------------------------------------------------------
(* The entries and their order                                              *)

HeldOf(c) == {k \in held : CapabilityOf[k] = c}

\* The least recently used of S.
Oldest(S) == {k \in S : \A j \in S : <<j, k>> \notin older}

Without(order, k) == {e \in order : e[1] # k /\ e[2] # k}

MovedToEnd(k) == Without(older, k) \cup ((held \ {k}) \X {k})

\* Mutant: what goes is subtracted by the caller and again here.
RemoveEntryTwice(k) ==
  /\ held'     = held \ {k}
  /\ older'    = Without(older, k)
  /\ total'    = total - 2 * entry[k].size
  /\ capBytes' = [capBytes EXCEPT ![CapabilityOf[k]] = @ - 2 * entry[k].size]
  /\ UNCHANGED entry

RemoveEntry(k) ==
  /\ held'     = held \ {k}
  /\ older'    = Without(older, k)
  /\ total'    = total - entry[k].size
  /\ capBytes' = [capBytes EXCEPT ![CapabilityOf[k]] = @ - entry[k].size]
  /\ UNCHANGED entry

----------------------------------------------------------------------------
(* query: the cached page, or the provider's                                *)

Ends(p, outcome) ==
  call' = [call EXCEPT ![p].phase = "done", ![p].outcome = outcome, ![p].page = Blank]

Ask(p) ==
  /\ call[p].phase \in {"idle", "done"}
  /\ \E r \in Requests :
       call' = [call EXCEPT ![p] = [Idle EXCEPT !.phase = "get", !.request = r]]
  /\ UNCHANGED <<cache, lock, now>>

\* get: a page that is there and has not expired becomes the last used; it
\* is validated again, outside the lock.
GetHit(p) ==
  LET k == call[p].request
  IN  /\ call[p].phase = "get" /\ lock = NoOne
      /\ k \in held /\ entry[k].expires > now
      /\ older' = MovedToEnd(k)
      /\ Ends(p, IF entry[k].good THEN "page" ELSE "cache_error")
      /\ UNCHANGED <<held, entry, total, capBytes, lock, now>>

GetExpired(p) ==
  LET k == call[p].request
  IN  /\ call[p].phase = "get" /\ lock = NoOne
      /\ k \in held /\ entry[k].expires <= now
      /\ RemoveEntry(k)
      /\ call' = [call EXCEPT ![p].phase = "load"]
      /\ UNCHANGED <<lock, now>>

GetMiss(p) ==
  /\ call[p].phase = "get" /\ lock = NoOne
  /\ call[p].request \notin held
  /\ call' = [call EXCEPT ![p].phase = "load"]
  /\ UNCHANGED <<cache, lock, now>>

\* _load_live_page fails: no provider, no instance, no answer, no page.
LoadFails(p) ==
  /\ call[p].phase = "load"
  /\ Ends(p, "provider_error")
  /\ UNCHANGED <<cache, lock, now>>

\* Mutant: a page is put before it is validated.
LoadUnchecked(p) ==
  /\ call[p].phase = "load"
  /\ \E size \in PageSizes, good \in BOOLEAN :
       call' = [call EXCEPT ![p].phase = "put",
                     ![p].page = [Blank EXCEPT !.size = size, !.good = good]]
  /\ UNCHANGED <<cache, lock, now>>

\* The page is validated against the request, then put.
Load(p) ==
  /\ call[p].phase = "load"
  /\ \E size \in PageSizes, good \in BOOLEAN :
       IF good
       THEN call' = [call EXCEPT ![p].phase = "put",
                     ![p].page = [Blank EXCEPT !.size = size, !.good = good]]
       ELSE Ends(p, "contract_error")
  /\ UNCHANGED <<cache, lock, now>>

----------------------------------------------------------------------------
(* put                                                                      *)

Limit(p) == CapLimit[CapabilityOf[call[p].request]]

\* The size is checked and the deadline fixed before the lock is taken.
PutCheck(p) ==
  /\ call[p].phase = "put"
  /\ IF call[p].page.size > Limit(p)
     THEN Ends(p, "database_error")
     ELSE call' = [call EXCEPT ![p].phase = "lock",
                     ![p].page.expires = now + Ttl[CapabilityOf[call[p].request]]]
  /\ UNCHANGED <<cache, lock, now>>

\* Mutant: an older page of the request is overwritten, and still counted.
PutReplaceKeeps(p) ==
  /\ call[p].phase = "lock" /\ lock = NoOne
  /\ lock' = p
  /\ call' = [call EXCEPT ![p].phase = "evict"]
  /\ UNCHANGED <<cache, now>>

\* An older page of the request makes room first.
PutReplace(p) ==
  LET k == call[p].request
  IN  /\ call[p].phase = "lock" /\ lock = NoOne
      /\ lock' = p
      /\ IF k \in held THEN RemoveEntry(k) ELSE UNCHANGED cache
      /\ call' = [call EXCEPT ![p].phase = "evict"]
      /\ UNCHANGED now

\* One more entry goes, the least recently used of S; with none left, put
\* fails and the lock is released.
Evict(p, S) ==
  IF Oldest(S) = {}
  THEN Ends(p, "database_error") /\ lock' = NoOne /\ UNCHANGED cache
  ELSE (\E k \in Oldest(S) : RemoveEntry(k)) /\ UNCHANGED <<lock, call>>

Fits(p) == capBytes[CapabilityOf[call[p].request]] + call[p].page.size <= Limit(p)

EvictCapability(p) ==
  /\ call[p].phase = "evict" /\ lock = p
  /\ ~Fits(p)
  /\ Evict(p, HeldOf(CapabilityOf[call[p].request]))
  /\ UNCHANGED now

EvictTotal(p) ==
  /\ call[p].phase = "evict" /\ lock = p
  /\ Fits(p) /\ total + call[p].page.size > TotalLimit
  /\ Evict(p, held)
  /\ UNCHANGED now

InsertPage(p) ==
  LET k == call[p].request
      c == CapabilityOf[k]
  IN  /\ call[p].phase = "evict" /\ lock = p
      /\ Fits(p) /\ total + call[p].page.size <= TotalLimit
      /\ held' = held \cup {k} /\ older' = MovedToEnd(k)
      /\ entry' = [entry EXCEPT ![k] = call[p].page]
      /\ total' = total + call[p].page.size
      /\ capBytes' = [capBytes EXCEPT ![c] = @ + call[p].page.size]
      /\ lock' = NoOne
      /\ Ends(p, "page")
      /\ UNCHANGED now

ClearCache ==
  /\ lock = NoOne
  /\ held' = {} /\ older' = {}
  /\ total' = 0 /\ capBytes' = [c \in Capabilities |-> 0]
  /\ UNCHANGED <<entry, lock, now, call>>

ClockTick ==
  /\ now < MaxNow
  /\ now' = now + 1
  /\ UNCHANGED <<cache, lock, call>>

PageNext ==
  \/ \E p \in Callers : \/ Ask(p) \/ GetHit(p) \/ GetExpired(p) \/ GetMiss(p)
                        \/ LoadFails(p) \/ Load(p) \/ PutCheck(p) \/ PutReplace(p)
                        \/ EvictCapability(p) \/ EvictTotal(p) \/ InsertPage(p)
  \/ ClearCache \/ ClockTick

PageSpec == PageInit /\ [][PageNext]_pageVars

----------------------------------------------------------------------------
(* Properties                                                               *)

\* The bytes of the entries S, one by one.
Bytes(S, e) == UNION {{k} \X (1..e[k].size) : k \in S}

\* Both counts are the bytes of what is held, and neither passes its limit,
\* at every step of every thread, not even while a put makes room.
BytesBounded ==
  /\ total = Cardinality(Bytes(held, entry)) /\ total <= TotalLimit
  /\ \A c \in Capabilities : /\ capBytes[c] = Cardinality(Bytes(HeldOf(c), entry))
                             /\ capBytes[c] <= CapLimit[c]

\* A query only fails for what it met: a cached page never fails the check
\* it passed when it was loaded, and a put that has begun to make room always
\* finds an entry to evict, so that only a page larger than its capability's
\* limit is refused.
HonestErrors ==
  /\ \A k \in held : entry[k].good
  /\ \A p \in Callers :
       /\ call[p].outcome # "cache_error"
       /\ call[p].phase = "evict" =>
            /\ ~Fits(p) => Oldest(HeldOf(CapabilityOf[call[p].request])) # {}
            /\ total + call[p].page.size > TotalLimit => Oldest(held) # {}
============================================================================
