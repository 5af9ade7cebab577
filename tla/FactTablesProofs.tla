--------------------------- MODULE FactTablesProofs ---------------------------
(***************************************************************************)
(* Theorems about the tables of facts and references: the programs of      *)
(* FactWriters, the current minute of LiveBars, ref.stock (StockReference) *)
(* and the members of a concept (ConceptFacts), for any sessions, keys and *)
(* values.                                                                 *)
(*                                                                         *)
(* FactWriters: FactInv says of every writer that it is in a program of    *)
(* its family; RefInv that a writer of daily rows which is past its        *)
(* statement on the references has put all keys of its answer there;       *)
(* DayInv what the rows of a day are between the delete and the insert.    *)
(* LiveBars: LiveInv says what a worker knows at each stage, LockInv that  *)
(* a locked row stays what it was locked as; FinalInv and                  *)
(* FactFollowsSelection rest on both.                                      *)
(* StockReference: a writer other than the reconciliation leaves every     *)
(* authoritative row the columns that are hashed (OtherWriters), because   *)
(* an authoritative row always has a label (ReferenceInv); a               *)
(* reconciliation selected every row that is authoritative (AuditInv).     *)
(* ConceptFacts: a change at a date reaches up to the next snapshot        *)
(* (Reaches); a date it does not reach keeps its members (SnapshotKept),   *)
(* and what another session owed is still owed by one of the two           *)
(* (ReachesKept).                                                          *)
(***************************************************************************)
EXTENDS LiveBars, FactWriters, StockReference, ConceptFacts, FoldLemmas

-----------------------------------------------------------------------------
(* FactWriters: the programs and what their statements do.                 *)

Names == {"none", "daily", "factors", "snapshot", "catalog", "history", "any", "bars", "live"}
Hows  == {"insert", "fill", "merge", "known", "replace", "clear", "look", "swap", "complete", "count"}
Statement == [on : Tables, how : Hows, carries : {"answer", "blank", "code"}]

Programs == Seq(Statement) \ {<< >>}

LEMMA ProgramsTyped ==
    ASSUME NEW f \in Families, NEW n \in DOMAIN Writers(f)
    PROVE  Writers(f)[n] \in Programs /\ n \in Names \ {"none"}
<1>0. \A t \in Tables, h \in Hows, c \in {"answer", "blank", "code"} : Stmt(t, h, c) \in Statement
  BY DEF Stmt, Statement
<1>1. \A a, b, c \in Statement : {<<a>>, <<a, b>>, <<a, b, c>>} \subseteq Programs
  BY DEF Programs
<1>2. CASE f = "adjustment"
  <2>1. n \in {"daily", "factors"}
    BY <1>2 DEF Writers
  <2>2. Writers("adjustment")["daily"] \in Programs
    BY <1>0, <1>1 DEF Writers, Tables, Hows
  <2>3. Writers("adjustment")["factors"] \in Programs
    BY <1>0, <1>1 DEF Writers, Tables, Hows
  <2> QED BY <1>2, <2>1, <2>2, <2>3 DEF Names
<1>3. CASE f = "flow"
  <2>1. n \in {"snapshot"}
    BY <1>3 DEF Writers
  <2>2. Writers("flow")["snapshot"] \in Programs
    BY <1>0, <1>1 DEF Writers, Tables, Hows
  <2> QED BY <1>3, <2>1, <2>2 DEF Names
<1>4. CASE f = "etf"
  <2>1. n \in {"catalog", "daily"}
    BY <1>4 DEF Writers
  <2>2. Writers("etf")["catalog"] \in Programs
    BY <1>0, <1>1 DEF Writers, Tables, Hows
  <2>3. Writers("etf")["daily"] \in Programs
    BY <1>0, <1>1 DEF Writers, Tables, Hows
  <2> QED BY <1>4, <2>1, <2>2, <2>3 DEF Names
<1>5. CASE f = "board"
  <2>1. n \in {"catalog", "daily"}
    BY <1>5 DEF Writers
  <2>2. Writers("board")["catalog"] \in Programs
    BY <1>0, <1>1 DEF Writers, Tables, Hows
  <2>3. Writers("board")["daily"] \in Programs
    BY <1>0, <1>1 DEF Writers, Tables, Hows
  <2> QED BY <1>5, <2>1, <2>2, <2>3 DEF Names
<1>6. CASE f = "members"
  <2>1. n \in {"history"}
    BY <1>6 DEF Writers
  <2>2. Writers("members")["history"] \in Programs
    BY <1>0, <1>1 DEF Writers, Tables, Hows
  <2> QED BY <1>6, <2>1, <2>2 DEF Names
<1>7. CASE f = "index"
  <2>1. n \in {"catalog", "daily"}
    BY <1>7 DEF Writers
  <2>2. Writers("index")["catalog"] \in Programs
    BY <1>0, <1>1 DEF Writers, Tables, Hows
  <2>3. Writers("index")["daily"] \in Programs
    BY <1>0, <1>1 DEF Writers, Tables, Hows
  <2> QED BY <1>7, <2>1, <2>2, <2>3 DEF Names
<1>8. CASE f = "catalog"
  <2>1. n \in {"any"}
    BY <1>8 DEF Writers
  <2>2. Writers("catalog")["any"] \in Programs
    BY <1>0, <1>1 DEF Writers, Tables, Hows
  <2> QED BY <1>8, <2>1, <2>2 DEF Names
<1>9. CASE f = "intraday"
  <2>1. n \in {"bars", "live"}
    BY <1>9 DEF Writers
  <2>2. Writers("intraday")["bars"] \in Programs
    BY <1>0, <1>1 DEF Writers, Tables, Hows
  <2>3. Writers("intraday")["live"] \in Programs
    BY <1>0, <1>1 DEF Writers, Tables, Hows
  <2> QED BY <1>9, <2>1, <2>2, <2>3 DEF Names
<1> QED BY <1>2, <1>3, <1>4, <1>5, <1>6, <1>7, <1>8, <1>9 DEF Families

FactRecord == [writer : Names, at : Nat, answer : [Keys -> Cells], seen : [Keys -> Cells]]

FactInv ==
    /\ FactTypeOK
    /\ fact \in [FactSessions -> FactRecord]
    /\ \A w \in FactSessions : Idle(w) \/ fact[w].writer \in DOMAIN Writers(family)

LEMMA CurrentStatement ==
    ASSUME FactInv, NEW w \in FactSessions, ~Idle(w)
    PROVE  /\ Program(w) \in Seq(Statement) /\ Current(w) \in Statement
           /\ fact[w].at \in 1..Len(Program(w))
           /\ fact[w].answer \in [Keys -> Cells] /\ fact[w].seen \in [Keys -> Cells]
<1>1. fact[w] \in FactRecord /\ fact[w].writer \in DOMAIN Writers(family) /\ family \in Families
  BY DEF FactInv, FactTypeOK
<1>2. Program(w) \in Seq(Statement)
  BY <1>1, ProgramsTyped DEF Program, Programs
<1>3. fact[w].at \in DOMAIN Program(w)
  BY DEF FactInv, FactTypeOK
<1> QED BY <1>1, <1>2, <1>3 DEF Current, FactRecord

LEMMA EffectType ==
    ASSUME FactInv, NEW s \in Statement, NEW answer \in [Keys -> Cells], NEW seen \in [Keys -> Cells]
    PROVE  Effect(s, answer, seen) \in [Keys -> Cells]
<1>1. table[s.on] \in [Keys -> Cells] /\ NoFact \in Cells /\ NullText \in Cells
  BY DEF FactInv, FactTypeOK, Statement, Cells
<1>2. CASE s.how = "clear"
  BY <1>1, <1>2 DEF Effect, Cleared, NoRows
<1>3. CASE s.how = "swap"
  BY <1>1, <1>3 DEF Effect
<1>4. CASE s.how = "count"
  <2>1. IsFiniteSet(Keys) /\ KeysOf(table["bars"]) \subseteq Keys
    BY FactAssumption DEF FactAssumption, KeysOf
  <2>2. /\ Cardinality(KeysOf(table["bars"])) \in Nat /\ Cardinality(Keys) \in Nat
        /\ Cardinality(KeysOf(table["bars"])) <= Cardinality(Keys)
    BY <2>1, FS_Subset, FS_CardinalityType
  <2>3. Cardinality(KeysOf(table["bars"])) \in Cells
    BY <2>2 DEF Cells
  <2> QED BY <1>4, <2>3 DEF Effect
<1>5. CASE s.how \notin {"clear", "swap", "count"}
  <2>1. \A k \in Keys : Carried(s, k, answer) \in Cells
    BY <1>1 DEF Carried
  <2>2. \A k \in Keys : Conflict(s.how, table[s.on][k], Carried(s, k, answer)) \in Cells
    BY <1>1, <2>1 DEF Conflict
  <2> QED BY <1>5, <2>2 DEF Effect, Conflicted
<1> QED BY <1>2, <1>3, <1>4, <1>5

LEMMA FactTypeStep == FactInv /\ [FactNext]_factVars => FactInv'
<1> SUFFICES ASSUME FactInv, [FactNext]_factVars PROVE FactInv'
  OBVIOUS
<1>1. ASSUME NEW w \in FactSessions, StartWriter(w) PROVE FactInv'
  <2>1. PICK name \in DOMAIN Writers(family), answer \in AnswerRows :
            fact' = [fact EXCEPT ![w] = [Unused EXCEPT !.writer = name, !.answer = answer]]
    BY <1>1 DEF StartWriter
  <2> DEFINE r == [Unused EXCEPT !.writer = name, !.answer = answer]
  <2>2. Writers(family)[name] \in Seq(Statement) /\ name \in Names \ {"none"}
    BY ProgramsTyped DEF FactInv, FactTypeOK, Programs
  <2>3. answer \in [Keys -> Cells] /\ NoRows \in [Keys -> Cells]
    BY DEF AnswerRows, Cells, NoRows
  <2>4. r \in FactRecord /\ r.writer = name /\ r.at = 1
    BY <2>2, <2>3 DEF Unused, FactRecord
  <2>5. 1 \in DOMAIN Writers(family)[name]
    <3>1. Writers(family)[name] # << >>
      BY ProgramsTyped DEF FactInv, FactTypeOK, Programs
    <3> QED BY <2>2, <3>1
  <2>6. UNCHANGED <<family, table>>
    BY <1>1 DEF StartWriter
  <2> HIDE DEF r
  <2>7. fact' = [fact EXCEPT ![w] = r]
    BY <2>1 DEF r
  <2>8. fact' \in [FactSessions -> FactRecord]
    BY <2>4, <2>7 DEF FactInv
  <2>9. \A v \in FactSessions : Idle(v)' \/ (fact'[v].at \in DOMAIN Program(v)' /\ fact'[v].writer \in DOMAIN Writers(family'))
    <3> SUFFICES ASSUME NEW v \in FactSessions, ~Idle(v)'
                 PROVE  fact'[v].at \in DOMAIN Program(v)' /\ fact'[v].writer \in DOMAIN Writers(family')
      OBVIOUS
    <3>1. CASE v = w
      BY <2>4, <2>5, <2>6, <2>7, <3>1 DEF FactInv, Program
    <3>2. CASE v # w
      <4>1. fact'[v] = fact[v]
        BY <2>7, <3>2 DEF FactInv
      <4>2. ~Idle(v)
        BY <4>1 DEF Idle
      <4> QED BY <2>6, <4>1, <4>2 DEF FactInv, FactTypeOK, Program
    <3> QED BY <3>1, <3>2
  <2> QED BY <2>6, <2>8, <2>9 DEF FactInv, FactTypeOK
<1>2. ASSUME NEW w \in FactSessions, Execute(w) PROVE FactInv'
  <2>0. ~Idle(w) /\ family' = family
    BY <1>2 DEF Execute
  <2>1. /\ Program(w) \in Seq(Statement) /\ Current(w) \in Statement
        /\ fact[w].at \in 1..Len(Program(w))
        /\ fact[w].answer \in [Keys -> Cells] /\ fact[w].seen \in [Keys -> Cells]
    BY <2>0, CurrentStatement
  <2>2. Effect(Current(w), fact[w].answer, fact[w].seen) \in [Keys -> Cells]
    BY <2>1, EffectType
  <2>3. table' \in [Tables -> [Keys -> Cells]]
    BY <1>2, <2>2 DEF Execute, FactInv, FactTypeOK
  <2>4. Continue(w) \in FactRecord
    <3>1. Unused \in FactRecord
      BY DEF Unused, FactRecord, Names, NoRows, Cells
    <3>2. table[Current(w).on] \in [Keys -> Cells]
      BY <2>1 DEF FactInv, FactTypeOK, Statement
    <3>3. fact[w] \in FactRecord
      BY DEF FactInv
    <3>4. ASSUME NEW r \in FactRecord, NEW seen \in [Keys -> Cells], NEW n \in Nat
          PROVE  [r EXCEPT !.at = n, !.seen = seen] \in FactRecord
      BY DEF FactRecord
    <3>5. fact[w].seen \in [Keys -> Cells]
      BY <3>3 DEF FactRecord
    <3> DEFINE looked == IF Current(w).how = "look" THEN table[Current(w).on] ELSE fact[w].seen
               next   == fact[w].at + 1
    <3>6. looked \in [Keys -> Cells] /\ next \in Nat
      BY <3>2, <3>3, <3>5 DEF FactRecord
    <3>7. Continue(w) = Unused \/ Continue(w) = [fact[w] EXCEPT !.at = next, !.seen = looked]
      BY DEF Continue
    <3> HIDE DEF looked, next
    <3> QED BY <3>1, <3>3, <3>4, <3>6, <3>7
  <2>5. fact' = [fact EXCEPT ![w] = Continue(w)]
    BY <1>2 DEF Execute
  <2>6. fact' \in [FactSessions -> FactRecord]
    BY <2>4, <2>5 DEF FactInv
  <2>7. \A v \in FactSessions : Idle(v)' \/ (fact'[v].at \in DOMAIN Program(v)' /\ fact'[v].writer \in DOMAIN Writers(family'))
    <3> SUFFICES ASSUME NEW v \in FactSessions, ~Idle(v)'
                 PROVE  fact'[v].at \in DOMAIN Program(v)' /\ fact'[v].writer \in DOMAIN Writers(family')
      OBVIOUS
    <3>1. CASE v = w
      <4>1. fact'[w] = Continue(w) /\ fact'[w].writer # "none"
        BY <2>5, <3>1 DEF FactInv, Idle
      <4>2. Continue(w) # Unused
        BY <4>1 DEF Unused
      <4>3. fact'[w].writer = fact[w].writer /\ fact'[w].at = fact[w].at + 1 /\ ~LastOne(w)
        BY <4>1, <4>2 DEF Continue, FactInv, FactRecord
      <4>4. fact'[w].at \in 1..Len(Program(w))
        BY <2>1, <4>3 DEF LastOne
      <4>5. Program(w)' = Program(w)
        BY <2>0, <4>3 DEF Program
      <4> QED BY <2>0, <2>1, <3>1, <4>3, <4>4, <4>5 DEF FactInv
    <3>2. CASE v # w
      <4>1. fact'[v] = fact[v]
        BY <2>5, <3>2 DEF FactInv
      <4>2. ~Idle(v)
        BY <4>1 DEF Idle
      <4> QED BY <2>0, <4>1, <4>2 DEF FactInv, FactTypeOK, Program
    <3> QED BY <3>1, <3>2
  <2> QED BY <2>0, <2>3, <2>6, <2>7 DEF FactInv, FactTypeOK
<1>3. ASSUME NEW w \in FactSessions, StatementFails(w) PROVE FactInv'
  <2>1. fact' = [fact EXCEPT ![w] = Unused] /\ UNCHANGED <<family, table>>
    BY <1>3 DEF StatementFails, StoppedAt
  <2>2. Unused \in FactRecord /\ Unused.writer = "none"
    BY DEF Unused, FactRecord, Names, NoRows, Cells
  <2>3. fact' \in [FactSessions -> FactRecord]
    BY <2>1, <2>2 DEF FactInv
  <2>4. \A v \in FactSessions : Idle(v)' \/ fact'[v] = fact[v]
    BY <2>1, <2>2 DEF FactInv, Idle
  <2>5. \A v \in FactSessions : Idle(v)' \/ (~Idle(v) /\ Program(v)' = Program(v) /\ fact'[v] = fact[v])
    BY <2>1, <2>4 DEF Idle, Program
  <2> QED BY <2>1, <2>3, <2>5 DEF FactInv, FactTypeOK
<1>4. CASE UNCHANGED factVars
  BY <1>4 DEF factVars, FactInv, FactTypeOK, Idle, Program
<1> QED BY <1>1, <1>2, <1>3, <1>4 DEF FactNext

LEMMA FactTypeInit == FactInit => FactInv
<1> SUFFICES ASSUME FactInit PROVE FactInv
  OBVIOUS
<1>1. NoRows \in [Keys -> Cells]
  BY DEF NoRows, Cells
<1>2. Unused \in FactRecord /\ Unused.writer = "none"
  BY <1>1 DEF Unused, FactRecord, Names
<1>3. fact \in [FactSessions -> FactRecord] /\ \A w \in FactSessions : Idle(w)
  BY <1>2 DEF FactInit, Idle
<1>4. table \in [Tables -> [Keys -> Cells]]
  BY <1>1 DEF FactInit
<1> QED BY <1>3, <1>4 DEF FactInit, FactInv, FactTypeOK

\* The tables are well typed, and a session is always at a statement of the
\* writer it runs (fact_ref_writes.py).
THEOREM FactTypeCorrect == FactSpec => []FactTypeOK
<1>1. FactInv => FactTypeOK
  BY DEF FactInv
<1> QED BY <1>1, FactTypeInit, FactTypeStep, PTL DEF FactSpec

\* An upsert that takes every new row adds the keys of the answer and loses none.
LEMMA UpsertKeys ==
    ASSUME FactInv, NEW s \in Statement, s.how \in {"known", "replace"}, NEW answer, NEW seen
    PROVE  KeysOf(Effect(s, answer, seen)) = KeysOf(table[s.on]) \cup KeysOf(answer)
<1>1. Effect(s, answer, seen) = Conflicted(s, answer)
  BY DEF Effect
<1>2. ASSUME NEW k \in Keys
      PROVE  Conflicted(s, answer)[k] # NoFact <=> table[s.on][k] # NoFact \/ answer[k] # NoFact
  <2>1. Carried(s, k, answer) = NoFact <=> answer[k] = NoFact
    BY FactAssumption DEF FactAssumption, Carried
  <2>2. Taken(s.how, NoFact, Carried(s, k, answer))
    BY DEF Taken
  <2> QED BY <2>1, <2>2 DEF Conflicted, Conflict
<1> QED BY <1>1, <1>2 DEF KeysOf

LEMMA ClearKeys ==
    ASSUME NEW s, s.how = "clear", NEW answer, NEW seen
    PROVE  KeysOf(Effect(s, answer, seen)) = {}
BY DEF Effect, Cleared, NoRows, KeysOf

LEMMA SwapKeys ==
    ASSUME NEW s, s.how = "swap", NEW answer, table[s.on] \in [Keys -> Cells]
    PROVE  KeysOf(Effect(s, answer, table[s.on])) = KeysOf(answer)
BY DEF Effect, KeysOf

\* The programs of the families that the two properties are about.
LEMMA EtfPrograms ==
    ASSUME FactInv, family = "etf", NEW w \in FactSessions, ~Idle(w)
    PROVE  \/ /\ fact[w].writer = "catalog" /\ fact[w].at = 1 /\ LastOne(w)
              /\ Current(w) = Stmt("reference", "known", "answer")
           \/ /\ fact[w].writer = "daily" /\ fact[w].at = 1 /\ ~LastOne(w)
              /\ Current(w) = Stmt("reference", "known", "blank")
           \/ /\ fact[w].writer = "daily" /\ fact[w].at = 2 /\ LastOne(w)
              /\ Current(w) = Stmt("rows", "replace", "answer")
<1>1. fact[w].writer \in DOMAIN Writers("etf") /\ fact[w].at \in DOMAIN Program(w)
  BY DEF FactInv, FactTypeOK
<1>2. fact[w].writer \in {"catalog", "daily"}
  BY <1>1 DEF Writers
<1>3. CASE fact[w].writer = "catalog"
  <2>1. Program(w) = << Stmt("reference", "known", "answer") >>
    BY <1>3 DEF Program, Writers
  <2> QED BY <1>1, <1>3, <2>1 DEF Current, LastOne
<1>4. CASE fact[w].writer = "daily"
  <2>1. Program(w) = << Stmt("reference", "known", "blank"), Stmt("rows", "replace", "answer") >>
    BY <1>4 DEF Program, Writers
  <2> QED BY <1>1, <1>4, <2>1 DEF Current, LastOne
<1> QED BY <1>2, <1>3, <1>4

LEMMA BoardPrograms ==
    ASSUME FactInv, family = "board", NEW w \in FactSessions, ~Idle(w)
    PROVE  \/ /\ fact[w].writer = "catalog" /\ fact[w].at = 1 /\ LastOne(w)
              /\ Current(w) = Stmt("reference", "replace", "answer")
           \/ /\ fact[w].writer = "daily" /\ fact[w].at = 1 /\ ~LastOne(w)
              /\ Current(w) = Stmt("rows", "clear", "answer")
           \/ /\ fact[w].writer = "daily" /\ fact[w].at = 2 /\ ~LastOne(w)
              /\ Current(w) = Stmt("reference", "replace", "answer")
           \/ /\ fact[w].writer = "daily" /\ fact[w].at = 3 /\ LastOne(w)
              /\ Current(w) = Stmt("rows", "replace", "answer")
<1>1. fact[w].writer \in DOMAIN Writers("board") /\ fact[w].at \in DOMAIN Program(w)
  BY DEF FactInv, FactTypeOK
<1>2. fact[w].writer \in {"catalog", "daily"}
  BY <1>1 DEF Writers
<1>3. CASE fact[w].writer = "catalog"
  <2>1. Program(w) = << Stmt("reference", "replace", "answer") >>
    BY <1>3 DEF Program, Writers
  <2> QED BY <1>1, <1>3, <2>1 DEF Current, LastOne
<1>4. CASE fact[w].writer = "daily"
  <2>1. Program(w) = << Stmt("rows", "clear", "answer"), Stmt("reference", "replace", "answer"),
                        Stmt("rows", "replace", "answer") >>
    BY <1>4 DEF Program, Writers
  <2> QED BY <1>1, <1>4, <2>1 DEF Current, LastOne
<1> QED BY <1>2, <1>3, <1>4

LEMMA MemberPrograms ==
    ASSUME FactInv, family = "members", NEW w \in FactSessions, ~Idle(w)
    PROVE  \/ /\ fact[w].writer = "history" /\ fact[w].at = 1 /\ ~LastOne(w)
              /\ Current(w) = Stmt("members", "look", "answer")
           \/ /\ fact[w].writer = "history" /\ fact[w].at = 2 /\ LastOne(w)
              /\ Current(w) = Stmt("members", "swap", "answer")
<1>1. fact[w].writer \in DOMAIN Writers("members") /\ fact[w].at \in DOMAIN Program(w)
  BY DEF FactInv, FactTypeOK
<1>2. fact[w].writer = "history"
  BY <1>1 DEF Writers
<1>3. Writers("members")["history"] = << Stmt("members", "look", "answer"), Stmt("members", "swap", "answer") >>
  BY DEF Writers
<1>4. Program(w) = << Stmt("members", "look", "answer"), Stmt("members", "swap", "answer") >>
  BY <1>2, <1>3 DEF Program
<1> QED BY <1>1, <1>2, <1>4 DEF Current, LastOne

\* What Execute does to the session, and to the table of its statement.
LEMMA ExecuteEffect ==
    ASSUME FactInv, NEW w \in FactSessions, Execute(w), Current(w).how # "complete"
    PROVE  /\ ~Idle(w) /\ family' = family /\ mixed' = mixed
           /\ \A v \in FactSessions : v # w => fact'[v] = fact[v]
           /\ LastOne(w) => Idle(w)'
           /\ ~LastOne(w) => /\ fact'[w].writer = fact[w].writer /\ fact'[w].at = fact[w].at + 1
                             /\ fact'[w].answer = fact[w].answer
                             /\ Current(w).how = "look" => fact'[w].seen = table[Current(w).on]
           /\ Current(w).how = "look" => table' = table
           /\ \A t \in Tables : t # Current(w).on => table'[t] = table[t]
           /\ Current(w).how # "look" =>
                 table'[Current(w).on] = Effect(Current(w), fact[w].answer, fact[w].seen)
<1>1. ~Idle(w) /\ family' = family /\ mixed' = mixed /\ fact' = [fact EXCEPT ![w] = Continue(w)]
  BY DEF Execute
<1>2. fact \in [FactSessions -> FactRecord] /\ table \in [Tables -> [Keys -> Cells]] /\ fact[w] \in FactRecord
  BY DEF FactInv, FactTypeOK
<1>3. Current(w).on \in Tables
  BY <1>1, CurrentStatement DEF Statement
<1>4. ~NothingToWrite(w)
  BY DEF NothingToWrite
<1>5. LastOne(w) => Idle(w)'
  BY <1>1, <1>2 DEF Continue, Unused, Idle
<1>6. ASSUME NEW r \in FactRecord, NEW seen
      PROVE  /\ [r EXCEPT !.at = @ + 1, !.seen = seen].writer = r.writer
             /\ [r EXCEPT !.at = @ + 1, !.seen = seen].at = r.at + 1
             /\ [r EXCEPT !.at = @ + 1, !.seen = seen].answer = r.answer
             /\ [r EXCEPT !.at = @ + 1, !.seen = seen].seen = seen
  BY DEF FactRecord
<1>7. ASSUME ~LastOne(w)
      PROVE  /\ fact'[w].writer = fact[w].writer /\ fact'[w].at = fact[w].at + 1
             /\ fact'[w].answer = fact[w].answer
             /\ Current(w).how = "look" => fact'[w].seen = table[Current(w).on]
  <2> DEFINE looked == IF Current(w).how = "look" THEN table[Current(w).on] ELSE fact[w].seen
  <2>1. fact'[w] = [fact[w] EXCEPT !.at = @ + 1, !.seen = looked]
    BY <1>1, <1>2, <1>4, <1>7 DEF Continue
  <2>2. Current(w).how = "look" => looked = table[Current(w).on]
    OBVIOUS
  <2> HIDE DEF looked
  <2> QED BY <1>2, <1>6, <2>1, <2>2
<1>8. table' = IF Current(w).how = "look" THEN table
               ELSE [table EXCEPT ![Current(w).on] = Effect(Current(w), fact[w].answer, fact[w].seen)]
  BY <1>4 DEF Execute
<1> QED BY <1>1, <1>2, <1>3, <1>5, <1>7, <1>8

-----------------------------------------------------------------------------
(* A row has its reference.                                                *)

\* A writer that is about to write rows has written their references, and none
\* is ever deleted.
RefInv ==
    /\ RowsHaveReference
    /\ \A w \in FactSessions :
          /\ fact[w].writer = "daily"
          /\ (family = "etf" /\ fact[w].at = 2) \/ (family = "board" /\ fact[w].at = 3)
          => KeysOf(fact[w].answer) \subseteq KeysOf(table["reference"])

LEMMA RefStep == FactInv /\ RefInv /\ [FactNext]_factVars => RefInv'
<1> SUFFICES ASSUME FactInv, RefInv, [FactNext]_factVars PROVE RefInv'
  OBVIOUS
<1>1. ASSUME NEW w \in FactSessions, StartWriter(w) PROVE RefInv'
  <2>1. PICK name, answer : fact' = [fact EXCEPT ![w] = [Unused EXCEPT !.writer = name, !.answer = answer]]
    BY <1>1 DEF StartWriter
  <2>2. fact'[w].at = 1 /\ \A v \in FactSessions : v # w => fact'[v] = fact[v]
    BY <2>1 DEF FactInv, Unused
  <2> QED BY <1>1, <2>2 DEF StartWriter, RefInv, RowsHaveReference
<1>2. ASSUME NEW w \in FactSessions, Execute(w), family \in {"etf", "board"} PROVE RefInv'
  <2>0. ~Idle(w) /\ {"rows", "reference"} \subseteq Tables
    BY <1>2 DEF Execute, Tables
  <2>1. Current(w).how \notin {"complete", "look"} /\ Current(w) \in Statement
    BY <1>2, <2>0, EtfPrograms, BoardPrograms, CurrentStatement DEF Stmt
  <2>2. /\ family' = family /\ \A v \in FactSessions : v # w => fact'[v] = fact[v]
        /\ LastOne(w) => Idle(w)'
        /\ ~LastOne(w) => /\ fact'[w].writer = fact[w].writer /\ fact'[w].at = fact[w].at + 1
                          /\ fact'[w].answer = fact[w].answer
        /\ \A t \in Tables : t # Current(w).on => table'[t] = table[t]
        /\ table'[Current(w).on] = Effect(Current(w), fact[w].answer, fact[w].seen)
    BY <1>2, <2>1, ExecuteEffect
  <2>3. CASE Current(w).on = "reference"
    <3>1. Current(w).how \in {"known", "replace"}
      BY <1>2, <2>0, <2>3, EtfPrograms, BoardPrograms DEF Stmt
    <3>2. KeysOf(table'["reference"]) = KeysOf(table["reference"]) \cup KeysOf(fact[w].answer)
      BY <2>1, <2>2, <2>3, <3>1, UpsertKeys
    <3>3. table'["rows"] = table["rows"]
      BY <2>0, <2>2, <2>3
    <3>4. RowsHaveReference'
      BY <2>2, <3>2, <3>3 DEF RefInv, RowsHaveReference
    <3>5. ASSUME NEW v \in FactSessions, fact'[v].writer = "daily",
                 (family = "etf" /\ fact'[v].at = 2) \/ (family = "board" /\ fact'[v].at = 3)
          PROVE  KeysOf(fact'[v].answer) \subseteq KeysOf(table'["reference"])
      <4>1. CASE v = w
        BY <2>2, <3>2, <3>5, <4>1 DEF Idle
      <4>2. CASE v # w
        BY <2>2, <3>2, <3>5, <4>2 DEF RefInv
      <4> QED BY <4>1, <4>2
    <3> QED BY <2>2, <3>4, <3>5 DEF RefInv
  <2>4. CASE Current(w).on = "rows"
    <3>1. table'["reference"] = table["reference"]
      BY <2>0, <2>2, <2>4
    <3>2. RowsHaveReference'
      <4>1. CASE Current(w).how = "clear"
        <5>1. KeysOf(table'["rows"]) = {}
          BY <2>2, <2>4, <4>1, ClearKeys
        <5> QED BY <5>1 DEF RowsHaveReference
      <4>2. CASE Current(w).how # "clear"
        <5>1. /\ Current(w).how = "replace" /\ fact[w].writer = "daily"
              /\ (family = "etf" /\ fact[w].at = 2) \/ (family = "board" /\ fact[w].at = 3)
          BY <1>2, <2>0, <2>4, <4>2, EtfPrograms, BoardPrograms DEF Stmt
        <5>2. KeysOf(table'["rows"]) = KeysOf(table["rows"]) \cup KeysOf(fact[w].answer)
          BY <2>1, <2>2, <2>4, <5>1, UpsertKeys
        <5> QED BY <1>2, <2>2, <3>1, <5>1, <5>2 DEF RefInv, RowsHaveReference
      <4> QED BY <4>1, <4>2
    <3>3. ~(~LastOne(w) /\ fact[w].at = 2 /\ family = "board") /\ ~(~LastOne(w) /\ family = "etf")
      BY <1>2, <2>0, <2>4, EtfPrograms, BoardPrograms DEF Stmt
    <3>4. ASSUME NEW v \in FactSessions, fact'[v].writer = "daily",
                 (family = "etf" /\ fact'[v].at = 2) \/ (family = "board" /\ fact'[v].at = 3)
          PROVE  KeysOf(fact'[v].answer) \subseteq KeysOf(table'["reference"])
      <4>1. CASE v = w
        <5>1. fact[w].at \in Nat
          BY DEF FactInv, FactRecord
        <5> QED BY <2>2, <3>3, <3>4, <4>1, <5>1 DEF Idle
      <4>2. CASE v # w
        BY <2>2, <3>1, <3>4, <4>2 DEF RefInv
      <4> QED BY <4>1, <4>2
    <3> QED BY <2>2, <3>2, <3>4 DEF RefInv
  <2> QED BY <1>2, <2>0, <2>3, <2>4, EtfPrograms, BoardPrograms DEF Stmt
<1>3. ASSUME NEW w \in FactSessions, Execute(w), family \notin {"etf", "board"} PROVE RefInv'
  BY <1>3 DEF Execute, RefInv, RowsHaveReference
<1>4. ASSUME NEW w \in FactSessions, StatementFails(w) PROVE RefInv'
  <2>1. fact' = [fact EXCEPT ![w] = Unused] /\ UNCHANGED <<family, table>>
    BY <1>4 DEF StatementFails, StoppedAt
  <2>2. fact'[w].writer = "none" /\ \A v \in FactSessions : v # w => fact'[v] = fact[v]
    BY <2>1 DEF FactInv, Unused
  <2> QED BY <2>1, <2>2 DEF RefInv, RowsHaveReference
<1>5. CASE UNCHANGED factVars
  BY <1>5 DEF factVars, RefInv, RowsHaveReference
<1> QED BY <1>1, <1>2, <1>3, <1>4, <1>5 DEF FactNext

\* A fund or a board with a daily row is in the reference table, for any number
\* of writers, in any interleaving and after any statement that fails
\* (_upsert_etf_daily and _upsert_board_daily write the references first).
THEOREM ReferencesFirst == FactSpec => []RowsHaveReference
<1>1. FactInit => RefInv
  <2> SUFFICES ASSUME FactInit PROVE RefInv
    OBVIOUS
  <2>1. \A w \in FactSessions : fact[w].writer = "none"
    BY DEF FactInit, Unused
  <2>2. KeysOf(table["rows"]) = {}
    BY DEF FactInit, Tables, NoRows, KeysOf
  <2> QED BY <2>1, <2>2 DEF RefInv, RowsHaveReference
<1>2. RefInv => RowsHaveReference
  BY DEF RefInv
<1> QED BY <1>1, <1>2, FactTypeInit, FactTypeStep, RefStep, PTL DEF FactSpec

-----------------------------------------------------------------------------
(* A day is one answer.                                                    *)

\* While nobody overlapped and nothing failed, at most one writer runs; between
\* its delete and its insert the day is empty, before and after it is that of
\* the last answer, and the snapshot of a swap is the table.
DayInv ==
    ~mixed =>
      /\ \A v, w \in FactSessions : ~Idle(v) /\ ~Idle(w) => v = w
      /\ family = "board" =>
           IF \E w \in FactSessions : fact[w].writer = "daily" /\ fact[w].at > 1
           THEN KeysOf(table["rows"]) = {} ELSE KeysOf(table["rows"]) = lastDay
      /\ family = "members" =>
           /\ KeysOf(table["members"]) = lastDay
           /\ \A w \in FactSessions :
                 ~Idle(w) /\ fact[w].at = 2 => fact[w].seen = table["members"]

LEMMA DayStep == FactInv /\ DayInv /\ [FactNext]_factVars => DayInv'
<1> SUFFICES ASSUME FactInv, DayInv, [FactNext]_factVars, ~mixed' PROVE DayInv'
  BY DEF DayInv
<1>0. \A w \in FactSessions : fact[w].at \in Nat
  BY DEF FactInv, FactRecord
<1>1. ASSUME NEW w \in FactSessions, StartWriter(w) PROVE DayInv'
  <2>1. PICK name, answer : fact' = [fact EXCEPT ![w] = [Unused EXCEPT !.writer = name, !.answer = answer]]
    BY <1>1 DEF StartWriter
  <2>2. fact'[w].at = 1 /\ \A v \in FactSessions : v # w => fact'[v] = fact[v]
    BY <2>1 DEF FactInv, Unused
  <2>3. ~mixed /\ UNCHANGED <<family, table, lastDay>> /\ \A v \in FactSessions : Idle(v)
    BY <1>1 DEF StartWriter
  <2>4. \A v \in FactSessions : fact[v].writer = "none"
    BY <2>3 DEF Idle
  <2>5. ~ \E v \in FactSessions : fact[v].writer = "daily" /\ fact[v].at > 1
    BY <2>4
  <2>6. ~ \E v \in FactSessions : fact'[v].writer = "daily" /\ fact'[v].at > 1
    BY <2>2, <2>4
  <2>7. \A u, v \in FactSessions : ~Idle(u)' /\ ~Idle(v)' => u = v
    BY <2>2, <2>4 DEF Idle
  <2>8. \A v \in FactSessions : ~Idle(v)' => fact'[v].at = 1
    BY <2>2, <2>4 DEF Idle
  <2>9. \A v \in FactSessions : ~(~Idle(v)' /\ fact'[v].at = 2)
    BY <2>8
  <2> QED BY <2>3, <2>5, <2>6, <2>7, <2>9 DEF DayInv
<1>2. ASSUME NEW w \in FactSessions, Execute(w) PROVE DayInv'
  <2>0. ~Idle(w) /\ family' = family /\ ~mixed /\ {"rows", "members"} \subseteq Tables
    BY <1>2 DEF Execute, Tables
  <2>1. \A v \in FactSessions : v # w => Idle(v)
    BY <2>0 DEF DayInv
  <2>2. \A v \in FactSessions : v # w => fact'[v] = fact[v] /\ fact[v].writer = "none"
    BY <1>2, <2>1 DEF Execute, FactInv, Idle
  <2>3. \A u, v \in FactSessions : ~Idle(u)' /\ ~Idle(v)' => u = v
    BY <2>2 DEF Idle
  <2>4. ASSUME family = "board"
        PROVE  IF \E v \in FactSessions : fact'[v].writer = "daily" /\ fact'[v].at > 1
               THEN KeysOf(table'["rows"]) = {} ELSE KeysOf(table'["rows"]) = lastDay'
    <3>1. Current(w).how \notin {"complete", "look"} /\ Current(w) \in Statement
      BY <2>0, <2>4, BoardPrograms, CurrentStatement DEF Stmt
    <3>2. /\ LastOne(w) => fact'[w].writer = "none"
          /\ ~LastOne(w) => fact'[w].writer = fact[w].writer /\ fact'[w].at = fact[w].at + 1
          /\ \A t \in Tables : t # Current(w).on => table'[t] = table[t]
          /\ table'[Current(w).on] = Effect(Current(w), fact[w].answer, fact[w].seen)
      BY <1>2, <3>1, ExecuteEffect DEF Idle
    <3>3. lastDay' = IF LastOne(w) /\ fact[w].writer \in {"daily", "history"}
                     THEN KeysOf(fact[w].answer) ELSE lastDay
      BY <1>2 DEF Execute
    <3>4. (\E v \in FactSessions : fact'[v].writer = "daily" /\ fact'[v].at > 1)
            <=> fact'[w].writer = "daily" /\ fact'[w].at > 1
      BY <2>2
    <3>5. (\E v \in FactSessions : fact[v].writer = "daily" /\ fact[v].at > 1)
            <=> fact[w].writer = "daily" /\ fact[w].at > 1
      BY <2>2
    <3>6. CASE fact[w].writer = "catalog"
      <4>1. Current(w).on = "reference" /\ LastOne(w)
        BY <2>0, <2>4, <3>6, BoardPrograms DEF Stmt
      <4> QED BY <2>0, <2>4, <3>2, <3>3, <3>4, <3>5, <3>6, <4>1 DEF DayInv
    <3>7. CASE fact[w].writer = "daily" /\ fact[w].at = 1
      <4>1. Current(w).on = "rows" /\ Current(w).how = "clear" /\ ~LastOne(w)
        BY <2>0, <2>4, <3>7, BoardPrograms DEF Stmt
      <4>2. KeysOf(table'["rows"]) = {}
        BY <3>2, <4>1, ClearKeys
      <4> QED BY <3>2, <3>4, <3>7, <4>1, <4>2
    <3>8. CASE fact[w].writer = "daily" /\ fact[w].at = 2
      <4>1. Current(w).on = "reference" /\ ~LastOne(w)
        BY <2>0, <2>4, <3>8, BoardPrograms DEF Stmt
      <4>2. KeysOf(table["rows"]) = {}
        BY <2>0, <2>4, <3>5, <3>8 DEF DayInv
      <4> QED BY <2>0, <3>2, <3>4, <3>8, <4>1, <4>2
    <3>9. CASE fact[w].writer = "daily" /\ fact[w].at = 3
      <4>1. Current(w).on = "rows" /\ Current(w).how = "replace" /\ LastOne(w)
        BY <2>0, <2>4, <3>9, BoardPrograms DEF Stmt
      <4>2. KeysOf(table["rows"]) = {}
        BY <2>0, <2>4, <3>5, <3>9 DEF DayInv
      <4>3. KeysOf(table'["rows"]) = KeysOf(table["rows"]) \cup KeysOf(fact[w].answer)
        BY <3>1, <3>2, <4>1, UpsertKeys
      <4> QED BY <3>2, <3>3, <3>4, <3>9, <4>1, <4>2, <4>3
    <3> QED BY <2>0, <2>4, <3>6, <3>7, <3>8, <3>9, BoardPrograms
  <2>5. ASSUME family = "members"
        PROVE  /\ KeysOf(table'["members"]) = lastDay'
               /\ \A v \in FactSessions :
                     ~Idle(v)' /\ fact'[v].at = 2 => fact'[v].seen = table'["members"]
    <3>1. Current(w).how \in {"look", "swap"} /\ Current(w).on = "members" /\ fact[w].writer = "history"
      BY <2>0, <2>5, MemberPrograms DEF Stmt
    <3>2. /\ LastOne(w) => Idle(w)'
          /\ ~LastOne(w) => (Current(w).how = "look" => fact'[w].seen = table["members"])
          /\ Current(w).how = "look" => table' = table
          /\ Current(w).how # "look" =>
                table'["members"] = Effect(Current(w), fact[w].answer, fact[w].seen)
      BY <1>2, <3>1, ExecuteEffect
    <3>3. lastDay' = IF LastOne(w) THEN KeysOf(fact[w].answer) ELSE lastDay
      BY <1>2, <3>1 DEF Execute
    <3>4. KeysOf(table["members"]) = lastDay /\ (fact[w].at = 2 => fact[w].seen = table["members"])
      BY <2>0, <2>5 DEF DayInv
    <3>5. CASE Current(w).how = "look"
      <4>1. ~LastOne(w)
        BY <2>0, <2>5, <3>5, MemberPrograms DEF Stmt
      <4> QED BY <2>2, <3>2, <3>3, <3>4, <3>5, <4>1 DEF Idle
    <3>6. CASE Current(w).how = "swap"
      <4>1. LastOne(w) /\ fact[w].at = 2
        BY <2>0, <2>5, <3>6, MemberPrograms DEF Stmt
      <4>2. table[Current(w).on] \in [Keys -> Cells] /\ fact[w].seen = table[Current(w).on]
        BY <2>0, <3>1, <3>4, <4>1 DEF FactInv, FactTypeOK
      <4>3. KeysOf(Effect(Current(w), fact[w].answer, fact[w].seen)) = KeysOf(fact[w].answer)
        BY <3>6, <4>2, SwapKeys
      <4> QED BY <2>2, <3>2, <3>3, <3>6, <4>1, <4>3 DEF Idle
    <3> QED BY <3>1, <3>5, <3>6
  <2> QED BY <2>0, <2>3, <2>4, <2>5 DEF DayInv
<1>3. ASSUME NEW w \in FactSessions, StatementFails(w) PROVE DayInv'
  BY <1>3 DEF StatementFails
<1>4. CASE UNCHANGED factVars
  BY <1>4 DEF factVars, DayInv, Idle
<1> QED BY <1>1, <1>2, <1>3, <1>4 DEF FactNext

\* While writers neither overlap nor stop short, a day of board rows and the
\* members of a board are exactly those of the last answer (the delete before
\* the insert of _upsert_board_daily, the snapshot of the member swap).
THEOREM DaysAreAnswers == FactSpec => []DayIsOneAnswer
<1>1. FactInit => DayInv
  <2> SUFFICES ASSUME FactInit PROVE DayInv
    OBVIOUS
  <2>1. \A w \in FactSessions : fact[w].writer = "none" /\ Idle(w)
    BY DEF FactInit, Unused, Idle
  <2>2. KeysOf(table["rows"]) = {} /\ KeysOf(table["members"]) = {} /\ lastDay = {}
    BY DEF FactInit, Tables, NoRows, KeysOf
  <2> QED BY <2>1, <2>2 DEF DayInv
<1>2. DayInv => DayIsOneAnswer
  <2>1. (\A w \in FactSessions : Idle(w)) => ~ \E w \in FactSessions : fact[w].writer = "daily" /\ fact[w].at > 1
    BY DEF Idle
  <2> QED BY <2>1 DEF DayInv, DayIsOneAnswer
<1> QED BY <1>1, <1>2, FactTypeInit, FactTypeStep, DayStep, PTL DEF FactSpec

-----------------------------------------------------------------------------
(* LiveBars: the workers.                                                  *)

Ingesting  == {"fetching", "staging", "observing", "selecting"}
Handling   == {"observing", "selecting", "locking", "sealing", "comparing", "revising"}
Rechecking == {"rechecking", "comparing", "revising"}
Locking    == {"sealing", "revising"}

WorkerRecord == [stage : Stages, at : Nat, todo : SUBSET Codes,
                 found : [Codes -> Bars \cup {NoBar}],
                 code : Codes \cup {NoBar}, bar : Bars \cup {NoBar}]

\* A worker that handles a code knows the code and a bar; one that rechecks
\* knows a bar of every code it still has; nobody ingests at the end of Keep.
Sound(r, now) ==
    /\ r \in WorkerRecord /\ r.at <= now
    /\ r.stage \in Ingesting => now < Keep
    /\ r.stage \in Handling => r.code \in Codes /\ r.bar \in Bars
    /\ r.stage \in Rechecking => \A c \in r.todo : r.found[c] \in Bars

LiveInv == LiveTypeOK /\ \A w \in Workers : Sound(worker[w], liveNow)

LEMMA BlankSound ==
    ASSUME NEW now \in Nat
    PROVE  Sound(Blank, now) /\ Blank.stage = "idle" /\ Blank.code = NoBar
<1>1. [c \in Codes |-> NoBar] \in [Codes -> Bars \cup {NoBar}]
  OBVIOUS
<1> QED BY <1>1 DEF Blank, Sound, WorkerRecord, Stages, Ingesting, Handling, Rechecking

\* The records a worker starts with.
Dated(r, stage, at)         == [r EXCEPT !.stage = stage, !.at = at]
Given(r, todo, found)       == [r EXCEPT !.todo = todo, !.found = found]
Fetching(at, found)         == [Blank EXCEPT !.stage = "staging", !.at = at, !.todo = Codes, !.found = found]
Recovering(at)              == [Blank EXCEPT !.stage = "due", !.at = at]

LEMMA DatedSound ==
    ASSUME NEW now \in Nat, NEW r \in WorkerRecord, NEW stage \in {"staging", "due"},
           stage = "staging" => now < Keep
    PROVE  Sound(Dated(r, stage, now), now) /\ Dated(r, stage, now).stage = stage
<1>1. stage \in Stages
  BY DEF Stages
<1>2. /\ Dated(r, stage, now) \in WorkerRecord
      /\ Dated(r, stage, now).stage = stage /\ Dated(r, stage, now).at = now
  BY <1>1 DEF WorkerRecord, Dated
<1>3. now <= now
  OBVIOUS
<1>4. stage \notin Handling /\ stage \notin Rechecking /\ (stage \in Ingesting => now < Keep)
  BY DEF Ingesting, Handling, Rechecking
<1> QED BY <1>2, <1>3, <1>4, Zenon DEF Sound

LEMMA GivenSound ==
    ASSUME NEW now \in Nat, NEW r, Sound(r, now), r.stage = "staging",
           NEW found \in [Codes -> Bars \cup {NoBar}]
    PROVE  Sound(Given(r, Codes, found), now) /\ Given(r, Codes, found).stage = "staging"
BY DEF Sound, WorkerRecord, Stages, Ingesting, Handling, Rechecking, Given

LEMMA StartedSound ==
    ASSUME NEW now \in Nat, NEW found \in [Codes -> Bars \cup {NoBar}]
    PROVE  /\ now < Keep => Sound(Fetching(now, found), now) /\ Fetching(now, found).stage = "staging"
           /\ Sound(Recovering(now), now) /\ Recovering(now).stage = "due"
<1>1. Blank \in WorkerRecord
  BY BlankSound DEF Sound
<1>2. Recovering(now) = Dated(Blank, "due", now)
  BY DEF Recovering, Dated
<1>3. Fetching(now, found) = Given(Dated(Blank, "staging", now), Codes, found)
  BY DEF Fetching, Given, Dated, Blank
<1> QED BY <1>1, <1>2, <1>3, DatedSound, GivenSound

\* The records a worker goes on with: at another stage with what it knows, done
\* with a code, with a code and a bar to handle, with a list of codes.
Moved(r, stage)             == [r EXCEPT !.stage = stage]
Looped(r, stage, c)         == [r EXCEPT !.stage = stage, !.todo = @ \ {c}, !.code = NoBar, !.bar = NoBar]
Took(r, stage, c, b)        == [r EXCEPT !.stage = stage, !.code = c, !.bar = b]
Listing(r, todo)            == [r EXCEPT !.stage = "refetching", !.todo = todo]
Relisting(r, todo, found)   == [r EXCEPT !.stage = "rechecking", !.todo = todo, !.found = found]

LEMMA MovedSound ==
    ASSUME NEW now \in Nat, NEW r, Sound(r, now), NEW stage \in Stages,
           stage \in Ingesting => r.stage \in Ingesting,
           stage \in Handling => r.stage \in Handling,
           stage \in Rechecking => r.stage \in Rechecking
    PROVE  Sound(Moved(r, stage), now) /\ Moved(r, stage).stage = stage /\ Moved(r, stage).code = r.code
BY DEF Sound, WorkerRecord, Moved

LEMMA LoopedSound ==
    ASSUME NEW now \in Nat, NEW r, Sound(r, now), NEW c,
           NEW stage \in {"staging", "refetching", "rechecking"},
           stage = "staging" => r.stage \in Ingesting,
           stage = "rechecking" => r.stage \in Rechecking
    PROVE  Sound(Looped(r, stage, c), now) /\ Looped(r, stage, c).stage = stage
BY DEF Sound, WorkerRecord, Stages, Ingesting, Handling, Rechecking, Looped

LEMMA TookSound ==
    ASSUME NEW now \in Nat, NEW r, Sound(r, now), NEW c \in Codes, NEW b \in Bars,
           NEW stage \in {"observing", "locking", "comparing"},
           stage = "observing" => r.stage \in Ingesting,
           stage = "comparing" => r.stage \in Rechecking
    PROVE  Sound(Took(r, stage, c, b), now) /\ Took(r, stage, c, b).stage = stage
BY DEF Sound, WorkerRecord, Stages, Ingesting, Handling, Rechecking, Took

LEMMA ListingSound ==
    ASSUME NEW now \in Nat, NEW r, Sound(r, now), NEW todo \in SUBSET Codes
    PROVE  Sound(Listing(r, todo), now) /\ Listing(r, todo).stage = "refetching"
BY DEF Sound, WorkerRecord, Stages, Ingesting, Handling, Rechecking, Listing

LEMMA RelistingSound ==
    ASSUME NEW now \in Nat, NEW r, Sound(r, now), NEW todo \in SUBSET Codes,
           NEW found \in [Codes -> Bars \cup {NoBar}], \A c \in todo : found[c] \in Bars
    PROVE  Sound(Relisting(r, todo, found), now) /\ Relisting(r, todo, found).stage = "rechecking"
BY DEF Sound, WorkerRecord, Stages, Ingesting, Handling, Rechecking, Relisting

LEMMA AnswersTyped == Answers \subseteq Bars \cup {NoBar}
BY DEF Answers, WholeBar, From, Bars, Providers

LEMMA AbortedSound ==
    ASSUME LiveInv, NEW w \in Workers, worker[w].stage \in Handling \cup {"staging"}, Aborted(w)
    PROVE  \E r : GoTo(w, r) /\ Sound(r, liveNow) /\ r.stage \notin Locking
<1>0. Sound(worker[w], liveNow) /\ liveNow \in Nat
  BY DEF LiveInv, LiveTypeOK
<1>1. CASE worker[w].stage \in {"staging", "observing", "selecting"}
  <2>1. GoTo(w, Blank)
    BY <1>1 DEF Aborted
  <2> QED BY <1>0, <2>1, BlankSound DEF Locking
<1>2. CASE worker[w].stage \in {"locking", "sealing"}
  <2>1. GoTo(w, Looped(worker[w], "refetching", worker[w].code))
    BY <1>2 DEF Aborted, Loop, Looped
  <2> QED BY <1>0, <2>1, LoopedSound DEF Locking
<1>3. CASE worker[w].stage \in {"comparing", "revising"}
  <2>1. GoTo(w, Looped(worker[w], "rechecking", worker[w].code))
    BY <1>3 DEF Aborted, Loop, Looped
  <2> QED BY <1>0, <1>3, <2>1, LoopedSound DEF Locking, Rechecking
<1> QED BY <1>1, <1>2, <1>3 DEF Handling

\* A step of a worker leaves it sound, and it takes the lock of a selection only
\* while nobody has it, of a row that is staged if it is going to finalize it.
Locks(w, r) ==
    /\ r.code = worker[w].code /\ SelectionFree(w, r.code)
    /\ selected[r.code] # NoBar
    /\ r.stage = "sealing" => selected[r.code].state = "staged"
    /\ UNCHANGED tables

LEMMA WorkerStep ==
    ASSUME LiveInv, NEW w \in Workers, LiveStep(w) \/ LiveFaults(w)
    PROVE  /\ liveNow' = liveNow
           /\ \E r : GoTo(w, r) /\ Sound(r, liveNow) /\ (r.stage \in Locking => Locks(w, r))
<1> DEFINE Goal == \E r : GoTo(w, r) /\ Sound(r, liveNow) /\ (r.stage \in Locking => Locks(w, r))
<1>0. /\ Sound(worker[w], liveNow) /\ liveNow \in Nat /\ NoBar \notin Bars
      /\ worker[w] \in WorkerRecord /\ Answers \subseteq Bars \cup {NoBar}
  BY AnswersTyped, NoBarAssumption DEF LiveInv, LiveTypeOK, Sound, NoBarAssumption
<1>1. CASE StartIngest(w)
  <2>1. liveNow < Keep
    BY <1>0, <1>1, LiveAssumption DEF StartIngest, LiveAssumption
  <2>2. Sound([Blank EXCEPT !.stage = "fetching"], liveNow) /\ [Blank EXCEPT !.stage = "fetching"].stage = "fetching"
    BY <1>0, <2>1, BlankSound DEF Blank, Sound, WorkerRecord, Stages, Ingesting, Handling, Rechecking
  <2> QED BY <1>1, <2>2 DEF StartIngest, Locking
<1>2. CASE Fetched(w)
  <2>1. PICK found \in [Codes -> Answers] : GoTo(w, Fetching(liveNow, found))
    BY <1>2, Zenon DEF Fetched, Fetching
  <2>2. found \in [Codes -> Bars \cup {NoBar}] /\ liveNow < Keep
    BY <1>0, <1>2 DEF Fetched, At, Sound, Ingesting
  <2>3. Sound(Fetching(liveNow, found), liveNow) /\ Fetching(liveNow, found).stage = "staging"
    BY <1>0, <2>2, StartedSound
  <2> QED BY <1>2, <2>1, <2>3 DEF Fetched, Locking
<1>3. CASE StageNext(w)
  <2>0. PICK c \in worker[w].todo :
          IF worker[w].found[c] = NoBar THEN Loop(w, "staging", c)
          ELSE GoTo(w, [worker[w] EXCEPT !.stage = "observing", !.code = c, !.bar = worker[w].found[c]])
    BY <1>3, Zenon DEF StageNext
  <2>1. IF worker[w].found[c] = NoBar THEN GoTo(w, Looped(worker[w], "staging", c))
        ELSE GoTo(w, Took(worker[w], "observing", c, worker[w].found[c]))
    BY <2>0 DEF Loop, Looped, Took
  <2>2. c \in Codes /\ worker[w].found[c] \in Bars \cup {NoBar} /\ worker[w].stage \in Ingesting
    BY <1>0, <1>3 DEF StageNext, At, WorkerRecord, Ingesting
  <2>3. Sound(Looped(worker[w], "staging", c), liveNow) /\ Looped(worker[w], "staging", c).stage = "staging"
    BY <1>0, <2>2, LoopedSound
  <2>4. ASSUME worker[w].found[c] # NoBar
        PROVE  /\ Sound(Took(worker[w], "observing", c, worker[w].found[c]), liveNow)
               /\ Took(worker[w], "observing", c, worker[w].found[c]).stage = "observing"
    BY <1>0, <2>2, <2>4, TookSound
  <2> QED BY <1>3, <2>1, <2>3, <2>4 DEF StageNext, Locking
<1>4. CASE Observe(w)
  <2>1. GoTo(w, Moved(worker[w], "selecting")) /\ worker[w].stage = "observing"
    BY <1>4 DEF Observe, Going, Moved, At
  <2>2. Sound(Moved(worker[w], "selecting"), liveNow) /\ Moved(worker[w], "selecting").stage = "selecting"
    BY <1>0, <2>1, MovedSound DEF Stages, Ingesting, Handling, Rechecking
  <2> QED BY <1>4, <2>1, <2>2 DEF Observe, Locking
<1>5. CASE SelectStaged(w)
  <2>1. GoTo(w, Looped(worker[w], "staging", worker[w].code)) /\ worker[w].stage \in Ingesting
    BY <1>5 DEF SelectStaged, Loop, Looped, At, Ingesting
  <2>2. /\ Sound(Looped(worker[w], "staging", worker[w].code), liveNow)
        /\ Looped(worker[w], "staging", worker[w].code).stage = "staging"
    BY <1>0, <2>1, LoopedSound
  <2> QED BY <1>5, <2>1, <2>2 DEF SelectStaged, Locking
<1>6. CASE IngestReturns(w)
  BY <1>0, <1>6, BlankSound DEF IngestReturns, Locking
<1>7. CASE StartRecover(w)
  <2>1. GoTo(w, Recovering(liveNow)) /\ liveNow' = liveNow
    BY <1>7 DEF StartRecover, Recovering
  <2>2. [c \in Codes |-> NoBar] \in [Codes -> Bars \cup {NoBar}]
    OBVIOUS
  <2>3. Sound(Recovering(liveNow), liveNow) /\ Recovering(liveNow).stage = "due"
    BY <1>0, <2>2, StartedSound
  <2> QED BY <2>1, <2>3 DEF Locking
<1>8. CASE ListDue(w)
  <2> DEFINE todo == {c \in Codes : /\ worker[w].at >= Due
                                    /\ selected[c] # NoBar /\ selected[c].state = "staged"
                                    /\ SelectionFree(w, c)}
  <2>1. GoTo(w, Listing(worker[w], todo)) /\ liveNow' = liveNow
    BY <1>8 DEF ListDue, Listing
  <2>2. todo \in SUBSET Codes
    OBVIOUS
  <2> HIDE DEF todo
  <2> QED BY <1>0, <2>1, <2>2, ListingSound DEF Locking
<1>9. CASE Refetch(w)
  <2>0. PICK c \in worker[w].todo, b \in Answers :
          IF b = NoBar THEN Loop(w, "refetching", c)
          ELSE GoTo(w, [worker[w] EXCEPT !.stage = "locking", !.code = c, !.bar = b])
    BY <1>9, Zenon DEF Refetch
  <2>1. IF b = NoBar THEN GoTo(w, Looped(worker[w], "refetching", c))
        ELSE GoTo(w, Took(worker[w], "locking", c, b))
    BY <2>0 DEF Loop, Looped, Took
  <2>2. c \in Codes /\ (b # NoBar => b \in Bars)
    BY <1>0 DEF WorkerRecord
  <2>3. Sound(Looped(worker[w], "refetching", c), liveNow) /\ Looped(worker[w], "refetching", c).stage = "refetching"
    BY <1>0, LoopedSound
  <2>4. ASSUME b # NoBar
        PROVE  Sound(Took(worker[w], "locking", c, b), liveNow) /\ Took(worker[w], "locking", c, b).stage = "locking"
    BY <1>0, <2>2, <2>4, TookSound
  <2> QED BY <1>9, <2>1, <2>3, <2>4 DEF Refetch, Locking
<1>10. CASE LockStaged(w)
  <2>1. worker[w].stage = "locking" /\ SelectionFree(w, worker[w].code) /\ UNCHANGED <<liveNow, tables>>
    BY <1>10 DEF LockStaged, At
  <2>2. CASE MayFinalize(selected[worker[w].code])
    <3>1. GoTo(w, Moved(worker[w], "sealing"))
      BY <1>10, <2>2 DEF LockStaged, Going, Moved
    <3>2. /\ Sound(Moved(worker[w], "sealing"), liveNow)
          /\ Moved(worker[w], "sealing").stage = "sealing" /\ Moved(worker[w], "sealing").code = worker[w].code
      BY <1>0, <2>1, MovedSound DEF Stages, Ingesting, Handling, Rechecking
    <3> QED BY <2>1, <2>2, <3>1, <3>2 DEF Locks, MayFinalize
  <2>3. CASE ~MayFinalize(selected[worker[w].code])
    <3>1. GoTo(w, Looped(worker[w], "refetching", worker[w].code))
      BY <1>10, <2>3 DEF LockStaged, Loop, Looped
    <3>2. /\ Sound(Looped(worker[w], "refetching", worker[w].code), liveNow)
          /\ Looped(worker[w], "refetching", worker[w].code).stage = "refetching"
      BY <1>0, LoopedSound
    <3> QED BY <2>1, <3>1, <3>2 DEF Locking
  <2> QED BY <2>2, <2>3
<1>11. CASE Finalize(w)
  <2>1. GoTo(w, Looped(worker[w], "refetching", worker[w].code)) /\ liveNow' = liveNow
    BY <1>11 DEF Finalize, Loop, Looped
  <2>2. /\ Sound(Looped(worker[w], "refetching", worker[w].code), liveNow)
        /\ Looped(worker[w], "refetching", worker[w].code).stage = "refetching"
    BY <1>0, LoopedSound
  <2> QED BY <2>1, <2>2 DEF Locking
<1>12. CASE FinalizerReturns(w)
  <2>1. GoTo(w, Moved(worker[w], "window")) /\ liveNow' = liveNow
    BY <1>12 DEF FinalizerReturns, Going, Moved
  <2>2. Sound(Moved(worker[w], "window"), liveNow) /\ Moved(worker[w], "window").stage = "window"
    BY <1>0, MovedSound DEF Stages, Ingesting, Handling, Rechecking
  <2> QED BY <2>1, <2>2 DEF Locking
<1>13. CASE ListCorrections(w)
  <2> DEFINE recent == {c \in Codes : /\ selected[c] # NoBar /\ selected[c].state = "finalized"
                                      /\ selected[c].at + Window >= worker[w].at}
             found  == [c \in Codes |-> IF c \in recent THEN selected[c].bar ELSE NoBar]
  <2>1. GoTo(w, Relisting(worker[w], recent, found)) /\ liveNow' = liveNow
    BY <1>13 DEF ListCorrections, Relisting
  <2>2. \A c \in Codes : selected[c] # NoBar => selected[c].bar \in Bars
    BY DEF LiveInv, LiveTypeOK, Selections
  <2>3. recent \in SUBSET Codes /\ found \in [Codes -> Bars \cup {NoBar}] /\ \A c \in recent : found[c] \in Bars
    BY <2>2
  <2> HIDE DEF recent, found
  <2> QED BY <1>0, <2>1, <2>3, RelistingSound DEF Locking
<1>14. CASE Recheck(w)
  <2>0. PICK c \in worker[w].todo : \E b \in From(worker[w].found[c].provider) :
          IF b = NoBar THEN Loop(w, "rechecking", c)
          ELSE GoTo(w, [worker[w] EXCEPT !.stage = "comparing", !.code = c, !.bar = b])
    BY <1>14, Zenon DEF Recheck
  <2>1. PICK b \in From(worker[w].found[c].provider) :
          IF b = NoBar THEN Loop(w, "rechecking", c)
          ELSE GoTo(w, [worker[w] EXCEPT !.stage = "comparing", !.code = c, !.bar = b])
    BY <2>0, Zenon
  <2>2. c \in Codes /\ worker[w].found[c] \in Bars /\ worker[w].stage \in Rechecking
    BY <1>0, <1>14 DEF WorkerRecord, Recheck, At, Sound, Rechecking
  <2>3. From(worker[w].found[c].provider) \subseteq Bars \cup {NoBar}
    BY <2>2 DEF From, Bars
  <2>4. /\ b \in Bars \cup {NoBar}
        /\ IF b = NoBar THEN GoTo(w, Looped(worker[w], "rechecking", c))
           ELSE GoTo(w, Took(worker[w], "comparing", c, b))
    BY <2>1, <2>3 DEF Loop, Looped, Took
  <2>5. Sound(Looped(worker[w], "rechecking", c), liveNow) /\ Looped(worker[w], "rechecking", c).stage = "rechecking"
    BY <1>0, <2>2, LoopedSound
  <2>6. ASSUME b # NoBar
        PROVE  Sound(Took(worker[w], "comparing", c, b), liveNow) /\ Took(worker[w], "comparing", c, b).stage = "comparing"
    BY <1>0, <2>2, <2>4, <2>6, TookSound
  <2>7. liveNow' = liveNow
    BY <1>14 DEF Recheck
  <2>8. CASE b = NoBar
    BY <2>4, <2>5, <2>7, <2>8 DEF Locking
  <2>9. CASE b # NoBar
    BY <2>4, <2>6, <2>7, <2>9 DEF Locking
  <2> QED BY <2>8, <2>9
<1>15. CASE LockFinalized(w)
  <2>1. worker[w].stage = "comparing" /\ SelectionFree(w, worker[w].code) /\ UNCHANGED <<liveNow, tables>>
    BY <1>15 DEF LockFinalized, At
  <2>2. CASE Differs(selected[worker[w].code], worker[w].bar)
    <3>1. GoTo(w, Moved(worker[w], "revising"))
      BY <1>15, <2>2 DEF LockFinalized, Going, Moved
    <3>2. /\ Sound(Moved(worker[w], "revising"), liveNow)
          /\ Moved(worker[w], "revising").stage = "revising" /\ Moved(worker[w], "revising").code = worker[w].code
      BY <1>0, <2>1, MovedSound DEF Stages, Ingesting, Handling, Rechecking
    <3> QED BY <2>1, <2>2, <3>1, <3>2 DEF Locks, Differs
  <2>3. CASE ~Differs(selected[worker[w].code], worker[w].bar)
    <3>1. GoTo(w, Looped(worker[w], "rechecking", worker[w].code))
      BY <1>15, <2>3 DEF LockFinalized, Loop, Looped
    <3>2. /\ Sound(Looped(worker[w], "rechecking", worker[w].code), liveNow)
          /\ Looped(worker[w], "rechecking", worker[w].code).stage = "rechecking"
      BY <1>0, <2>1, LoopedSound DEF Rechecking
    <3> QED BY <2>1, <3>1, <3>2 DEF Locking
  <2> QED BY <2>2, <2>3
<1>16. CASE Correct(w)
  <2>1. GoTo(w, Looped(worker[w], "rechecking", worker[w].code)) /\ liveNow' = liveNow
    BY <1>16 DEF Correct, Aborted, Loop, Looped, At
  <2>2. /\ Sound(Looped(worker[w], "rechecking", worker[w].code), liveNow)
        /\ Looped(worker[w], "rechecking", worker[w].code).stage = "rechecking"
    BY <1>0, <1>16, LoopedSound DEF Correct, At, Rechecking
  <2> QED BY <2>1, <2>2 DEF Locking
<1>17. CASE CorrectorReturns(w)
  <2>1. GoTo(w, Moved(worker[w], "retention")) /\ liveNow' = liveNow
    BY <1>17 DEF CorrectorReturns, Going, Moved
  <2>2. Sound(Moved(worker[w], "retention"), liveNow) /\ Moved(worker[w], "retention").stage = "retention"
    BY <1>0, MovedSound DEF Stages, Ingesting, Handling, Rechecking
  <2> QED BY <2>1, <2>2 DEF Locking
<1>18. CASE CleanupRetention(w) \/ WorkerDies(w)
  BY <1>0, <1>18, BlankSound DEF CleanupRetention, WorkerDies, Locking
<1>19. CASE TransactionFails(w)
  BY <1>19, AbortedSound DEF TransactionFails, Handling
<1>20. CASE DeadlockVictim(w)
  <2>1. worker[w].stage \in Handling
    BY <1>20 DEF DeadlockVictim, Deadlocked, HoldsSelection, At, Handling
  <2> QED BY <1>20, <2>1, AbortedSound DEF DeadlockVictim
<1> QED BY <1>1, <1>2, <1>3, <1>4, <1>5, <1>6, <1>7, <1>8, <1>9, <1>10, <1>11, <1>12, <1>13, <1>14, <1>15, <1>16,
           <1>17, <1>18, <1>19, <1>20 DEF LiveStep, LiveFaults

\* One worker at a time has the lock of a selection, and while it has it the
\* row is what it was locked as.
LockInv ==
    /\ \A v, w \in Workers, c \in Codes : HoldsSelection(v, c) /\ HoldsSelection(w, c) => v = w
    /\ \A w \in Workers : worker[w].stage \in Locking =>
         /\ selected[worker[w].code] # NoBar
         /\ worker[w].stage = "sealing" => selected[worker[w].code].state = "staged"

\* What is left of a correction once it does not raise.
Revised(row, bar, at) == [row EXCEPT !.bar = bar, !.at = at]

Revises(w) ==
    LET c == worker[w].code   b == worker[w].bar IN
    /\ At(w, "revising")
    /\ observed' = observed \cup {<<c, b>>} /\ sealed' = sealed \cup {<<c, b>>}
    /\ minuteFact' = [minuteFact EXCEPT ![c] = b]
    /\ selected' = [selected EXCEPT ![c] = Revised(@, b, worker[w].at)]
    /\ UNCHANGED <<finals, late>>

LEMMA RowsTyped ==
    ASSUME NEW row \in Selections, NEW bar \in Bars, NEW at \in Nat
    PROVE  /\ Revised(row, bar, at) \in Selections
           /\ Revised(row, bar, at).state = row.state /\ Revised(row, bar, at).bar = bar
           /\ Sealed(row, bar, at) \in Selections
           /\ Sealed(row, bar, at).state = "finalized" /\ Sealed(row, bar, at).bar = bar
           /\ Sealed(NoBar, bar, at) = Sealed(row, bar, at)
BY DEF Selections, Revised, Sealed

LEMMA StagedTyped ==
    ASSUME NEW row \in Selections \cup {NoBar}, NEW bar \in Bars, NEW at \in Nat
    PROVE  /\ Staged(row, bar, at) \in Selections /\ Staged(row, bar, at).bar = bar
           /\ row = NoBar => Staged(row, bar, at).state = "staged"
           /\ row # NoBar => Staged(row, bar, at).state = row.state
<1>1. CASE row = NoBar
  <2> DEFINE new == [state |-> "staged", bar |-> bar, at |-> at]
  <2>1. new \in Selections /\ new.bar = bar /\ new.state = "staged"
    BY DEF Selections
  <2>2. Staged(row, bar, at) = new
    BY <1>1 DEF Staged
  <2> QED BY <1>1, <2>1, <2>2
<1>2. CASE row # NoBar
  <2>1. row \in Selections /\ Staged(row, bar, at) = Revised(row, bar, at)
    BY <1>2 DEF Staged, Revised
  <2> QED BY <1>2, <2>1, RowsTyped
<1> QED BY <1>1, <1>2

\* The four transactions that change a table.
LEMMA WorkerTables ==
    ASSUME NEW w \in Workers, LiveStep(w) \/ LiveFaults(w)
    PROVE  UNCHANGED tables \/ SelectStaged(w) \/ Finalize(w) \/ Revises(w) \/ CleanupRetention(w)
<1>1. CASE Correct(w)
  <2>1. [selected EXCEPT ![worker[w].code].bar = worker[w].bar, ![worker[w].code].at = worker[w].at]
          = [selected EXCEPT ![worker[w].code] = Revised(@, worker[w].bar, worker[w].at)]
    BY DEF Revised
  <2> QED BY <1>1, <2>1 DEF Correct, Revises
<1>2. CASE StartIngest(w) \/ Fetched(w) \/ StageNext(w) \/ Observe(w) \/ IngestReturns(w) \/ StartRecover(w)
  BY <1>2 DEF StartIngest, Fetched, StageNext, Observe, IngestReturns, StartRecover
<1>3. CASE ListDue(w) \/ Refetch(w) \/ LockStaged(w) \/ FinalizerReturns(w) \/ ListCorrections(w)
  BY <1>3 DEF ListDue, Refetch, LockStaged, FinalizerReturns, ListCorrections
<1>4. CASE Recheck(w) \/ LockFinalized(w) \/ CorrectorReturns(w) \/ LiveFaults(w)
  BY <1>4 DEF Recheck, LockFinalized, CorrectorReturns, LiveFaults, TransactionFails, DeadlockVictim, WorkerDies
<1> QED BY <1>1, <1>2, <1>3, <1>4 DEF LiveStep

LEMMA LiveTypeInit == LiveInit => LiveInv /\ LockInv
<1> SUFFICES ASSUME LiveInit PROVE LiveInv /\ LockInv
  OBVIOUS
<1>1. Sound(Blank, 0) /\ Blank.stage = "idle"
  BY BlankSound
<1>2. \A w \in Workers : worker[w] = Blank
  BY DEF LiveInit
<1>3. LiveTypeOK
  BY <1>1, LiveAssumption DEF LiveInit, LiveTypeOK, LiveAssumption, Sound, WorkerRecord
<1> QED BY <1>1, <1>2, <1>3 DEF LiveInit, LiveInv, LockInv, HoldsSelection, Locking

\* What a transaction may rely on: the worker handles a code with a bar, and the
\* locked row is the row it was when the worker took it.
LEMMA HandledRow ==
    ASSUME LiveInv, LockInv, NEW w \in Workers, worker[w].stage \in Handling
    PROVE  /\ worker[w].code \in Codes /\ worker[w].bar \in Bars /\ worker[w].at \in Nat
           /\ selected[worker[w].code] \in Selections \cup {NoBar}
           /\ worker[w].stage \in Locking => selected[worker[w].code] \in Selections
BY DEF LiveInv, LiveTypeOK, LockInv, Sound, WorkerRecord

LEMMA SelectionStep ==
    ASSUME LiveInv, LockInv, NEW w \in Workers,
           SelectStaged(w) \/ Finalize(w) \/ Revises(w)
    PROVE  LET c == worker[w].code   b == worker[w].bar IN
           /\ c \in Codes /\ b \in Bars
           /\ \E row \in Selections : /\ selected' = [selected EXCEPT ![c] = row] /\ row.bar = b
                                      /\ Finalize(w) => row.state = "finalized"
                                      /\ Revises(w) => row.state = selected[c].state
                                      /\ SelectStaged(w) => \/ selected[c] = NoBar /\ row.state = "staged"
                                                            \/ selected[c] # NoBar /\ row.state = selected[c].state
           /\ \A v \in Workers \ {w} : ~HoldsSelection(v, c)
           /\ observed' = observed \cup {<<c, b>>}
           /\ ~SelectStaged(w) => sealed' = sealed \cup {<<c, b>>}
                                  /\ minuteFact' = [minuteFact EXCEPT ![c] = b]
<1> DEFINE c == worker[w].code   b == worker[w].bar
<1>1. CASE SelectStaged(w)
  <2>1. worker[w].stage \in Handling /\ SelectionFree(w, c) /\ ~At(w, "sealing") /\ ~At(w, "revising")
    BY <1>1 DEF SelectStaged, At, Handling
  <2>2. c \in Codes /\ b \in Bars /\ worker[w].at \in Nat /\ selected[c] \in Selections \cup {NoBar}
    BY <2>1, HandledRow
  <2>3. Staged(selected[c], b, worker[w].at) \in Selections
    BY <2>2, StagedTyped
  <2>4. /\ Staged(selected[c], b, worker[w].at).bar = b
        /\ selected[c] = NoBar => Staged(selected[c], b, worker[w].at).state = "staged"
        /\ selected[c] # NoBar => Staged(selected[c], b, worker[w].at).state = selected[c].state
    BY <2>2, StagedTyped
  <2>5. selected' = [selected EXCEPT ![c] = Staged(selected[c], b, worker[w].at)] /\ observed' = observed \cup {<<c, b>>}
    BY <1>1 DEF SelectStaged
  <2>6. ~Finalize(w) /\ ~Revises(w)
    BY <2>1 DEF Finalize, Revises
  <2> QED BY <1>1, <2>1, <2>2, <2>3, <2>4, <2>5, <2>6 DEF SelectionFree
<1>2. CASE Finalize(w)
  <2>1. At(w, "sealing") /\ worker[w].stage \in Handling /\ worker[w].stage \in Locking
    BY <1>2 DEF Finalize, At, Handling, Locking
  <2>2. c \in Codes /\ b \in Bars /\ worker[w].at \in Nat /\ selected[c] \in Selections
    BY <2>1, HandledRow
  <2>3. /\ Sealed(selected[c], b, worker[w].at) \in Selections
        /\ Sealed(selected[c], b, worker[w].at).bar = b
        /\ Sealed(selected[c], b, worker[w].at).state = "finalized"
    BY <2>2, RowsTyped
  <2>4. /\ selected' = [selected EXCEPT ![c] = Sealed(selected[c], b, worker[w].at)]
        /\ observed' = observed \cup {<<c, b>>} /\ sealed' = sealed \cup {<<c, b>>}
        /\ minuteFact' = [minuteFact EXCEPT ![c] = b]
    BY <1>2 DEF Finalize
  <2>5. ~SelectStaged(w) /\ ~Revises(w)
    BY <2>1 DEF SelectStaged, Revises, At
  <2>6. \A v \in Workers \ {w} : ~HoldsSelection(v, c)
    BY <2>1, <2>2 DEF LockInv, HoldsSelection, At
  <2> QED BY <2>2, <2>3, <2>4, <2>5, <2>6
<1>3. CASE Revises(w)
  <2>1. At(w, "revising") /\ worker[w].stage \in Handling /\ worker[w].stage \in Locking
    BY <1>3 DEF Revises, At, Handling, Locking
  <2>2. c \in Codes /\ b \in Bars /\ worker[w].at \in Nat /\ selected[c] \in Selections
    BY <2>1, HandledRow
  <2>3. /\ Revised(selected[c], b, worker[w].at) \in Selections
        /\ Revised(selected[c], b, worker[w].at).bar = b
        /\ Revised(selected[c], b, worker[w].at).state = selected[c].state
    BY <2>2, RowsTyped
  <2>4. /\ selected' = [selected EXCEPT ![c] = Revised(selected[c], b, worker[w].at)]
        /\ observed' = observed \cup {<<c, b>>} /\ sealed' = sealed \cup {<<c, b>>}
        /\ minuteFact' = [minuteFact EXCEPT ![c] = b]
    BY <1>3 DEF Revises
  <2>5. ~SelectStaged(w) /\ ~Finalize(w)
    BY <2>1 DEF SelectStaged, Finalize, At
  <2>6. \A v \in Workers \ {w} : ~HoldsSelection(v, c)
    BY <2>1, <2>2 DEF LockInv, HoldsSelection, At
  <2> QED BY <2>2, <2>3, <2>4, <2>5, <2>6
<1> QED BY <1>1, <1>2, <1>3

\* The statement of one worker leaves a row another one has locked alone.
LEMMA OthersKept ==
    ASSUME LiveInv, LockInv, NEW w \in Workers, LiveStep(w) \/ LiveFaults(w),
           NEW v \in Workers \ {w}, NEW c \in Codes, HoldsSelection(v, c)
    PROVE  selected'[c] = selected[c]
<1>0. selected \in [Codes -> Selections \cup {NoBar}]
  BY DEF LiveInv, LiveTypeOK
<1>1. CASE SelectStaged(w) \/ Finalize(w) \/ Revises(w)
  BY <1>0, <1>1, SelectionStep
<1>2. CASE CleanupRetention(w)
  BY <1>2 DEF CleanupRetention, SelectionFree
<1>3. CASE UNCHANGED tables
  BY <1>3 DEF tables
<1> QED BY <1>1, <1>2, <1>3, WorkerTables

LEMMA LiveStepType ==
    ASSUME LiveInv, LockInv, NEW w \in Workers, LiveStep(w) \/ LiveFaults(w)
    PROVE  LiveInv' /\ LockInv'
<1>0. /\ selected \in [Codes -> Selections \cup {NoBar}]
      /\ observed \subseteq Codes \X Bars /\ sealed \subseteq observed
      /\ minuteFact \in [Codes -> Bars \cup {NoBar}]
      /\ finals \in [Codes -> Nat] /\ late \subseteq Codes
      /\ worker \in [Workers -> WorkerRecord]
  BY DEF LiveInv, LiveTypeOK, WorkerRecord
<1>1. /\ liveNow' = liveNow
      /\ \E r : GoTo(w, r) /\ Sound(r, liveNow) /\ (r.stage \in Locking => Locks(w, r))
  BY WorkerStep
<1>2. PICK r : GoTo(w, r) /\ Sound(r, liveNow) /\ (r.stage \in Locking => Locks(w, r))
  BY <1>1
<1>3. worker'[w] = r /\ \A v \in Workers \ {w} : worker'[v] = worker[v]
  BY <1>0, <1>2 DEF GoTo
<1>4. worker' \in [Workers -> WorkerRecord] /\ \A v \in Workers : Sound(worker'[v], liveNow)
  BY <1>0, <1>2, <1>3 DEF GoTo, Sound, LiveInv
<1>5. /\ selected' \in [Codes -> Selections \cup {NoBar}]
      /\ observed' \subseteq Codes \X Bars /\ sealed' \subseteq observed'
      /\ minuteFact' \in [Codes -> Bars \cup {NoBar}]
      /\ finals' \in [Codes -> Nat] /\ late' \subseteq Codes
  <2>1. CASE SelectStaged(w)
    <3>1. worker[w].code \in Codes
      BY <2>1, SelectionStep
    <3>2. /\ late' \subseteq late \cup {worker[w].code}
          /\ UNCHANGED <<sealed, minuteFact, finals>>
      BY <2>1 DEF SelectStaged
    <3> QED BY <1>0, <2>1, <3>1, <3>2, SelectionStep
  <2>2. CASE Finalize(w)
    <3>1. finals' = [finals EXCEPT ![worker[w].code] = @ + 1] /\ UNCHANGED late
      BY <2>2 DEF Finalize
    <3>2. finals' \in [Codes -> Nat]
      <4>1. worker[w].code \in Codes
        BY <2>2, SelectionStep
      <4>2. finals[worker[w].code] + 1 \in Nat
        BY <1>0, <4>1
      <4> QED BY <1>0, <3>1, <4>1, <4>2, Zenon
    <3>3. ~SelectStaged(w)
      BY <2>2 DEF SelectStaged, Finalize, At
    <3> QED BY <1>0, <2>2, <3>1, <3>2, <3>3, SelectionStep
  <2>3. CASE Revises(w)
    <3>1. UNCHANGED <<finals, late>>
      BY <2>3 DEF Revises
    <3>2. ~SelectStaged(w)
      BY <2>3 DEF SelectStaged, Revises, At
    <3> QED BY <1>0, <2>3, <3>1, <3>2, SelectionStep
  <2>4. CASE CleanupRetention(w)
    <3>1. selected' = selected \/ selected' = [c \in Codes |-> IF selected[c] # NoBar /\ selected[c].state = "finalized"
                                                              THEN NoBar ELSE selected[c]]
      BY <2>4 DEF CleanupRetention
    <3>2. selected' \in [Codes -> Selections \cup {NoBar}]
      BY <1>0, <3>1
    <3>3. observed' \subseteq observed /\ sealed' \subseteq observed'
      BY <1>0, <2>4 DEF CleanupRetention
    <3>4. UNCHANGED <<minuteFact, finals, late>>
      BY <2>4 DEF CleanupRetention
    <3> QED BY <1>0, <3>2, <3>3, <3>4
  <2>5. CASE UNCHANGED tables
    BY <1>0, <2>5 DEF tables
  <2> QED BY <2>1, <2>2, <2>3, <2>4, <2>5, WorkerTables
<1>6. LiveInv'
  BY <1>1, <1>4, <1>5 DEF LiveInv, LiveTypeOK, WorkerRecord
<1>7. ASSUME NEW u \in Workers, NEW v \in Workers, NEW c \in Codes,
             HoldsSelection(u, c)', HoldsSelection(v, c)'
      PROVE  u = v
  <2>1. \A x \in Workers \ {w} : HoldsSelection(x, c)' => HoldsSelection(x, c)
    BY <1>3 DEF HoldsSelection
  <2>2. HoldsSelection(w, c)' => \A x \in Workers \ {w} : ~HoldsSelection(x, c)
    BY <1>2, <1>3 DEF HoldsSelection, Locking, Locks, SelectionFree
  <2> QED BY <1>7, <2>1, <2>2 DEF LockInv
<1>8. ASSUME NEW v \in Workers, worker'[v].stage \in Locking
      PROVE  /\ selected'[worker'[v].code] # NoBar
             /\ worker'[v].stage = "sealing" => selected'[worker'[v].code].state = "staged"
  <2>1. CASE v = w
    BY <1>2, <1>3, <1>8, <2>1 DEF Locks, tables
  <2>2. CASE v # w
    <3>1. worker'[v] = worker[v] /\ worker[v].stage \in Locking
      BY <1>3, <1>8, <2>2
    <3>2. worker[v].code \in Codes
      BY <3>1, HandledRow DEF Locking, Handling
    <3>3. HoldsSelection(v, worker[v].code)
      BY <3>1 DEF HoldsSelection, Locking
    <3>4. selected'[worker[v].code] = selected[worker[v].code]
      BY <2>2, <3>2, <3>3, OthersKept
    <3> QED BY <3>1, <3>4 DEF LockInv
  <2> QED BY <2>1, <2>2
<1> QED BY <1>6, <1>7, <1>8 DEF LockInv

LEMMA LiveTickType == LiveInv /\ LockInv /\ LiveTick => LiveInv' /\ LockInv'
<1> SUFFICES ASSUME LiveInv, LockInv, LiveTick PROVE LiveInv' /\ LockInv'
  OBVIOUS
<1>1. liveNow \in 0..Keep /\ liveNow' \in 0..Keep /\ liveNow' = liveNow + 1 /\ UNCHANGED <<tables, worker>>
  BY LiveAssumption DEF LiveInv, LiveTypeOK, LiveTick, LiveAssumption
<1>2. LiveTypeOK'
  BY <1>1 DEF LiveInv, LiveTypeOK, tables
<1>3. ASSUME NEW w \in Workers PROVE Sound(worker[w], liveNow + 1)
  <2>1. Sound(worker[w], liveNow)
    BY DEF LiveInv
  <2>2. worker[w].stage \in Ingesting => liveNow + 1 < Keep
    BY <1>1, <2>1, LiveAssumption DEF Sound, LiveTick, At, Ingesting, LiveAssumption
  <2>3. worker[w].at <= liveNow + 1
    BY <1>1, <2>1, LiveAssumption DEF Sound, WorkerRecord, LiveAssumption
  <2> QED BY <2>1, <2>2, <2>3, Zenon DEF Sound
<1>4. LiveInv'
  BY <1>1, <1>2, <1>3 DEF LiveInv
<1>5. LockInv'
  BY <1>1 DEF LockInv, HoldsSelection, tables
<1> QED BY <1>4, <1>5

LEMMA LiveTypeStep == LiveInv /\ LockInv /\ [LiveNext]_liveVars => LiveInv' /\ LockInv'
<1>1. LiveInv /\ LockInv /\ UNCHANGED liveVars => LiveInv' /\ LockInv'
  BY DEF LiveInv, LiveTypeOK, LockInv, HoldsSelection, liveVars
<1> QED BY <1>1, LiveStepType, LiveTickType DEF LiveNext

\* Every reachable state is of the declared type, the intermediate states of the
\* workers' transactions included.
THEOREM LiveTypeCorrect == LiveSpec => []LiveTypeOK
<1>1. LiveInv => LiveTypeOK
  BY DEF LiveInv
<1> QED BY <1>1, LiveTypeInit, LiveTypeStep, PTL DEF LiveSpec

-----------------------------------------------------------------------------
(* LiveBars: one finalization, and the fact it leaves.                     *)

\* A code was finalized once or never; if it was, its selection still says so
\* or retention has taken it, which is too late for another ingest to stage it.
FinalInv ==
    \A c \in Codes :
       \/ finals[c] = 0
       \/ /\ finals[c] = 1
          /\ \/ selected[c] # NoBar /\ selected[c].state = "finalized"
             \/ selected[c] = NoBar /\ liveNow >= Keep

LEMMA FinalStep ==
    ASSUME LiveInv, LockInv, FinalInv, [LiveNext]_liveVars
    PROVE  FinalInv'
<1>0. /\ selected \in [Codes -> Selections \cup {NoBar}] /\ finals \in [Codes -> Nat]
      /\ liveNow \in Nat /\ Keep \in Nat /\ NoBar \notin Selections
  BY LiveAssumption, NoBarAssumption DEF LiveInv, LiveTypeOK, LiveAssumption, NoBarAssumption
<1>1. ASSUME NEW w \in Workers, LiveStep(w) \/ LiveFaults(w) PROVE FinalInv'
  <2>0. liveNow' = liveNow
    BY <1>1, WorkerStep
  <2>1. CASE SelectStaged(w)
    <3>1. PICK row \in Selections :
            /\ selected' = [selected EXCEPT ![worker[w].code] = row]
            /\ \/ selected[worker[w].code] = NoBar /\ row.state = "staged"
               \/ selected[worker[w].code] # NoBar /\ row.state = selected[worker[w].code].state
      BY <2>1, SelectionStep
    <3>2. finals' = finals /\ worker[w].stage \in Ingesting
      BY <2>1 DEF SelectStaged, At, Ingesting
    <3>3. liveNow < Keep
      BY <3>2 DEF LiveInv, Sound
    <3>4. worker[w].code \in Codes
      BY <2>1, SelectionStep
    <3>5. ASSUME NEW c \in Codes, finals[c] # 0
          PROVE  finals[c] = 1 /\ selected[c] # NoBar /\ selected[c].state = "finalized"
      BY <1>0, <3>3, <3>5 DEF FinalInv
    <3>6. ASSUME NEW c \in Codes, finals[c] # 0
          PROVE  selected'[c] # NoBar /\ selected'[c].state = "finalized"
      BY <1>0, <3>1, <3>4, <3>5, <3>6
    <3> QED BY <3>2, <3>5, <3>6 DEF FinalInv
  <2>2. CASE Finalize(w)
    <3>1. PICK row \in Selections :
            selected' = [selected EXCEPT ![worker[w].code] = row] /\ row.state = "finalized"
      BY <2>2, SelectionStep
    <3>2. finals' = [finals EXCEPT ![worker[w].code] = @ + 1] /\ worker[w].code \in Codes
      BY <2>2, SelectionStep DEF Finalize
    <3>3. selected[worker[w].code] # NoBar /\ selected[worker[w].code].state = "staged"
      BY <2>2 DEF Finalize, LockInv, At, Locking
    <3>4. finals[worker[w].code] = 0
      BY <3>2, <3>3 DEF FinalInv
    <3> QED BY <1>0, <2>0, <3>1, <3>2, <3>4 DEF FinalInv
  <2>3. CASE Revises(w)
    <3>1. PICK row \in Selections :
            selected' = [selected EXCEPT ![worker[w].code] = row] /\ row.state = selected[worker[w].code].state
      BY <2>3, SelectionStep
    <3>2. finals' = finals /\ worker[w].code \in Codes /\ selected[worker[w].code] # NoBar
      BY <2>3, SelectionStep DEF Revises, LockInv, At, Locking
    <3> QED BY <1>0, <2>0, <3>1, <3>2 DEF FinalInv
  <2>4. CASE CleanupRetention(w)
    <3>1. UNCHANGED finals
      BY <2>4 DEF CleanupRetention
    <3>2. CASE worker[w].at >= Keep
      <4>1. liveNow >= Keep
        BY <1>0, <3>2 DEF LiveInv, Sound, WorkerRecord
      <4>2. selected' = [c \in Codes |-> IF selected[c] # NoBar /\ selected[c].state = "finalized"
                                         THEN NoBar ELSE selected[c]]
        BY <2>4, <3>2 DEF CleanupRetention
      <4> QED BY <2>0, <3>1, <4>1, <4>2 DEF FinalInv
    <3>3. CASE ~(worker[w].at >= Keep)
      BY <2>0, <2>4, <3>1, <3>3 DEF CleanupRetention, FinalInv
    <3> QED BY <3>2, <3>3
  <2>5. CASE UNCHANGED tables
    BY <2>0, <2>5 DEF tables, FinalInv
  <2> QED BY <1>1, <2>1, <2>2, <2>3, <2>4, <2>5, WorkerTables
<1>2. ASSUME LiveTick PROVE FinalInv'
  BY <1>0, <1>2 DEF LiveTick, tables, FinalInv
<1>3. CASE UNCHANGED liveVars
  BY <1>3 DEF liveVars, FinalInv
<1> QED BY <1>1, <1>2, <1>3 DEF LiveNext

\* Of several recoveries that list the same staged row, one writes the fact
\* (finalize takes the row for update and looks at its state again).
THEOREM FinalizedOnceHolds == LiveSpec => []FinalizedOnce
<1>1. LiveInit => FinalInv
  BY DEF LiveInit, FinalInv
<1>2. LiveInv /\ FinalInv => FinalizedOnce
  BY DEF LiveInv, LiveTypeOK, FinalInv, FinalizedOnce
<1> QED BY <1>1, <1>2, LiveTypeInit, LiveTypeStep, FinalStep, PTL DEF LiveSpec

LEMMA FactStep ==
    ASSUME LiveInv, LockInv, FactFollowsSelection, [LiveNext]_liveVars
    PROVE  FactFollowsSelection'
<1>0. /\ selected \in [Codes -> Selections \cup {NoBar}] /\ minuteFact \in [Codes -> Bars \cup {NoBar}]
      /\ NoBar \notin Selections
  BY NoBarAssumption DEF LiveInv, LiveTypeOK, NoBarAssumption
<1>1. ASSUME NEW w \in Workers, LiveStep(w) \/ LiveFaults(w) PROVE FactFollowsSelection'
  <2>1. CASE SelectStaged(w)
    <3>1. PICK row \in Selections :
            selected' = [selected EXCEPT ![worker[w].code] = row] /\ row.bar = worker[w].bar
      BY <2>1, SelectionStep
    <3>2. worker[w].code \in Codes /\ observed' = observed \cup {<<worker[w].code, worker[w].bar>>}
      BY <2>1, SelectionStep
    <3>3. /\ UNCHANGED <<sealed, minuteFact>>
          /\ late' = IF selected'[worker[w].code].state = "finalized" THEN late \cup {worker[w].code} ELSE late
      BY <2>1 DEF SelectStaged
    <3> QED BY <1>0, <3>1, <3>2, <3>3 DEF FactFollowsSelection
  <2>2. CASE Finalize(w) \/ Revises(w)
    <3>1. PICK row \in Selections :
            selected' = [selected EXCEPT ![worker[w].code] = row] /\ row.bar = worker[w].bar
      BY <2>2, SelectionStep
    <3>2. ~SelectStaged(w) /\ UNCHANGED late
      BY <2>2 DEF SelectStaged, Finalize, Revises, At
    <3>3. /\ worker[w].code \in Codes /\ observed' = observed \cup {<<worker[w].code, worker[w].bar>>}
          /\ sealed' = sealed \cup {<<worker[w].code, worker[w].bar>>}
          /\ minuteFact' = [minuteFact EXCEPT ![worker[w].code] = worker[w].bar]
      BY <2>2, <3>2, SelectionStep
    <3> QED BY <1>0, <3>1, <3>2, <3>3 DEF FactFollowsSelection
  <2>3. CASE CleanupRetention(w)
    <3>1. CASE worker[w].at >= Keep
      <4>1. /\ selected' = [c \in Codes |-> IF selected[c] # NoBar /\ selected[c].state = "finalized"
                                            THEN NoBar ELSE selected[c]]
            /\ observed' = observed \ (sealed \ Referenced)
        BY <2>3, <3>1 DEF CleanupRetention
      <4>2. ASSUME NEW c \in Codes, selected'[c] # NoBar
            PROVE  selected[c] # NoBar /\ selected'[c] = selected[c] /\ selected[c].state # "finalized"
        BY <4>1, <4>2
      <4>3. ASSUME NEW c \in Codes, selected[c] # NoBar PROVE <<c, selected[c].bar>> \in Referenced
        BY <4>3 DEF Referenced
      <4> QED BY <4>1, <4>2, <4>3 DEF FactFollowsSelection
    <3>2. CASE ~(worker[w].at >= Keep)
      BY <2>3, <3>2 DEF CleanupRetention, FactFollowsSelection
    <3> QED BY <3>1, <3>2
  <2>4. CASE UNCHANGED tables
    BY <2>4 DEF tables, FactFollowsSelection
  <2> QED BY <1>1, <2>1, <2>2, <2>3, <2>4, WorkerTables
<1>2. ASSUME LiveTick PROVE FactFollowsSelection'
  BY <1>2 DEF LiveTick, tables, FactFollowsSelection
<1>3. CASE UNCHANGED liveVars
  BY <1>3 DEF liveVars, FactFollowsSelection
<1> QED BY <1>1, <1>2, <1>3 DEF LiveNext

\* Selection, observations and fact table agree at every moment at which no
\* transaction is open, and retention never takes what a selection points at.
THEOREM FactFollows == LiveSpec => []FactFollowsSelection
<1>1. LiveInit => FactFollowsSelection
  BY DEF LiveInit, FactFollowsSelection
<1> QED BY <1>1, LiveTypeInit, LiveTypeStep, FactStep, PTL DEF LiveSpec

-----------------------------------------------------------------------------
(* Dates: the first and the last of a set.                                 *)

LEMMA FirstOf ==
    ASSUME NEW S \in SUBSET Nat, S # {}
    PROVE  Min(S) \in S /\ \A y \in S : Min(S) <= y
BY LeastOf DEF Min

LEMMA LastOf ==
    ASSUME NEW n \in Nat, NEW S \in SUBSET (0..n), S # {}
    PROVE  Max(S) \in S /\ \A y \in S : y <= Max(S)
<1> DEFINE T == {n - x : x \in S}
<1>1. T \in SUBSET Nat /\ T # {}
  <2>1. \A x \in S : n - x \in Nat
    OBVIOUS
  <2> QED BY <2>1
<1>2. PICK t \in T : \A u \in T : t <= u
  BY <1>1, FirstOf
<1>3. PICK x \in S : t = n - x
  BY <1>2
<1>4. \A y \in S : y <= x
  <2> SUFFICES ASSUME NEW y \in S PROVE y <= x
    OBVIOUS
  <2>1. n - x <= n - y
    BY <1>2, <1>3
  <2> QED BY <2>1
<1>5. \E z \in S : \A y \in S : z >= y
  BY <1>4
<1> QED BY <1>5 DEF Max

-----------------------------------------------------------------------------
(* StockReference: rows and what is hashed of them.                        *)

AnyRow == RowsOf \cup {NoRow}

LEMMA RowKinds ==
    ASSUME NEW row \in AnyRow
    PROVE  /\ row # NoRow => row \in RowsOf
           /\ NoRow.status = "none" /\ (row.status = "authoritative" => row \in RowsOf)
           /\ row \in RowsOf => row # NoRow
BY DEF AnyRow, RowsOf, NoRow

\* What the writers make of a row.
Dayed(row, day)            == [row EXCEPT !.listed = day]
Boarded(row, board)        == [row EXCEPT !.board = board]
Labelled(row, label)       == [row EXCEPT !.label = label]
Catalogued(row, i, source) == [row EXCEPT !.label = i.label, !.listed = i.listed, !.board = i.label,
                                          !.source = source]

LEMMA ProvisionalRow ==
    ASSUME NEW source \in Sources, NEW label \in Labels \cup {NoLabel}, NEW day \in Nat \cup {NoDay}
    PROVE  /\ Provisional(source, label, day) \in RowsOf
           /\ Provisional(source, label, day).status = "provisional"
BY DEF Provisional, RowsOf

LEMMA EditedRow ==
    ASSUME NEW row \in RowsOf, NEW label \in Labels \cup {NoLabel}, NEW day \in Nat \cup {NoDay}
    PROVE  /\ Dayed(row, day) \in RowsOf /\ Dayed(row, day).status = row.status
           /\ Labelled(row, label) \in RowsOf /\ Labelled(row, label).status = row.status
           /\ Boarded(row, label) \in RowsOf /\ Boarded(row, label).status = row.status
           /\ Boarded(row, label).source = row.source /\ Boarded(row, label).label = row.label
           /\ Boarded(row, label).listed = row.listed /\ Boarded(row, label).input = row.input
<1>1. Dayed(row, day) \in RowsOf /\ Dayed(row, day).status = row.status
  BY DEF RowsOf, Dayed
<1>2. Labelled(row, label) \in RowsOf /\ Labelled(row, label).status = row.status
  BY DEF RowsOf, Labelled
<1>3. Boarded(row, label) \in RowsOf /\ Boarded(row, label).status = row.status
  BY DEF RowsOf, Boarded
<1>4. /\ Boarded(row, label).source = row.source /\ Boarded(row, label).label = row.label
      /\ Boarded(row, label).listed = row.listed /\ Boarded(row, label).input = row.input
  BY DEF RowsOf, Boarded
<1> QED BY <1>1, <1>2, <1>3, <1>4

CatalogItems == [code : StockCodes, label : Labels, listed : Nat \cup {NoDay}]
NameItems    == [code : StockCodes, label : Labels]

LEMMA CataloguedRow ==
    ASSUME NEW row \in RowsOf, NEW i \in CatalogItems, NEW source \in Sources
    PROVE  Catalogued(row, i, source) \in RowsOf /\ Catalogued(row, i, source).status = row.status
<1> DEFINE r1 == Labelled(row, i.label)
           r2 == Dayed(r1, i.listed)
           r3 == Boarded(r2, i.label)
<1>1. i.label \in Labels \cup {NoLabel} /\ i.listed \in Nat \cup {NoDay}
  BY DEF CatalogItems
<1>2. r1 \in RowsOf /\ r1.status = row.status
  BY <1>1, EditedRow
<1>3. r2 \in RowsOf /\ r2.status = row.status
  BY <1>1, <1>2, EditedRow
<1>4. r3 \in RowsOf /\ r3.status = row.status
  BY <1>1, <1>3, EditedRow
<1>5. Catalogued(row, i, source) = [r3 EXCEPT !.source = source]
  BY DEF Catalogued, Labelled, Dayed, Boarded
<1> HIDE DEF r1, r2, r3
<1> QED BY <1>4, <1>5 DEF RowsOf

\* Two tables with the same authoritative rows, but for the board, hash alike.
SameReference(old, new) ==
    \A c \in StockCodes :
       /\ new[c].status = "authoritative" <=> old[c].status = "authoritative"
       /\ old[c].status = "authoritative" =>
            /\ new[c].source = old[c].source /\ new[c].label = old[c].label
            /\ new[c].listed = old[c].listed /\ new[c].input = old[c].input

LEMMA HashedAlike ==
    ASSUME NEW old, NEW new, SameReference(old, new)
    PROVE  Hashed(new) = Hashed(old)
<1>1. {d \in StockCodes : new[d].status = "authoritative"} = {d \in StockCodes : old[d].status = "authoritative"}
  BY DEF SameReference
<1>2. \A c \in {d \in StockCodes : old[d].status = "authoritative"} :
         [code |-> c, source |-> new[c].source, label |-> new[c].label,
          listed |-> new[c].listed, input |-> new[c].input]
       = [code |-> c, source |-> old[c].source, label |-> old[c].label,
          listed |-> old[c].listed, input |-> old[c].input]
  BY DEF SameReference
<1> QED BY <1>1, <1>2 DEF Hashed

\* The same of one row, for the rows a writer changes.
Same(old, new) ==
    /\ new.status = "authoritative" <=> old.status = "authoritative"
    /\ old.status = "authoritative" =>
         new.source = old.source /\ new.label = old.label /\ new.listed = old.listed /\ new.input = old.input

LEMMA ItemOf ==
    ASSUME NEW items, NEW c, c \in {i.code : i \in items}
    PROVE  ItemFor(items, c) \in items /\ ItemFor(items, c).code = c
BY DEF ItemFor

CallerStages == {"idle", "fetched", "dated", "frozen", "promoting", "boards", "naming"}
Read         == [Shards -> {items \in SUBSET Items : IsFiniteSet(items)}]
CallerRecord == [stage : CallerStages, answer : Read \cup {Failed}, at : Nat, fresh : Nat \cup {NoDay},
                 seen : SUBSET StockCodes, todo : SUBSET (CatalogItems \cup NameItems)]

\* What a caller knows at each stage of its request.
CallerSound(r) ==
    /\ r.stage \in {"fetched", "dated", "frozen", "promoting"} => r.answer \in Read
    /\ r.stage \in {"dated", "frozen", "promoting"} => r.fresh \in Nat
    /\ r.stage \in {"frozen", "promoting"} => Acceptable(r.answer, r.at, r.fresh)
    /\ r.stage = "boards" => r.todo \in SUBSET CatalogItems
    /\ r.stage = "naming" => r.todo \in SUBSET NameItems

IsSequence(s) == \E X : s \in Seq(X)

CallersInv ==
    /\ caller \in [Callers -> CallerRecord]
    /\ \A k \in Callers : CallerSound(caller[k])

\* The rows, and that an authoritative one always has a label.
ReferenceInv ==
    /\ StockTypeOK
    /\ IsSequence(reconciled)
    /\ \A c \in StockCodes : IsAuthoritative(c) => stock[c].label # NoLabel

\* A row that a writer other than a reconciliation may leave in the table.
Allowed(old, new) == new \in AnyRow /\ Same(old, new)

LEMMA AppendedIsSequence ==
    ASSUME NEW s, IsSequence(s), NEW e
    PROVE  /\ IsSequence(Append(s, e)) /\ Append(s, e) # << >>
           /\ Append(s, e)[Len(Append(s, e))] = e
<1>1. PICK X : s \in Seq(X)
  BY DEF IsSequence
<1>2. s \in Seq(X \cup {e}) /\ e \in X \cup {e}
  BY <1>1
<1> HIDE DEF IsSequence
<1>3. Append(s, e) \in Seq(X \cup {e}) /\ Len(Append(s, e)) = Len(s) + 1 /\ Append(s, e)[Len(s) + 1] = e
  BY <1>2
<1>4. Append(s, e) # << >>
  BY <1>2, <1>3
<1> QED BY <1>3, <1>4 DEF IsSequence

LEMMA DailyRow ==
    ASSUME ReferenceInv, NEW c \in StockCodes, NEW first \in Nat
    PROVE  /\ stock[c] = NoRow => Allowed(stock[c], Provisional("stock_daily_1d", NoLabel, first))
           /\ stock[c] # NoRow /\ Repairs(c) => Allowed(stock[c], Dayed(stock[c], first))
<1>1. stock[c] \in AnyRow
  BY DEF ReferenceInv, StockTypeOK, AnyRow
<1>2. ASSUME stock[c] = NoRow PROVE Allowed(stock[c], Provisional("stock_daily_1d", NoLabel, first))
  BY <1>1, <1>2, RowKinds, ProvisionalRow DEF Allowed, Same, AnyRow, Sources
<1>3. ASSUME stock[c] # NoRow, Repairs(c) PROVE Allowed(stock[c], Dayed(stock[c], first))
  <2>1. stock[c] \in RowsOf /\ stock[c].status # "authoritative"
    BY <1>1, <1>3, RowKinds DEF Repairs, IsAuthoritative
  <2> QED BY <2>1, EditedRow DEF Allowed, Same, AnyRow
<1> QED BY <1>2, <1>3

LEMMA CatalogRowAllowed ==
    ASSUME ReferenceInv, NEW c \in StockCodes, NEW i \in CatalogItems
    PROVE  Allowed(stock[c], CatalogRow(c, i))
<1>1. stock[c] \in AnyRow
  BY DEF ReferenceInv, StockTypeOK, AnyRow
<1>2. i.label \in Labels \cup {NoLabel} /\ i.listed \in Nat \cup {NoDay}
  BY DEF CatalogItems
<1>3. CASE stock[c] = NoRow
  <2>1. CatalogRow(c, i) = Boarded(Provisional("catalog_partial", i.label, i.listed), i.label)
    BY <1>3 DEF CatalogRow, Boarded
  <2>2. Provisional("catalog_partial", i.label, i.listed) \in RowsOf
    BY <1>2, ProvisionalRow DEF Sources
  <2>3. Provisional("catalog_partial", i.label, i.listed).status = "provisional"
    BY <1>2, ProvisionalRow DEF Sources
  <2> QED BY <1>1, <1>2, <1>3, <2>1, <2>2, <2>3, EditedRow, RowKinds DEF Allowed, Same, AnyRow
<1>4. CASE IsAuthoritative(c)
  <2>1. CatalogRow(c, i) = stock[c]
    BY <1>1, <1>4, RowKinds DEF CatalogRow, IsAuthoritative
  <2> QED BY <1>1, <2>1 DEF Allowed, Same
<1>5. CASE stock[c] # NoRow /\ ~IsAuthoritative(c)
  <2> DEFINE source == IF stock[c].source = "legacy" THEN "catalog_partial" ELSE stock[c].source
  <2>1. stock[c] \in RowsOf
    BY <1>1, <1>5, RowKinds
  <2>2. source \in Sources
    BY <2>1 DEF RowsOf, Sources
  <2>3. CatalogRow(c, i) = Catalogued(stock[c], i, source)
    BY <1>5 DEF CatalogRow, Catalogued
  <2> HIDE DEF source
  <2> QED BY <1>5, <2>1, <2>2, <2>3, CataloguedRow DEF Allowed, Same, AnyRow, IsAuthoritative
<1> QED BY <1>3, <1>4, <1>5

LEMMA BoardAllowed ==
    ASSUME ReferenceInv, NEW c \in StockCodes, stock[c] # NoRow, NEW label \in Labels
    PROVE  Allowed(stock[c], Boarded(stock[c], label))
<1>1. stock[c] \in RowsOf
  BY RowKinds DEF ReferenceInv, StockTypeOK, AnyRow
<1> QED BY <1>1, EditedRow DEF Allowed, Same, AnyRow

LEMMA NameAllowed ==
    ASSUME ReferenceInv, NEW c \in StockCodes, NEW label \in Labels
    PROVE  /\ stock[c] = NoRow => Allowed(stock[c], Provisional("legacy", label, NoDay))
           /\ stock[c] # NoRow /\ stock[c].label = NoLabel => Allowed(stock[c], Labelled(stock[c], label))
<1>1. stock[c] \in AnyRow
  BY DEF ReferenceInv, StockTypeOK, AnyRow
<1>2. ASSUME stock[c] = NoRow PROVE Allowed(stock[c], Provisional("legacy", label, NoDay))
  BY <1>1, <1>2, RowKinds, ProvisionalRow DEF Allowed, Same, AnyRow, Sources
<1>3. ASSUME stock[c] # NoRow, stock[c].label = NoLabel PROVE Allowed(stock[c], Labelled(stock[c], label))
  <2>1. stock[c] \in RowsOf /\ stock[c].status # "authoritative"
    BY <1>1, <1>3, RowKinds DEF ReferenceInv, IsAuthoritative
  <2> QED BY <2>1, EditedRow DEF Allowed, Same, AnyRow
<1> QED BY <1>2, <1>3

\* Every writer but the reconciliation keeps the authoritative rows, whatever it
\* read before.
OtherRows == /\ stock' \in [StockCodes -> AnyRow]
             /\ \A c \in StockCodes : Same(stock[c], stock'[c])

LEMMA OtherWriters ==
    ASSUME CallersInv, ReferenceInv, NEW k \in Callers,
           WriteDaily(k) \/ UpsertCatalog(k) \/ UpdateBoards(k) \/ FillNames(k)
    PROVE  OtherRows
<1>0. /\ stock \in [StockCodes -> AnyRow] /\ dailyDays \subseteq StockCodes \X Days /\ Days \subseteq Nat
      /\ caller[k] \in CallerRecord /\ CallerSound(caller[k])
  BY DEF CallersInv, ReferenceInv, StockTypeOK, AnyRow, Days
<1>1. CASE WriteDaily(k)
  <2>1. PICK c \in StockCodes, d \in Days :
          stock' = [stock EXCEPT ![c] =
              IF @ = NoRow THEN Provisional("stock_daily_1d", NoLabel, Min({d} \cup {e \in Days : <<c, e>> \in dailyDays}))
              ELSE IF Repairs(c) THEN [@ EXCEPT !.listed = Min({d} \cup {e \in Days : <<c, e>> \in dailyDays})] ELSE @]
    BY <1>1, Zenon DEF WriteDaily
  <2> DEFINE first == Min({d} \cup {e \in Days : <<c, e>> \in dailyDays})
  <2>2. first \in Nat
    BY <1>0, FirstOf
  <2>3. stock' = [stock EXCEPT ![c] = IF stock[c] = NoRow THEN Provisional("stock_daily_1d", NoLabel, first)
                                      ELSE IF Repairs(c) THEN Dayed(stock[c], first) ELSE stock[c]]
    BY <2>1 DEF Dayed
  <2> HIDE DEF first
  <2>4. /\ stock[c] = NoRow => Allowed(stock[c], Provisional("stock_daily_1d", NoLabel, first))
        /\ stock[c] # NoRow /\ Repairs(c) => Allowed(stock[c], Dayed(stock[c], first))
    BY <2>2, DailyRow
  <2>5. PICK new : stock' = [stock EXCEPT ![c] = new] /\ Allowed(stock[c], new)
    BY <1>0, <2>3, <2>4 DEF Allowed, Same
  <2> QED BY <1>0, <2>5 DEF OtherRows, Allowed, Same
<1>2. CASE UpsertCatalog(k)
  <2>1. PICK items \in Catalogs :
          stock' = [c \in StockCodes |-> IF c \in {i.code : i \in items} THEN CatalogRow(c, ItemFor(items, c)) ELSE stock[c]]
    BY <1>2, Zenon DEF UpsertCatalog
  <2>2. items \subseteq CatalogItems
    BY StockAssumption DEF StockAssumption, CatalogItems
  <2>3. ASSUME NEW c \in StockCodes, c \in {i.code : i \in items}
        PROVE  Allowed(stock[c], CatalogRow(c, ItemFor(items, c)))
    <3>1. ItemFor(items, c) \in CatalogItems
      BY <2>2, <2>3, ItemOf
    <3> QED BY <3>1, CatalogRowAllowed
  <2> QED BY <1>0, <2>1, <2>3 DEF OtherRows, Allowed, Same
<1>3. CASE UpdateBoards(k)
  <2> DEFINE items == caller[k].todo
  <2>1. stock' = [c \in StockCodes |-> IF c \in {i.code : i \in items} /\ stock[c] # NoRow
                                       THEN Boarded(stock[c], ItemFor(items, c).label) ELSE stock[c]]
    BY <1>3 DEF UpdateBoards, Boarded
  <2>2. items \subseteq CatalogItems
    BY <1>0, <1>3 DEF UpdateBoards, Stage, CallerSound
  <2>3. ASSUME NEW c \in StockCodes, c \in {i.code : i \in items}, stock[c] # NoRow
        PROVE  Allowed(stock[c], Boarded(stock[c], ItemFor(items, c).label))
    <3>1. ItemFor(items, c).label \in Labels
      BY <2>2, <2>3, ItemOf DEF CatalogItems
    <3> QED BY <2>3, <3>1, BoardAllowed
  <2> HIDE DEF items
  <2> QED BY <1>0, <2>1, <2>3 DEF OtherRows, Allowed, Same
<1>4. CASE FillNames(k)
  <2> DEFINE items == caller[k].todo
  <2>1. stock' = [c \in StockCodes |->
                    IF c \notin {i.code : i \in items} THEN stock[c]
                    ELSE IF stock[c] = NoRow THEN Provisional("legacy", ItemFor(items, c).label, NoDay)
                    ELSE IF stock[c].label = NoLabel THEN Labelled(stock[c], ItemFor(items, c).label)
                    ELSE stock[c]]
    BY <1>4 DEF FillNames, Labelled
  <2>2. items \subseteq NameItems
    BY <1>0, <1>4 DEF FillNames, Stage, CallerSound
  <2>3. ASSUME NEW c \in StockCodes, c \in {i.code : i \in items}
        PROVE  /\ stock[c] = NoRow => Allowed(stock[c], Provisional("legacy", ItemFor(items, c).label, NoDay))
               /\ stock[c] # NoRow /\ stock[c].label = NoLabel =>
                    Allowed(stock[c], Labelled(stock[c], ItemFor(items, c).label))
    <3>1. ItemFor(items, c).label \in Labels
      BY <2>2, <2>3, ItemOf DEF NameItems
    <3> QED BY <3>1, NameAllowed
  <2> HIDE DEF items
  <2> QED BY <1>0, <2>1, <2>3 DEF OtherRows, Allowed, Same
<1> QED BY <1>1, <1>2, <1>3, <1>4

LEMMA ReferenceKept ==
    ASSUME ReferenceInv, OtherRows
    PROVE  /\ stock' \in [StockCodes -> AnyRow]
           /\ \A c \in StockCodes : stock'[c].status = "authoritative" => stock'[c].label # NoLabel
           /\ Hashed(stock') = Hashed(stock)
<1>1. SameReference(stock, stock')
  BY DEF OtherRows, Same, SameReference
<1>2. Hashed(stock') = Hashed(stock)
  BY <1>1, HashedAlike
<1>3. \A c \in StockCodes : stock'[c].status = "authoritative" => stock'[c].label # NoLabel
  BY DEF OtherRows, Same, ReferenceInv, IsAuthoritative
<1> QED BY <1>2, <1>3 DEF OtherRows

\* An input that was accepted: its items have labels, its day was complete.
LEMMA InputAccepted ==
    ASSUME CallersInv, NEW k \in Callers, Acceptable(caller[k].answer, caller[k].at, caller[k].fresh),
           caller[k].stage \in {"dated", "frozen", "promoting"}
    PROVE  /\ \A x \in InputOf(k).items : x \in Items /\ x.label # NoLabel
           /\ InputOf(k).fresh \in Nat /\ InputOf(k).fresh <= InputOf(k).at \div 2
<1>0. /\ caller[k] \in CallerRecord /\ CallerSound(caller[k]) /\ caller[k].answer \in Read
      /\ caller[k].at \in Nat /\ caller[k].fresh \in Nat
  BY DEF CallersInv, CallerSound, CallerRecord
<1>1. \A p \in Placed(caller[k].answer) : p[2] \in Items
  BY <1>0 DEF Placed, Read
<1>2. \A p \in Placed(caller[k].answer) : p[2].label # NoLabel
  BY DEF Acceptable
<1>3. InputOf(k).items = {p[2] : p \in Placed(caller[k].answer)}
  BY DEF InputOf
<1>4. InputOf(k).fresh = caller[k].fresh /\ InputOf(k).at = caller[k].at
  BY DEF InputOf
<1>5. caller[k].fresh <= caller[k].at \div 2
  BY <1>0 DEF Acceptable
<1> QED BY <1>0, <1>1, <1>2, <1>3, <1>4, <1>5

LEMMA PromotedRows ==
    ASSUME CallersInv, ReferenceInv, NEW k \in Callers, Stage(k, "promoting")
    PROVE  /\ Promoted(k) \in [StockCodes -> AnyRow]
           /\ \A c \in StockCodes : Promoted(k)[c].status = "authoritative" => Promoted(k)[c].label # NoLabel
<1>0. stock \in [StockCodes -> AnyRow] /\ Len(reconciled) + 1 \in Nat
  <2>1. PICK X : reconciled \in Seq(X)
    BY DEF ReferenceInv, IsSequence
  <2> QED BY <2>1 DEF ReferenceInv, StockTypeOK, AnyRow
<1>1. \A x \in InputOf(k).items : x \in Items /\ x.label # NoLabel
  BY InputAccepted DEF CallersInv, CallerSound, Stage
<1>2. ASSUME NEW c \in StockCodes
      PROVE  Promoted(k)[c] \in AnyRow /\ (Promoted(k)[c].status = "authoritative" => Promoted(k)[c].label # NoLabel)
  <2>1. CASE c \notin Incoming(k)
    <3>1. Promoted(k)[c] = stock[c]
      BY <2>1 DEF Promoted
    <3> QED BY <1>0, <3>1 DEF ReferenceInv, IsAuthoritative
  <2>2. CASE c \in Incoming(k)
    <3> DEFINE i == CHOOSE x \in InputOf(k).items : x.code = c
    <3>1. i \in InputOf(k).items
      BY <2>2 DEF Incoming
    <3>2. i \in Items /\ i.label # NoLabel
      BY <1>1, <3>1
    <3>3. Promoted(k)[c] = [status |-> "authoritative", source |-> "tushare_catalog", label |-> i.label,
                            board |-> i.label, listed |-> i.listed, input |-> Len(reconciled) + 1]
      BY <2>2 DEF Promoted
    <3> HIDE DEF i
    <3> QED BY <1>0, <3>2, <3>3 DEF AnyRow, RowsOf, Items, Sources
  <2> QED BY <2>1, <2>2
<1>3. Promoted(k) \in [StockCodes -> AnyRow]
  <2>1. \A c \in StockCodes : Promoted(k)[c] \in AnyRow
    BY <1>2
  <2>2. Promoted(k) = [c \in StockCodes |-> Promoted(k)[c]]
    BY DEF Promoted
  <2> QED BY <2>1, <2>2, Zenon
<1> QED BY <1>2, <1>3

\* The callers: every request that goes on knows what its next step needs.
LEMMA IdleSound == StockIdle \in CallerRecord /\ CallerSound(StockIdle)
BY DEF StockIdle, Waiting, CallerRecord, CallerStages, CallerSound

LEMMA FetchedSound ==
    ASSUME NEW answer \in Read, NEW at \in Nat
    PROVE  /\ [Waiting("fetched", answer) EXCEPT !.at = at] \in CallerRecord
           /\ CallerSound([Waiting("fetched", answer) EXCEPT !.at = at])
BY DEF Waiting, CallerRecord, CallerStages, CallerSound

LEMMA BoardsSound ==
    ASSUME NEW todo \in SUBSET CatalogItems
    PROVE  /\ [Waiting("boards", Failed) EXCEPT !.todo = todo] \in CallerRecord
           /\ CallerSound([Waiting("boards", Failed) EXCEPT !.todo = todo])
BY DEF Waiting, CallerRecord, CallerStages, CallerSound

LEMMA NamingSound ==
    ASSUME NEW todo \in SUBSET NameItems
    PROVE  /\ [Waiting("naming", Failed) EXCEPT !.todo = todo] \in CallerRecord
           /\ CallerSound([Waiting("naming", Failed) EXCEPT !.todo = todo])
BY DEF Waiting, CallerRecord, CallerStages, CallerSound

DatedCaller(r, day)     == [r EXCEPT !.stage = "dated", !.fresh = day]
FrozenCaller(r)         == [r EXCEPT !.stage = "frozen"]
PromotingCaller(r, seen) == [r EXCEPT !.stage = "promoting", !.seen = seen]

LEMMA AdvancedSound ==
    ASSUME NEW r \in CallerRecord, CallerSound(r), NEW day \in Nat, NEW seen \in SUBSET StockCodes
    PROVE  /\ r.stage = "fetched" => DatedCaller(r, day) \in CallerRecord /\ CallerSound(DatedCaller(r, day))
           /\ r.stage = "dated" /\ Acceptable(r.answer, r.at, r.fresh) =>
                FrozenCaller(r) \in CallerRecord /\ CallerSound(FrozenCaller(r))
           /\ r.stage = "frozen" =>
                PromotingCaller(r, seen) \in CallerRecord /\ CallerSound(PromotingCaller(r, seen))
<1>1. ASSUME r.stage = "fetched" PROVE DatedCaller(r, day) \in CallerRecord /\ CallerSound(DatedCaller(r, day))
  BY <1>1 DEF CallerSound, CallerRecord, CallerStages, DatedCaller
<1>2. ASSUME r.stage = "dated", Acceptable(r.answer, r.at, r.fresh)
      PROVE  FrozenCaller(r) \in CallerRecord /\ CallerSound(FrozenCaller(r))
  BY <1>2 DEF CallerSound, CallerRecord, CallerStages, FrozenCaller
<1>3. ASSUME r.stage = "frozen"
      PROVE  PromotingCaller(r, seen) \in CallerRecord /\ CallerSound(PromotingCaller(r, seen))
  BY <1>3 DEF CallerSound, CallerRecord, CallerStages, PromotingCaller
<1> QED BY <1>1, <1>2, <1>3

LEMMA LatestDay ==
    ASSUME NEW at \in Nat, Eligible(at) # {}
    PROVE  Max(Eligible(at)) \in Nat
<1>1. Eligible(at) \subseteq Nat /\ \A d \in Eligible(at) : d <= Cutoff(at)
  BY StockAssumption DEF StockAssumption, Eligible
<1>2. Cutoff(at) \in Int
  BY DEF Cutoff
<1>3. Cutoff(at) \in Nat /\ Eligible(at) \in SUBSET (0..Cutoff(at))
  BY <1>1, <1>2
<1>4. Max(Eligible(at)) \in Eligible(at)
  BY <1>3, LastOf
<1> QED BY <1>1, <1>4

LEMMA CallerStep ==
    ASSUME CallersInv, StockTypeOK, NEW k \in Callers,
           \/ FetchShards(k) \/ LoadTradingDay(k) \/ FreezeInput(k) \/ SelectReference(k) \/ Promote(k)
           \/ WriteDaily(k) \/ UpsertCatalog(k) \/ UpdateBoards(k) \/ ReadNames(k) \/ FillNames(k) \/ GivesUp(k)
    PROVE  UNCHANGED caller \/ \E r \in CallerRecord : CallerSound(r) /\ Become(k, r)
<1>0. /\ caller[k] \in CallerRecord /\ CallerSound(caller[k])
      /\ stockNow \in Nat /\ caller[k].at \in Nat
      /\ StockIdle \in CallerRecord /\ CallerSound(StockIdle)
  BY IdleSound, StockAssumption DEF CallersInv, CallerRecord, StockTypeOK, StockAssumption
<1>1. CASE FetchShards(k)
  <2>1. PICK answer \in TushareAnswers :
          IF \E s \in Shards : answer[s] = Failed THEN UNCHANGED caller
          ELSE Become(k, [Waiting("fetched", answer) EXCEPT !.at = stockNow])
    BY <1>1, Zenon DEF FetchShards
  <2>2. CASE \A s \in Shards : answer[s] # Failed
    <3>1. answer \in Read
      BY <2>2, StockAssumption DEF StockAssumption, Read
    <3> QED BY <1>0, <2>1, <2>2, <3>1, FetchedSound
  <2> QED BY <2>1, <2>2
<1>2. CASE LoadTradingDay(k)
  <2>1. ASSUME Eligible(caller[k].at) # {}, Become(k, [caller[k] EXCEPT !.stage = "dated", !.fresh = Max(Eligible(caller[k].at))])
        PROVE  \E r \in CallerRecord : CallerSound(r) /\ Become(k, r)
    <3>1. Max(Eligible(caller[k].at)) \in Nat
      BY <1>0, <2>1, LatestDay
    <3>2. Become(k, DatedCaller(caller[k], Max(Eligible(caller[k].at)))) /\ caller[k].stage = "fetched"
      BY <1>2, <2>1 DEF LoadTradingDay, Stage, DatedCaller
    <3> QED BY <1>0, <3>1, <3>2, AdvancedSound
  <2> QED BY <1>0, <1>2, <2>1 DEF LoadTradingDay
<1>3. CASE FreezeInput(k)
  <2>1. CASE Acceptable(caller[k].answer, caller[k].at, caller[k].fresh)
    <3>1. Become(k, FrozenCaller(caller[k])) /\ caller[k].stage = "dated"
      BY <1>3, <2>1 DEF FreezeInput, Stage, FrozenCaller
    <3> QED BY <1>0, <2>1, <3>1, AdvancedSound
  <2> QED BY <1>0, <1>3, <2>1 DEF FreezeInput
<1>4. CASE SelectReference(k)
  <2>1. CASE InputOf(k) \notin frozen \/ PriorRun(InputOf(k))
    BY <1>0, <1>4, <2>1 DEF SelectReference
  <2>2. CASE ~(InputOf(k) \notin frozen \/ PriorRun(InputOf(k)))
    <3>1. Become(k, PromotingCaller(caller[k], {c \in StockCodes : stock[c] # NoRow})) /\ caller[k].stage = "frozen"
      BY <1>4, <2>2 DEF SelectReference, Stage, PromotingCaller
    <3>2. {c \in StockCodes : stock[c] # NoRow} \in SUBSET StockCodes
      OBVIOUS
    <3> QED BY <1>0, <3>1, <3>2, AdvancedSound
  <2> QED BY <2>1, <2>2
<1>5. CASE Promote(k) \/ UpdateBoards(k) \/ FillNames(k) \/ GivesUp(k)
  BY <1>0, <1>5 DEF Promote, UpdateBoards, FillNames, GivesUp
<1>6. CASE WriteDaily(k)
  BY <1>6 DEF WriteDaily
<1>7. CASE UpsertCatalog(k)
  <2>1. PICK items \in Catalogs : Become(k, [Waiting("boards", Failed) EXCEPT !.todo = items])
    BY <1>7, Zenon DEF UpsertCatalog
  <2>2. items \in SUBSET CatalogItems
    BY StockAssumption DEF StockAssumption, CatalogItems
  <2> QED BY <2>1, <2>2, BoardsSound
<1>8. CASE ReadNames(k)
  <2>1. PICK c \in StockCodes, label \in Labels :
          \/ Become(k, [Waiting("naming", Failed) EXCEPT !.todo = {[code |-> c, label |-> label]}])
          \/ UNCHANGED caller
    BY <1>8, Zenon DEF ReadNames
  <2>2. {[code |-> c, label |-> label]} \in SUBSET NameItems
    BY DEF NameItems
  <2> QED BY <2>1, <2>2, NamingSound
<1> QED BY <1>1, <1>2, <1>3, <1>4, <1>5, <1>6, <1>7, <1>8

LEMMA CallersStep == CallersInv /\ StockTypeOK /\ [StockNext]_stockVars => CallersInv'
<1> SUFFICES ASSUME CallersInv, StockTypeOK, [StockNext]_stockVars PROVE CallersInv'
  OBVIOUS
<1>1. CASE UNCHANGED caller
  BY <1>1 DEF CallersInv
<1>2. ASSUME NEW k \in Callers, NEW r \in CallerRecord, CallerSound(r), Become(k, r) PROVE CallersInv'
  BY <1>2 DEF CallersInv, Become
<1>3. CASE StockTick
  BY <1>1, <1>3 DEF StockTick
<1>4. CASE UNCHANGED stockVars
  BY <1>1, <1>4 DEF stockVars
<1> QED BY <1>1, <1>2, <1>3, <1>4, CallerStep, Zenon DEF StockNext

LEMMA ReferenceStep ==
    ASSUME CallersInv, ReferenceInv, OutputIsReference, [StockNext]_stockVars
    PROVE  ReferenceInv' /\ OutputIsReference'
<1>0. /\ stock \in [StockCodes -> RowsOf \cup {NoRow}] /\ dailyDays \subseteq StockCodes \X Days
      /\ publication \in Callers \cup {NoCaller} /\ stockNow \in 0..Moments /\ refreshes \in 0..Refreshes
      /\ \A r \in frozen : r.fresh \in Nat /\ r.fresh <= r.at \div 2
  BY DEF ReferenceInv, StockTypeOK
\* The other columns of the type invariant.
<1>1. /\ dailyDays' \subseteq StockCodes \X Days
      /\ publication' \in Callers \cup {NoCaller} /\ stockNow' \in 0..Moments /\ refreshes' \in 0..Refreshes
  <2>1. ASSUME NEW k \in Callers, FetchShards(k) PROVE refreshes' \in 0..Refreshes
    BY <1>0, <2>1, StockAssumption DEF FetchShards, StockAssumption
  <2>2. ASSUME StockTick PROVE stockNow' \in 0..Moments
    BY <1>0, <2>2, StockAssumption DEF StockTick, StockAssumption
  <2>3. ASSUME NEW k \in Callers, WriteDaily(k) PROVE dailyDays' \subseteq StockCodes \X Days
    <3>1. PICK c \in StockCodes, d \in Days : dailyDays' = dailyDays \cup {<<c, d>>}
      BY <2>3, Zenon DEF WriteDaily
    <3> QED BY <1>0, <3>1
  <2>4. ASSUME NEW k \in Callers, FetchShards(k)
        PROVE  UNCHANGED <<stockNow, dailyDays, publication>>
    BY <2>4 DEF FetchShards
  <2>5. ASSUME NEW k \in Callers, LoadTradingDay(k) \/ FreezeInput(k)
        PROVE  UNCHANGED <<stockNow, dailyDays, publication, refreshes>>
    BY <2>5 DEF LoadTradingDay, FreezeInput
  <2>6. ASSUME NEW k \in Callers, SelectReference(k) \/ Promote(k) \/ FillNames(k) \/ GivesUp(k) \/ ReadNames(k)
        PROVE  UNCHANGED <<stockNow, dailyDays, refreshes>> /\ publication' \in {publication, k, NoCaller}
    BY <2>6 DEF SelectReference, Promote, FillNames, GivesUp, ReadNames
  <2>7. ASSUME NEW k \in Callers, WriteDaily(k) PROVE UNCHANGED <<stockNow, publication, refreshes>>
    BY <2>7 DEF WriteDaily
  <2>8. ASSUME NEW k \in Callers, UpsertCatalog(k) \/ UpdateBoards(k)
        PROVE  UNCHANGED <<stockNow, dailyDays, publication, refreshes>>
    BY <2>8 DEF UpsertCatalog, UpdateBoards
  <2>9. ASSUME StockTick PROVE UNCHANGED <<dailyDays, publication, refreshes>>
    BY <2>9 DEF StockTick
  <2>10. CASE UNCHANGED stockVars
    BY <1>0, <2>10 DEF stockVars
  <2> QED BY <1>0, <2>1, <2>2, <2>3, <2>4, <2>5, <2>6, <2>7, <2>8, <2>9, <2>10 DEF StockNext
<1>2. \A r \in frozen' : r.fresh \in Nat /\ r.fresh <= r.at \div 2
  <2>1. ASSUME NEW k \in Callers, FreezeInput(k) PROVE \A r \in frozen' : r.fresh \in Nat /\ r.fresh <= r.at \div 2
    <3>1. CASE Acceptable(caller[k].answer, caller[k].at, caller[k].fresh)
      <4>1. frozen' = frozen \cup {InputOf(k)} /\ caller[k].stage = "dated"
        BY <2>1, <3>1 DEF FreezeInput, Persisted, Stage
      <4> QED BY <1>0, <3>1, <4>1, InputAccepted
    <3>2. CASE ~Acceptable(caller[k].answer, caller[k].at, caller[k].fresh)
      BY <1>0, <2>1, <3>2 DEF FreezeInput
    <3> QED BY <3>1, <3>2
  <2>2. ASSUME NEW k \in Callers, FetchShards(k) \/ LoadTradingDay(k) \/ SelectReference(k) \/ Promote(k)
        PROVE  frozen' = frozen
    BY <2>2 DEF FetchShards, LoadTradingDay, SelectReference, Promote, audit
  <2>3. ASSUME NEW k \in Callers,
               WriteDaily(k) \/ UpsertCatalog(k) \/ UpdateBoards(k) \/ ReadNames(k) \/ FillNames(k) \/ GivesUp(k)
        PROVE  frozen' = frozen
    BY <2>3 DEF WriteDaily, UpsertCatalog, UpdateBoards, ReadNames, FillNames, GivesUp, audit
  <2>4. ASSUME StockTick \/ UNCHANGED stockVars PROVE frozen' = frozen
    BY <2>4 DEF StockTick, stockVars, audit
  <2> QED BY <1>0, <2>1, <2>2, <2>3, <2>4 DEF StockNext
\* The rows, the reconciliations and their outputs.
<1>3. /\ stock' \in [StockCodes -> AnyRow] /\ IsSequence(reconciled)'
      /\ \A c \in StockCodes : stock'[c].status = "authoritative" => stock'[c].label # NoLabel
      /\ OutputIsReference'
  <2>1. ASSUME UNCHANGED <<stock, reconciled>>
        PROVE  /\ stock' \in [StockCodes -> AnyRow] /\ IsSequence(reconciled)'
               /\ \A c \in StockCodes : stock'[c].status = "authoritative" => stock'[c].label # NoLabel
               /\ OutputIsReference'
    BY <1>0, <2>1 DEF ReferenceInv, AnyRow, IsAuthoritative, OutputIsReference
  <2>2. ASSUME NEW k \in Callers, WriteDaily(k) \/ UpsertCatalog(k) \/ UpdateBoards(k) \/ FillNames(k)
        PROVE  /\ stock' \in [StockCodes -> AnyRow] /\ IsSequence(reconciled)'
               /\ \A c \in StockCodes : stock'[c].status = "authoritative" => stock'[c].label # NoLabel
               /\ OutputIsReference'
    <3>1. OtherRows
      BY <2>2, OtherWriters
    <3>2. reconciled' = reconciled
      BY <2>2 DEF WriteDaily, UpsertCatalog, UpdateBoards, FillNames, audit
    <3> QED BY <3>1, <3>2, ReferenceKept DEF ReferenceInv, OutputIsReference
  <2>3. ASSUME NEW k \in Callers, Promote(k)
        PROVE  /\ stock' \in [StockCodes -> AnyRow] /\ IsSequence(reconciled)'
               /\ \A c \in StockCodes : stock'[c].status = "authoritative" => stock'[c].label # NoLabel
               /\ OutputIsReference'
    <3> DEFINE e == [input |-> InputOf(k), inserted |-> Cardinality(InsertedCodes(k)),
                     promoted |-> Cardinality(PromotedCodes(k)), output |-> Hashed(Promoted(k))]
    <3>1. stock' = Promoted(k) /\ reconciled' = Append(reconciled, e) /\ Stage(k, "promoting")
      BY <2>3 DEF Promote
    <3>2. e.output = Hashed(stock')
      BY <3>1
    <3> HIDE DEF e
    <3>3. IsSequence(reconciled') /\ reconciled'[Len(reconciled')] = e
      BY <3>1, AppendedIsSequence DEF ReferenceInv
    <3> QED BY <3>1, <3>2, <3>3, PromotedRows DEF OutputIsReference
  <2>4. ASSUME NEW k \in Callers, FetchShards(k) \/ LoadTradingDay(k) \/ FreezeInput(k)
        PROVE  UNCHANGED <<stock, reconciled>>
    BY <2>4 DEF FetchShards, LoadTradingDay, FreezeInput
  <2>5. ASSUME NEW k \in Callers, SelectReference(k) \/ ReadNames(k) \/ GivesUp(k)
        PROVE  UNCHANGED <<stock, reconciled>>
    BY <2>5 DEF SelectReference, ReadNames, GivesUp, audit
  <2>6. ASSUME StockTick \/ UNCHANGED stockVars PROVE UNCHANGED <<stock, reconciled>>
    BY <2>6 DEF StockTick, stockVars, audit
  <2>7. CASE \E k \in Callers : WriteDaily(k) \/ UpsertCatalog(k) \/ UpdateBoards(k) \/ FillNames(k)
    BY <2>2, <2>7
  <2>8. CASE \E k \in Callers : Promote(k)
    BY <2>3, <2>8
  <2>9. CASE \E k \in Callers : FetchShards(k) \/ LoadTradingDay(k) \/ FreezeInput(k)
    BY <2>1, <2>4, <2>9
  <2>10. CASE \E k \in Callers : SelectReference(k) \/ ReadNames(k) \/ GivesUp(k)
    BY <2>1, <2>5, <2>10
  <2>11. CASE StockTick \/ UNCHANGED stockVars
    BY <2>1, <2>6, <2>11
  <2> QED BY <2>7, <2>8, <2>9, <2>10, <2>11 DEF StockNext
<1> QED BY <1>1, <1>2, <1>3 DEF ReferenceInv, StockTypeOK, AnyRow, IsAuthoritative

LEMMA ReferenceStart == StockInit => CallersInv /\ ReferenceInv /\ OutputIsReference
<1> SUFFICES ASSUME StockInit PROVE CallersInv /\ ReferenceInv /\ OutputIsReference
  OBVIOUS
<1>2. CallersInv
  BY IdleSound DEF StockInit, CallersInv
<1>3. IsSequence(reconciled) /\ reconciled = << >>
  BY DEF StockInit, IsSequence
<1>4. StockTypeOK
  BY StockAssumption DEF StockInit, StockTypeOK, StockAssumption
<1>5. \A c \in StockCodes : ~IsAuthoritative(c)
  BY DEF StockInit, IsAuthoritative, NoRow
<1> QED BY <1>2, <1>3, <1>4, <1>5 DEF ReferenceInv, OutputIsReference

\* Every reachable state is of the declared type: a frozen input is of a day
\* that was complete, and a row has the columns of ref.stock.
THEOREM StockTypeCorrect == StockSpec => []StockTypeOK
<1>1. ReferenceInv => StockTypeOK
  BY DEF ReferenceInv
<1> QED BY <1>1, ReferenceStart, CallersStep, ReferenceStep, PTL DEF StockSpec

\* The hash of the last reconciliation is that of the authoritative rows at any
\* later moment: daily facts, the catalogue, which takes no lock, and the names
\* of concept members keep the hashed columns of an authoritative row, and none
\* of them makes one (the where clauses of fact_ref_writes.py).
THEOREM OutputStays == StockSpec => []OutputIsReference
<1>1. ReferenceInv => StockTypeOK
  BY DEF ReferenceInv
<1> QED BY <1>1, ReferenceStart, CallersStep, ReferenceStep, PTL DEF StockSpec

-----------------------------------------------------------------------------
(* What the reconciliations account for.                                   *)

Audited(seq)  == FoldSeq(LAMBDA r, n : n + r.inserted + r.promoted, 0, seq)
AuditCounts(seq) == [i \in DOMAIN seq |-> seq[i].inserted + seq[i].promoted]
IsAudit(seq)  == IsSequence(seq) /\ \A i \in DOMAIN seq : seq[i].inserted \in Nat /\ seq[i].promoted \in Nat

\* The sum of a list of reconciliations, as a number of tickets.
LEMMA AuditIsCount ==
    ASSUME NEW seq, IsFiniteSet(DOMAIN seq),
           \A i \in DOMAIN seq : seq[i].inserted \in Nat /\ seq[i].promoted \in Nat
    PROVE  Audited(seq) = Cardinality(Tickets(DOMAIN seq, AuditCounts(seq)))
<1> DEFINE D == DOMAIN seq
           w == [i \in D |-> seq[i].inserted + seq[i].promoted]
           pick == [s \in SUBSET D |-> CHOOSE x \in s : TRUE]
           step == [y \in Nat \X D |-> w[y[2]] + y[1]]
           Sum(g) == g = [s \in SUBSET D |->
                           IF s = {} THEN 0
                           ELSE g[s \ {CHOOSE x \in s : TRUE}] + seq[CHOOSE x \in s : TRUE].inserted
                                  + seq[CHOOSE x \in s : TRUE].promoted]
           it == CHOOSE g : Sum(g)
<1>1. Picks(pick, D)
  BY DEF Picks
<1>2. \A v \in Nat, x \in D : step[<<v, x>>] \in Nat /\ step[<<v, x>>] = w[x] + v
  OBVIOUS
<1>3. \A x \in D : w[x] \in Nat /\ w[x] = seq[x].inserted + seq[x].promoted
  OBVIOUS
<1>4. PICK g \in [SUBSET D -> Nat] : Iterates(g, D, 0, step, pick)
  <2>1. IsFiniteSet(D) /\ 0 \in Nat /\ StepsIn(Nat, D, step)
    BY <1>2 DEF StepsIn
  <2> HIDE DEF pick, step, D, w
  <2> QED BY <1>1, <2>1, IteratorExists
<1>5. Sum(g)
  <2>1. ASSUME NEW s \in SUBSET D, s # {}
        PROVE  g[s] = g[s \ {pick[s]}] + seq[pick[s]].inserted + seq[pick[s]].promoted
    <3>1. pick[s] \in D /\ s \ {pick[s]} \in SUBSET D
      BY <1>1, <2>1 DEF Picks
    <3> DEFINE r == s \ {pick[s]}
               x == pick[s]
    <3>2. g[s] = step[<<g[r], x>>] /\ g[r] \in Nat /\ x \in D
      BY <1>4, <2>1, <3>1 DEF Iterates
    <3> HIDE DEF r, x, step, pick, w, D
    <3>3. g[s] = w[x] + g[r] /\ w[x] = seq[x].inserted + seq[x].promoted
      BY <1>2, <1>3, <3>2
    <3>4. seq[x].inserted \in Nat /\ seq[x].promoted \in Nat
      BY <3>2 DEF D
    <3> QED BY <3>2, <3>3, <3>4 DEF r, x
  <2>2. \A s \in SUBSET D : g[s] = IF s = {} THEN 0
                           ELSE g[s \ {CHOOSE x \in s : TRUE}] + seq[CHOOSE x \in s : TRUE].inserted
                                  + seq[CHOOSE x \in s : TRUE].promoted
    BY <1>4, <2>1 DEF Iterates
  <2> QED BY <2>2, Zenon
<1>6. Sum(it)
  <2> HIDE DEF Sum
  <2> QED BY <1>5
<1>7. Audited(seq) = it[D]
  BY DEF Audited, FoldSeq, FoldFunction, FoldFunctionOnSet, MapThenFoldSet
<1>8. Sums(it, D, w, pick)
  <2>1. it[{}] = 0
    BY <1>6, Zenon
  <2>2. ASSUME NEW s \in SUBSET D, s # {}, it[s \ {pick[s]}] \in Nat
        PROVE  it[s] = w[pick[s]] + it[s \ {pick[s]}]
    <3> DEFINE r == s \ {pick[s]}
               x == pick[s]
    <3>1. it[s] = it[r] + seq[x].inserted + seq[x].promoted
      BY <1>6, <2>2, Zenon
    <3>2. x \in D
      BY <1>1, <2>2 DEF Picks
    <3>3. seq[x].inserted \in Nat /\ seq[x].promoted \in Nat /\ w[x] = seq[x].inserted + seq[x].promoted
      BY <1>3, <3>2
    <3> HIDE DEF r, x, w, it, D
    <3> QED BY <2>2, <3>1, <3>3 DEF r, x
  <2> QED BY <2>1, <2>2 DEF Sums
<1> HIDE DEF it, w, pick, D
<1>9. it[D] = Cardinality(Tickets(D, w))
  BY <1>1, <1>3, <1>8, SumIsCount DEF D
<1> QED BY <1>7, <1>9 DEF D, w, AuditCounts

\* A reconciliation adds what it inserted and what it promoted.
LEMMA AuditAdds ==
    ASSUME NEW seq, IsAudit(seq), NEW e, e.inserted \in Nat, e.promoted \in Nat
    PROVE  /\ IsAudit(Append(seq, e))
           /\ Audited(Append(seq, e)) = Audited(seq) + (e.inserted + e.promoted)
<1>1. PICK X : seq \in Seq(X)
  BY DEF IsAudit, IsSequence
<1> DEFINE n == Len(seq)
           new == Append(seq, e)
<1>2. n \in Nat /\ DOMAIN seq = 1..n /\ seq \in Seq(X \cup {e})
  BY <1>1
<1>3. DOMAIN new = (1..n) \cup {n + 1} /\ (\A i \in 1..n : new[i] = seq[i]) /\ new[n + 1] = e
  BY <1>2
<1>4. IsAudit(new)
  BY <1>1, <1>2, <1>3, AppendedIsSequence DEF IsAudit
<1>5. IsFiniteSet(1..n) /\ IsFiniteSet((1..n) \cup {n + 1})
  <2>1. IsFiniteSet(1..n)
    BY <1>2, FS_Interval
  <2> HIDE DEF n
  <2> QED BY <2>1, FS_AddElement
<1> HIDE DEF new, n
<1>6. /\ Audited(seq) = Cardinality(Tickets(1..n, AuditCounts(seq)))
      /\ Audited(new) = Cardinality(Tickets((1..n) \cup {n + 1}, AuditCounts(new)))
  BY <1>2, <1>3, <1>4, <1>5, AuditIsCount DEF IsAudit
<1>7. Tickets(1..n, AuditCounts(seq)) = Tickets(1..n, AuditCounts(new))
  <2>1. \A i \in 1..n : AuditCounts(seq)[i] = AuditCounts(new)[i]
    BY <1>2, <1>3 DEF AuditCounts
  <2> QED BY <2>1 DEF Tickets
<1>8. AuditCounts(new)[n + 1] = e.inserted + e.promoted /\ n + 1 \notin 1..n /\ n \in Nat
  BY <1>2, <1>3 DEF AuditCounts
<1>9. IsFiniteSet(Tickets(1..n, AuditCounts(new)))
  <2>1. \A i \in 1..n : AuditCounts(new)[i] \in Nat
    BY <1>3, <1>4 DEF AuditCounts, IsAudit
  <2> QED BY <1>5, <2>1, TicketsFinite
<1>10. Cardinality(Tickets((1..n) \cup {n + 1}, AuditCounts(new)))
        = e.inserted + e.promoted + Cardinality(Tickets(1..n, AuditCounts(new)))
  <2> DEFINE w == AuditCounts(new)
             s == 1..n
             x == n + 1
             sum == e.inserted + e.promoted
  <2>1. x \notin s /\ w[x] \in Nat /\ w[x] = sum /\ IsFiniteSet(Tickets(s, w))
    BY <1>8, <1>9
  <2> HIDE DEF w, s, x, sum
  <2>2. Cardinality(Tickets(s \cup {x}, w)) = sum + Cardinality(Tickets(s, w))
    BY <2>1, TicketsAdded
  <2> QED BY <2>2 DEF w, s, x, sum
<1>11. Cardinality(Tickets(1..n, AuditCounts(new))) \in Nat
  BY <1>9, FS_CardinalityType
<1> QED BY <1>4, <1>6, <1>7, <1>10, <1>11 DEF new

\* A reconciliation at work holds the lock, as does a caller that fills names, and
\* it selected every row that is authoritative: nobody else makes one.
AuthoritativeCodes == {c \in StockCodes : IsAuthoritative(c)}
HoldsLock(r) == r.stage \in {"promoting", "naming"}

AuditInv ==
    /\ IsAudit(reconciled)
    /\ IsFiniteSet(AuthoritativeCodes)
    /\ Cardinality(AuthoritativeCodes) = Audited(reconciled)
    /\ \A k \in Callers : /\ HoldsLock(caller[k]) => publication = k
                          /\ caller[k].stage = "promoting" => AuthoritativeCodes \subseteq caller[k].seen

LEMMA IncomingFinite ==
    ASSUME CallersInv, NEW k \in Callers, Stage(k, "promoting")
    PROVE  IsFiniteSet(Incoming(k)) /\ Incoming(k) \subseteq StockCodes
<1> DEFINE answer == caller[k].answer
           all == answer["listed"] \cup answer["pending"] \cup answer["delisted"]
<1>1. answer \in Read
  BY DEF CallersInv, CallerSound, Stage
<1>2. \A s \in Shards : IsFiniteSet(answer[s]) /\ answer[s] \subseteq Items
  BY <1>1 DEF Read
<1>3. IsFiniteSet(all) /\ all \subseteq Items
  BY <1>2, FS_Union DEF Shards
<1>4. Incoming(k) = {i.code : i \in all}
  <2>1. \A i : i \in InputOf(k).items <=> \E s \in Shards : i \in answer[s]
    <3>1. \A p : p \in Placed(answer) <=> \E s \in Shards : \E i \in answer[s] : p = <<s, i>>
      BY DEF Placed
    <3>2. InputOf(k).items = {p[2] : p \in Placed(answer)}
      BY DEF InputOf
    <3>3. ASSUME NEW s \in Shards, NEW i \in answer[s] PROVE i \in InputOf(k).items
      <4>1. <<s, i>> \in Placed(answer) /\ <<s, i>>[2] = i
        BY <3>1, <3>3
      <4> QED BY <3>2, <4>1
    <3>4. ASSUME NEW i \in InputOf(k).items PROVE \E s \in Shards : i \in answer[s]
      <4>1. PICK p \in Placed(answer) : i = p[2]
        BY <3>2
      <4> QED BY <3>1, <4>1
    <3> QED BY <3>3, <3>4
  <2>2. \A i : i \in InputOf(k).items <=> i \in all
    BY <2>1 DEF Shards
  <2> HIDE DEF all
  <2> QED BY <2>2 DEF Incoming
<1> HIDE DEF all
<1>5. IsFiniteSet({i.code : i \in all})
  <2> DEFINE image == [i \in all |-> i.code]
             codes == {i.code : i \in all}
  <2>1. image \in Surjection(all, codes)
    BY DEF Surjection
  <2> HIDE DEF image, codes
  <2>2. IsFiniteSet(codes)
    BY <1>3, <2>1, FS_Surjection
  <2> QED BY <2>2 DEF codes
<1> QED BY <1>3, <1>4, <1>5 DEF Items

LEMMA PromotedAudited ==
    ASSUME CallersInv, ReferenceInv, AuditInv, NEW k \in Callers, Promote(k)
    PROVE  /\ IsAudit(reconciled') /\ IsFiniteSet(AuthoritativeCodes')
           /\ Cardinality(AuthoritativeCodes') = Audited(reconciled')
<1> DEFINE old == AuthoritativeCodes
           fresh == InsertedCodes(k)
           raised == PromotedCodes(k)
           e == [input |-> InputOf(k), inserted |-> Cardinality(fresh),
                 promoted |-> Cardinality(raised), output |-> Hashed(Promoted(k))]
<1>1. stock' = Promoted(k) /\ reconciled' = Append(reconciled, e) /\ Stage(k, "promoting")
  BY DEF Promote
<1>2. IsFiniteSet(Incoming(k)) /\ Incoming(k) \subseteq StockCodes /\ IsFiniteSet(old)
      /\ old \subseteq caller[k].seen
  BY <1>1, IncomingFinite DEF AuditInv, Stage
<1>3. AuthoritativeCodes' = old \cup Incoming(k)
  <2>1. \A c \in StockCodes : c \in Incoming(k) => stock'[c].status = "authoritative"
    BY <1>1 DEF Promoted
  <2>2. \A c \in StockCodes : c \notin Incoming(k) => stock'[c] = stock[c]
    BY <1>1 DEF Promoted
  <2> QED BY <1>2, <2>1, <2>2 DEF AuthoritativeCodes, IsAuthoritative
<1>4. /\ old \cup Incoming(k) = (old \cup fresh) \cup raised
      /\ old \cap fresh = {} /\ (old \cup fresh) \cap raised = {}
  BY <1>2 DEF AuthoritativeCodes, InsertedCodes, PromotedCodes
<1>5. IsFiniteSet(fresh) /\ IsFiniteSet(raised)
  <2>1. fresh \subseteq Incoming(k) /\ raised \subseteq Incoming(k)
    BY DEF InsertedCodes, PromotedCodes
  <2> QED BY <1>2, <2>1, FS_Subset
<1>6. e.inserted = Cardinality(fresh) /\ e.promoted = Cardinality(raised)
  OBVIOUS
<1> HIDE DEF old, fresh, raised, e
<1>7. /\ IsFiniteSet((old \cup fresh) \cup raised)
      /\ Cardinality((old \cup fresh) \cup raised) = Cardinality(old) + Cardinality(fresh) + Cardinality(raised)
  <2>0. Cardinality({}) = 0
    BY FS_EmptySet
  <2>1. IsFiniteSet(old \cup fresh)
        /\ Cardinality(old \cup fresh) = Cardinality(old) + Cardinality(fresh) - Cardinality({})
    BY <1>2, <1>4, <1>5, FS_Union
  <2>2. IsFiniteSet((old \cup fresh) \cup raised)
        /\ Cardinality((old \cup fresh) \cup raised)
             = Cardinality(old \cup fresh) + Cardinality(raised) - Cardinality({})
    BY <1>4, <1>5, <2>1, FS_Union
  <2>3. Cardinality(old) \in Nat /\ Cardinality(fresh) \in Nat /\ Cardinality(raised) \in Nat
    BY <1>2, <1>5, FS_CardinalityType
  <2> QED BY <2>0, <2>1, <2>2, <2>3
<1>8. Cardinality(old) \in Nat /\ Cardinality(fresh) \in Nat /\ Cardinality(raised) \in Nat
  BY <1>2, <1>5, FS_CardinalityType
<1>9. /\ IsAudit(Append(reconciled, e))
      /\ Audited(Append(reconciled, e)) = Audited(reconciled) + (e.inserted + e.promoted)
  BY <1>6, <1>8, AuditAdds DEF AuditInv
<1>10. Cardinality(old) = Audited(reconciled)
  BY DEF AuditInv, old
<1>11. IsAudit(reconciled') /\ IsFiniteSet(AuthoritativeCodes')
  BY <1>1, <1>3, <1>4, <1>7, <1>9
<1>12. Cardinality(AuthoritativeCodes') = Audited(reconciled')
  <2>1. Cardinality(AuthoritativeCodes') = Cardinality(old) + Cardinality(fresh) + Cardinality(raised)
    BY <1>3, <1>4, <1>7
  <2>2. Audited(reconciled') = Cardinality(old) + (Cardinality(fresh) + Cardinality(raised))
    BY <1>1, <1>6, <1>9, <1>10
  <2> QED BY <1>8, <2>1, <2>2
<1> QED BY <1>11, <1>12

\* The lock is held as before, whatever a caller without it does.
LocksKept(k) ==
    /\ \A j \in Callers \ {k} : caller'[j] = caller[j] /\ (HoldsLock(caller[j]) => publication' = j)
    /\ HoldsLock(caller'[k]) => publication' = k
    /\ caller'[k].stage = "promoting" => AuthoritativeCodes \subseteq caller'[k].seen

LEMMA LocksStep ==
    ASSUME CallersInv, ReferenceInv, AuditInv, NEW k \in Callers,
           \/ FetchShards(k) \/ LoadTradingDay(k) \/ FreezeInput(k) \/ SelectReference(k) \/ Promote(k)
           \/ WriteDaily(k) \/ UpsertCatalog(k) \/ UpdateBoards(k) \/ ReadNames(k) \/ FillNames(k) \/ GivesUp(k)
    PROVE  LocksKept(k)
<1>0. /\ caller \in [Callers -> CallerRecord] /\ publication \in Callers \cup {NoCaller}
      /\ NoCaller \notin Callers
      /\ \A j \in Callers : HoldsLock(caller[j]) => publication = j
      /\ \A j \in Callers : caller[j].stage = "promoting" => AuthoritativeCodes \subseteq caller[j].seen
  BY StockAssumption DEF CallersInv, ReferenceInv, StockTypeOK, StockAssumption, NoCaller, AuditInv
<1>1. ASSUME NEW r, Become(k, r), ~HoldsLock(r),
             \/ publication' = publication
             \/ publication \in {k, NoCaller} /\ publication' = NoCaller
      PROVE  LocksKept(k)
  <2>1. caller'[k] = r /\ \A j \in Callers \ {k} : caller'[j] = caller[j]
    BY <1>0, <1>1 DEF Become
  <2>2. ASSUME NEW j \in Callers \ {k}, HoldsLock(caller[j]) PROVE publication' = j
    BY <1>0, <1>1, <2>2
  <2>3. caller'[k].stage # "promoting"
    BY <1>1, <2>1 DEF HoldsLock
  <2> QED BY <1>1, <2>1, <2>2, <2>3 DEF LocksKept
<1>2. ASSUME UNCHANGED <<caller, publication>> PROVE LocksKept(k)
  BY <1>0, <1>2 DEF LocksKept, HoldsLock
<1>3. ASSUME NEW r, Become(k, r), publication = NoCaller, publication' = k,
             r.stage = "promoting" => AuthoritativeCodes \subseteq r.seen
      PROVE  LocksKept(k)
  <2>1. caller'[k] = r /\ \A j \in Callers \ {k} : caller'[j] = caller[j]
    BY <1>0, <1>3 DEF Become
  <2>2. \A j \in Callers : ~HoldsLock(caller[j])
    BY <1>0, <1>3
  <2> QED BY <1>3, <2>1, <2>2 DEF LocksKept
<1>4. ~HoldsLock(StockIdle) /\ \A a : ~HoldsLock(Waiting("fetched", a)) /\ ~HoldsLock(Waiting("boards", a))
  BY DEF StockIdle, Waiting, HoldsLock
<1>5. CASE FetchShards(k)
  <2>1. \/ UNCHANGED caller
        \/ \E answer \in TushareAnswers : Become(k, [Waiting("fetched", answer) EXCEPT !.at = stockNow])
    BY <1>5, Zenon DEF FetchShards
  <2>2. publication' = publication
    BY <1>5 DEF FetchShards
  <2>3. \A answer : ~HoldsLock([Waiting("fetched", answer) EXCEPT !.at = stockNow])
    BY DEF Waiting, HoldsLock
  <2> QED BY <1>1, <1>2, <2>1, <2>2, <2>3
<1>6. CASE LoadTradingDay(k)
  <2>1. \/ Become(k, StockIdle)
        \/ Become(k, [caller[k] EXCEPT !.stage = "dated", !.fresh = Max(Eligible(caller[k].at))])
    BY <1>6 DEF LoadTradingDay
  <2>2. publication' = publication
    BY <1>6 DEF LoadTradingDay
  <2>3. ~HoldsLock([caller[k] EXCEPT !.stage = "dated", !.fresh = Max(Eligible(caller[k].at))])
    BY <1>0 DEF HoldsLock, CallerRecord
  <2> QED BY <1>1, <1>4, <2>1, <2>2, <2>3
<1>7. CASE FreezeInput(k)
  <2>1. Become(k, StockIdle) \/ Become(k, [caller[k] EXCEPT !.stage = "frozen"])
    BY <1>7 DEF FreezeInput
  <2>2. publication' = publication
    BY <1>7 DEF FreezeInput
  <2>3. ~HoldsLock([caller[k] EXCEPT !.stage = "frozen"])
    BY <1>0 DEF HoldsLock, CallerRecord
  <2> QED BY <1>1, <1>4, <2>1, <2>2, <2>3
<1>8. CASE SelectReference(k)
  <2> DEFINE there == {c \in StockCodes : stock[c] # NoRow}
             r == [caller[k] EXCEPT !.stage = "promoting", !.seen = there]
  <2>1. \/ Become(k, StockIdle) /\ publication' = publication
        \/ Become(k, r) /\ publication = NoCaller /\ publication' = k
    BY <1>8 DEF SelectReference
  <2>2. r.seen = there
    BY <1>0 DEF CallerRecord
  <2>3. AuthoritativeCodes \subseteq there
    BY RowKinds DEF AuthoritativeCodes, IsAuthoritative, NoRow
  <2> HIDE DEF r, there
  <2> QED BY <1>1, <1>3, <1>4, <2>1, <2>2, <2>3
<1>9. CASE Promote(k) \/ FillNames(k)
  <2>1. Become(k, StockIdle) /\ publication' = NoCaller /\ caller[k].stage \in {"promoting", "naming"}
    BY <1>9 DEF Promote, FillNames, Stage
  <2>2. publication = k
    BY <1>0, <2>1 DEF HoldsLock
  <2> QED BY <1>1, <1>4, <2>1, <2>2
<1>10. CASE WriteDaily(k)
  BY <1>2, <1>10 DEF WriteDaily
<1>11. CASE UpsertCatalog(k)
  <2>1. \E items : Become(k, [Waiting("boards", Failed) EXCEPT !.todo = items])
    BY <1>11, Zenon DEF UpsertCatalog
  <2>2. publication' = publication
    BY <1>11 DEF UpsertCatalog
  <2>3. \A items : ~HoldsLock([Waiting("boards", Failed) EXCEPT !.todo = items])
    BY DEF Waiting, HoldsLock
  <2> QED BY <1>1, <2>1, <2>2, <2>3
<1>12. CASE UpdateBoards(k)
  BY <1>1, <1>4, <1>12 DEF UpdateBoards
<1>13. CASE ReadNames(k)
  <2>1. \/ UNCHANGED <<caller, publication>>
        \/ publication = NoCaller /\ publication' = k
           /\ \E todo : Become(k, [Waiting("naming", Failed) EXCEPT !.todo = todo])
    BY <1>13, Zenon DEF ReadNames
  <2>2. \A todo : [Waiting("naming", Failed) EXCEPT !.todo = todo].stage = "naming"
    BY DEF Waiting
  <2> QED BY <1>2, <1>3, <2>1, <2>2
<1>14. CASE GivesUp(k)
  <2>1. Become(k, StockIdle) /\ publication' = IF publication = k THEN NoCaller ELSE publication
    BY <1>14 DEF GivesUp
  <2> QED BY <1>1, <1>4, <2>1
<1> QED BY <1>5, <1>6, <1>7, <1>8, <1>9, <1>10, <1>11, <1>12, <1>13, <1>14

LEMMA AuditStep ==
    ASSUME CallersInv, ReferenceInv, AuditInv, [StockNext]_stockVars
    PROVE  AuditInv'
<1>1. ASSUME AuthoritativeCodes' = AuthoritativeCodes, UNCHANGED reconciled,
             \/ UNCHANGED <<caller, publication>>
             \/ \E k \in Callers : LocksKept(k)
      PROVE  AuditInv'
  BY <1>1 DEF AuditInv, LocksKept
<1>2. ASSUME NEW k \in Callers,
             \/ FetchShards(k) \/ LoadTradingDay(k) \/ FreezeInput(k) \/ SelectReference(k)
             \/ ReadNames(k) \/ GivesUp(k)
      PROVE  AuditInv'
  <2>1. UNCHANGED <<stock, reconciled>>
    BY <1>2 DEF FetchShards, LoadTradingDay, FreezeInput, SelectReference, ReadNames, GivesUp, audit
  <2>2. AuthoritativeCodes' = AuthoritativeCodes
    BY <2>1 DEF AuthoritativeCodes, IsAuthoritative
  <2> QED BY <1>1, <1>2, <2>1, <2>2, LocksStep
<1>3. ASSUME NEW k \in Callers, WriteDaily(k) \/ UpsertCatalog(k) \/ UpdateBoards(k) \/ FillNames(k)
      PROVE  AuditInv'
  <2>1. OtherRows
    BY <1>3, OtherWriters
  <2>2. AuthoritativeCodes' = AuthoritativeCodes
    BY <2>1 DEF AuthoritativeCodes, IsAuthoritative, OtherRows, Same
  <2>3. UNCHANGED reconciled
    BY <1>3 DEF WriteDaily, UpsertCatalog, UpdateBoards, FillNames, audit
  <2> QED BY <1>1, <1>3, <2>2, <2>3, LocksStep
<1>4. ASSUME NEW k \in Callers, Promote(k) PROVE AuditInv'
  <2>1. LocksKept(k)
    BY <1>4, LocksStep
  <2>2. publication' = NoCaller /\ caller'[k].stage = "idle"
    BY <1>4 DEF Promote, Become, CallersInv, StockIdle, Waiting
  <2>3. NoCaller \notin Callers
    BY StockAssumption DEF StockAssumption, NoCaller
  <2>4. ASSUME NEW j \in Callers PROVE ~HoldsLock(caller'[j])
    BY <2>1, <2>2, <2>3 DEF LocksKept, HoldsLock
  <2> QED BY <1>4, <2>4, PromotedAudited DEF AuditInv, HoldsLock
<1>5. CASE StockTick \/ UNCHANGED stockVars
  <2>1. UNCHANGED <<stock, reconciled, caller, publication>>
    BY <1>5 DEF StockTick, stockVars, audit
  <2>2. AuthoritativeCodes' = AuthoritativeCodes
    BY <2>1 DEF AuthoritativeCodes, IsAuthoritative
  <2> QED BY <1>1, <2>1, <2>2
<1> QED BY <1>2, <1>3, <1>4, <1>5 DEF StockNext

LEMMA AuditStart == StockInit => AuditInv
<1> SUFFICES ASSUME StockInit PROVE AuditInv
  OBVIOUS
<1>1. reconciled = << >> /\ AuthoritativeCodes = {} /\ caller = [k \in Callers |-> StockIdle]
  BY DEF StockInit, AuthoritativeCodes, IsAuthoritative, NoRow
<1>2. IsAudit(reconciled) /\ DOMAIN reconciled = {}
  BY <1>1 DEF IsAudit, IsSequence
<1>3. IsFiniteSet({}) /\ Cardinality({}) = 0 /\ Tickets({}, AuditCounts(reconciled)) = {}
  BY FS_EmptySet DEF Tickets
<1>4. Audited(reconciled) = 0
  BY <1>2, <1>3, AuditIsCount
<1> QED BY <1>1, <1>2, <1>3, <1>4 DEF AuditInv, HoldsLock, StockIdle, Waiting

\* The reconciliations account for every authoritative row exactly once, as
\* inserted or as promoted, although the catalogue, which takes no lock, may
\* insert a row between the select and the upsert of a reconciliation
\* (stock_reference_authority.py): what it selected holds every row that was
\* authoritative, and nobody else makes one.
THEOREM EveryPromotionAudited == StockSpec => []PromotionsAudited
<1>1. AuditInv => PromotionsAudited
  BY DEF AuditInv, PromotionsAudited, Audited, AuthoritativeCodes
<1>2. ReferenceInv => StockTypeOK
  BY DEF ReferenceInv
<1> QED BY <1>1, <1>2, ReferenceStart, CallersStep, ReferenceStep, AuditStart, AuditStep, PTL DEF StockSpec

-----------------------------------------------------------------------------
(* ConceptFacts: the dates a change reaches.                               *)

MemberDates == 0..LastDate

\* A change at one of the dates G reaches d: no snapshot lies between.
Reaches(rows, G, d) == \E f \in G : f <= d /\ \A m \in rows : ~(f < m.from /\ m.from <= d)

LEMMA ReachMeans ==
    ASSUME NEW rows \in SUBSET Membership, NEW f \in MemberDates, NEW d \in TradeDates
    PROVE  d <= Reach(rows, f) <=> \A m \in rows : ~(f < m.from /\ m.from <= d)
<1> DEFINE later == {m.from : m \in {r \in rows : r.from > f}}
<1>0. LastDate \in Nat /\ d \in Nat /\ d <= LastDate /\ f \in Nat /\ \A m \in rows : m.from \in Nat
  BY ConceptAssumption DEF ConceptAssumption, Membership, MemberDates, TradeDates
<1>1. CASE later = {}
  <2>1. \A m \in rows : ~(f < m.from)
    BY <1>0, <1>1
  <2> QED BY <1>0, <1>1, <2>1 DEF Reach
<1>2. CASE later # {}
  <2>1. later \in SUBSET Nat
    BY <1>0
  <2>2. Min(later) \in later /\ \A y \in later : Min(later) <= y
    BY <1>2, <2>1, FirstOf
  <2>3. Reach(rows, f) = Min(later) - 1
    BY <1>2 DEF Reach
  <2>4. \A m \in rows : f < m.from => m.from \in later
    BY <1>0
  <2>5. \E m \in rows : m.from = Min(later) /\ f < m.from
    BY <1>0, <2>2
  <2>6. Min(later) \in Nat
    BY <2>1, <2>2
  <2> HIDE DEF later
  <2>7. d <= Min(later) - 1 <=> ~(Min(later) <= d)
    BY <1>0, <2>6
  <2>8. ASSUME NEW m \in rows, f < m.from, m.from <= d PROVE Min(later) <= d
    BY <1>0, <2>2, <2>4, <2>6, <2>8
  <2> QED BY <2>3, <2>5, <2>7, <2>8
<1> QED BY <1>1, <1>2

CoveredBy(rows, G) == UNION {{d \in TradeDates : f <= d /\ d <= Reach(rows, f)} : f \in G}

LEMMA CoveredMeans ==
    ASSUME NEW rows \in SUBSET Membership, NEW G \in SUBSET MemberDates, NEW d \in TradeDates
    PROVE  d \in CoveredBy(rows, G) <=> Reaches(rows, G, d)
BY ReachMeans DEF CoveredBy, Reaches

\* Of the dates of a change up to d, the last one.
LEMMA LastChange ==
    ASSUME NEW F \in SUBSET MemberDates, NEW d \in TradeDates, \E f \in F : f <= d
    PROVE  \E f \in F : f <= d /\ \A g \in F : g <= d => g <= f
<1> DEFINE S == {f \in F : f <= d}
<1>1. S \in SUBSET (0..LastDate) /\ S # {} /\ LastDate \in Nat
  BY ConceptAssumption DEF ConceptAssumption, MemberDates
<1>2. Max(S) \in S /\ \A y \in S : y <= Max(S)
  BY <1>1, LastOf
<1> QED BY <1>2

\* Rows that differ at the dates F only.
AlikeBut(old, new, F) == \A m : m.from \notin F => (m \in old <=> m \in new)

\* Where a change does not reach, a date keeps its snapshot, or has none.
LEMMA SnapshotKept ==
    ASSUME NEW old \in SUBSET Membership, NEW new \in SUBSET Membership,
           NEW F \in SUBSET MemberDates, AlikeBut(old, new, F), NEW d \in TradeDates,
           ~Reaches(new, F, d)
    PROVE  \/ \A m \in new : d < m.from
           \/ ActiveMembers(new, d) = ActiveMembers(old, d)
<1>0. /\ d \in Nat /\ (\A m \in old : m.from \in Nat) /\ (\A m \in new : m.from \in Nat)
      /\ (\A f \in F : f \in Nat) /\ LastDate \in Nat
      /\ (\A m \in old \cup new : m.from \in 0..LastDate)
  BY ConceptAssumption DEF ConceptAssumption, Membership, MemberDates, TradeDates
<1> DEFINE past(rows) == {f \in {m.from : m \in rows} : f <= d}
<1>1. SUFFICES ASSUME NEW n \in new, n.from <= d
               PROVE  ActiveMembers(new, d) = ActiveMembers(old, d)
  BY <1>0
\* The last snapshot of the new rows is not one of the change, and none of the
\* old rows is later.
<1>2. past(new) \in SUBSET (0..LastDate) /\ past(new) # {} /\ past(old) \in SUBSET (0..LastDate)
  BY <1>0, <1>1
<1> DEFINE s == Max(past(new))
<1>3. s \in past(new) /\ \A y \in past(new) : y <= s
  BY <1>0, <1>2, LastOf
<1>4. s \in Nat /\ s <= d /\ (\E m \in new : m.from = s) /\ \A m \in new : m.from <= d => m.from <= s
  BY <1>0, <1>3
<1> HIDE DEF s
<1>5. \A f \in F : f <= d => f < s
  <2> SUFFICES ASSUME NEW f \in F, f <= d PROVE f < s
    OBVIOUS
  <2>1. PICK m \in new : f < m.from /\ m.from <= d
    BY DEF Reaches
  <2> QED BY <1>0, <1>4, <2>1
<1>6. \A m : m.from <= d /\ m.from >= s /\ m.from \in Nat => (m \in old <=> m \in new)
  BY <1>0, <1>4, <1>5 DEF AlikeBut
<1>7. s \in past(old) /\ \A y \in past(old) : y <= s
  <2>1. \E m \in old : m.from = s
    BY <1>0, <1>4, <1>6
  <2>2. \A m \in old : m.from <= d => m.from <= s
    BY <1>0, <1>4, <1>6
  <2> QED BY <1>4, <2>1, <2>2
<1>8. Max(past(old)) = s
  <2>1. Max(past(old)) \in past(old) /\ \A y \in past(old) : y <= Max(past(old))
    BY <1>0, <1>2, <1>7, LastOf
  <2> QED BY <1>2, <1>4, <1>7, <2>1
<1>9. SnapshotOf(new, d) = s /\ SnapshotOf(old, d) = s
  BY <1>2, <1>7, <1>8 DEF SnapshotOf, s
<1>10. {r \in new : r.from = s /\ (r.to = StillOpen \/ r.to >= d)}
          = {r \in old : r.from = s /\ (r.to = StillOpen \/ r.to >= d)}
  BY <1>0, <1>4, <1>6
<1> QED BY <1>9, <1>10 DEF ActiveMembers

\* What another change reached, it still does, or the new one does.
LEMMA ReachesKept ==
    ASSUME NEW old \in SUBSET Membership, NEW new \in SUBSET Membership,
           NEW F \in SUBSET MemberDates, AlikeBut(old, new, F), NEW d \in TradeDates,
           NEW G \in SUBSET MemberDates, Reaches(old, G, d)
    PROVE  Reaches(new, G, d) \/ Reaches(new, F, d)
<1>0. /\ d \in Nat /\ (\A m \in old : m.from \in Nat) /\ (\A m \in new : m.from \in Nat)
      /\ (\A f \in F : f \in Nat) /\ (\A f \in G : f \in Nat)
  BY DEF Membership, MemberDates, TradeDates
<1>1. PICK g \in G : g <= d /\ \A m \in old : ~(g < m.from /\ m.from <= d)
  BY DEF Reaches
<1>2. CASE \A m \in new : ~(g < m.from /\ m.from <= d)
  BY <1>1, <1>2 DEF Reaches
<1>3. CASE \E m \in new : g < m.from /\ m.from <= d
  <2>1. PICK n \in new : g < n.from /\ n.from <= d
    BY <1>3
  <2>2. n.from \in F
    BY <1>1, <2>1 DEF AlikeBut
  <2>3. PICK f \in F : f <= d /\ \A h \in F : h <= d => h <= f
    BY <2>1, <2>2, LastChange
  <2>4. g < f
    BY <1>0, <2>1, <2>2, <2>3
  <2>5. \A m \in new : ~(f < m.from /\ m.from <= d)
    <3> SUFFICES ASSUME NEW m \in new, f < m.from, m.from <= d PROVE FALSE
      OBVIOUS
    <3>1. m.from \notin F
      BY <1>0, <2>3
    <3>2. m \in old
      BY <3>1 DEF AlikeBut
    <3> QED BY <1>0, <1>1, <2>4, <3>2
  <2> QED BY <2>3, <2>5 DEF Reaches
<1> QED BY <1>2, <1>3

LEMMA BeforeKept ==
    ASSUME NEW old \in SUBSET Membership, NEW new \in SUBSET Membership,
           NEW F \in SUBSET MemberDates, AlikeBut(old, new, F), NEW d \in TradeDates,
           \A m \in old : d < m.from
    PROVE  (\A m \in new : d < m.from) \/ Reaches(new, F, d)
<1>0. /\ d \in Nat /\ (\A m \in old : m.from \in Nat) /\ (\A m \in new : m.from \in Nat)
      /\ (\A f \in F : f \in Nat)
  BY DEF Membership, MemberDates, TradeDates
<1>1. ASSUME NEW n \in new, n.from <= d PROVE Reaches(new, F, d)
  <2>1. n.from \in F
    BY <1>0, <1>1 DEF AlikeBut
  <2>2. PICK f \in F : f <= d /\ \A h \in F : h <= d => h <= f
    BY <1>1, <2>1, LastChange
  <2>3. \A m \in new : ~(f < m.from /\ m.from <= d)
    <3> SUFFICES ASSUME NEW m \in new, f < m.from, m.from <= d PROVE FALSE
      OBVIOUS
    <3>1. m.from \notin F
      BY <1>0, <2>2
    <3>2. m \in old
      BY <3>1 DEF AlikeBut
    <3> QED BY <1>0, <3>2
  <2> QED BY <2>2, <2>3 DEF Reaches
<1> QED BY <1>0, <1>1

-----------------------------------------------------------------------------
(* ConceptFacts: the sessions, and rows that are derived.                  *)

Doings == {"nothing", "upserting", "pruning", "invalidating", "joining", "leaving",
           "storing", "expecting", "deriving"}
OutItems   == [code : MemberCodes, at : TradeDates]
DailyRows  == {NoDaily, Provided} \cup SUBSET MemberCodes
SessionRecord == [doing : Doings, items : SUBSET MemberItems, outs : SUBSET OutItems,
                  date : MemberDates, until : MemberDates, row : DailyRows]

\* A session that works on a date has one, and the last one is no later than it.
SessionSound(r) ==
    r.doing \in {"expecting", "deriving", "storing"} => r.date \in TradeDates

ConceptInv ==
    /\ ConceptTypeOK
    /\ session \in [Sessions -> SessionRecord]
    /\ \A w \in Sessions : SessionSound(session[w])

GoesOn(r, what)             == [r EXCEPT !.doing = what]
Upserting(items)            == [Resting EXCEPT !.doing = "upserting", !.items = items]
Joining(items, outs)        == [Resting EXCEPT !.doing = "joining", !.items = items, !.outs = outs]
Storing(date, row)          == [Resting EXCEPT !.doing = "storing", !.date = date, !.until = date, !.row = row]
Expecting(date, until)      == [Resting EXCEPT !.doing = "expecting", !.date = date, !.until = until]
StoringNext(r, row)         == [r EXCEPT !.doing = "storing", !.row = row]

LEMMA DatesTyped == 0 \in MemberDates /\ TradeDates \subseteq MemberDates
BY ConceptAssumption DEF ConceptAssumption, MemberDates, TradeDates

LEMMA RestingSound ==
    Resting \in SessionRecord /\ SessionSound(Resting) /\ Resting.doing = "nothing"
BY DatesTyped DEF Resting, SessionRecord, SessionSound, Doings, DailyRows

LEMMA StartedSessions ==
    ASSUME NEW items \in SUBSET MemberItems, NEW outs \in SUBSET OutItems,
           NEW date \in TradeDates, NEW until \in TradeDates, NEW row \in DailyRows
    PROVE  /\ Upserting(items) \in SessionRecord /\ SessionSound(Upserting(items))
           /\ Joining(items, outs) \in SessionRecord /\ SessionSound(Joining(items, outs))
           /\ Storing(date, row) \in SessionRecord /\ SessionSound(Storing(date, row))
           /\ Expecting(date, until) \in SessionRecord /\ SessionSound(Expecting(date, until))
<1>1. Upserting(items) \in SessionRecord /\ SessionSound(Upserting(items))
  BY DatesTyped DEF Upserting, Resting, SessionRecord, SessionSound, Doings, DailyRows
<1>2. Joining(items, outs) \in SessionRecord /\ SessionSound(Joining(items, outs))
  BY DatesTyped DEF Joining, Resting, SessionRecord, SessionSound, Doings, DailyRows
<1>3. Storing(date, row) \in SessionRecord /\ SessionSound(Storing(date, row))
  BY DatesTyped DEF Storing, Resting, SessionRecord, SessionSound, Doings, DailyRows
<1>4. Expecting(date, until) \in SessionRecord /\ SessionSound(Expecting(date, until))
  BY DatesTyped DEF Expecting, Resting, SessionRecord, SessionSound, Doings, DailyRows
<1> QED BY <1>1, <1>2, <1>3, <1>4

LEMMA ContinuedSessions ==
    ASSUME NEW r \in SessionRecord, SessionSound(r), NEW row \in DailyRows, NEW what \in Doings,
           what \in {"expecting", "deriving", "storing"} => r.doing \in {"expecting", "deriving", "storing"}
    PROVE  /\ GoesOn(r, what) \in SessionRecord /\ SessionSound(GoesOn(r, what))
           /\ GoesOn(r, what).doing = what /\ GoesOn(r, what).items = r.items /\ GoesOn(r, what).outs = r.outs
           /\ r.doing \in {"expecting", "deriving", "storing"} =>
                StoringNext(r, row) \in SessionRecord /\ SessionSound(StoringNext(r, row))
<1>1. /\ GoesOn(r, what) \in SessionRecord /\ SessionSound(GoesOn(r, what))
      /\ GoesOn(r, what).doing = what /\ GoesOn(r, what).items = r.items /\ GoesOn(r, what).outs = r.outs
  BY DEF GoesOn, SessionRecord, SessionSound
<1>2. ASSUME r.doing \in {"expecting", "deriving", "storing"}
      PROVE  StoringNext(r, row) \in SessionRecord /\ SessionSound(StoringNext(r, row))
  BY <1>2 DEF StoringNext, SessionRecord, SessionSound, Doings
<1> QED BY <1>1, <1>2

LEMMA NextDateSound ==
    ASSUME NEW w \in Sessions, session[w] \in SessionRecord, session[w].date \in TradeDates
    PROVE  NextDate(w) \in SessionRecord /\ SessionSound(NextDate(w))
           /\ NextDate(w).doing \in {"nothing", "expecting"}
<1>1. CASE session[w].date < session[w].until
  <2>1. NextDate(w) = Expecting(session[w].date + 1, session[w].until)
    BY <1>1 DEF NextDate, Expecting
  <2>2. session[w].date + 1 \in TradeDates /\ session[w].until \in TradeDates
    BY <1>1, ConceptAssumption DEF ConceptAssumption, SessionRecord, MemberDates, TradeDates
  <2>3. \E x : x \in DailyRows
    BY DEF DailyRows
  <2>4. Expecting(session[w].date + 1, session[w].until).doing = "expecting"
    BY DEF Expecting, Resting
  <2>5. {} \in SUBSET MemberItems /\ {} \in SUBSET OutItems
    OBVIOUS
  <2> QED BY <2>1, <2>2, <2>3, <2>4, <2>5, StartedSessions
<1>2. CASE ~(session[w].date < session[w].until)
  BY <1>2, RestingSound DEF NextDate
<1> QED BY <1>1, <1>2

\* The answers: what is written is of the concept's codes and dates.
LEMMA AnswerTyped ==
    ASSUME membership \subseteq Membership, NEW d, NEW refresh, NEW crawled \in SUBSET MemberItems,
           NEW others \in SUBSET MemberItems
    PROVE  MembersAnswer(d, refresh, crawled, others) \subseteq MemberItems
<1>1. LocalMembers(d) \subseteq MemberItems
  <2> DEFINE target   == {m \in membership : m.from <= d /\ (m.to = StillOpen \/ m.to >= d)}
             past     == {m.from : m \in {r \in membership : r.from <= d}}
             fallback == IF past = {} THEN {} ELSE {m \in membership : m.from = Max(past)}
             chosen   == IF target # {} THEN target ELSE fallback
  <2>1. chosen \subseteq membership
    OBVIOUS
  <2>2. LocalMembers(d) = {[code |-> m.code, from |-> m.from] :
          m \in {r \in chosen : ((\A q \in Quoted : q[2] # d) \/ <<r.code, d>> \in Quoted)}}
    BY DEF LocalMembers
  <2> HIDE DEF chosen
  <2>3. \A m \in membership : [code |-> m.code, from |-> m.from] \in MemberItems
    BY DEF Membership, MemberItems
  <2> QED BY <2>1, <2>2, <2>3
<1> QED BY <1>1 DEF MembersAnswer

LEMMA ListingTyped ==
    ASSUME NEW found \in Listings
    PROVE  found \in SUBSET MemberItems
<1>1. PICK codes \in SUBSET MemberCodes, f \in 0..LastDate : found = [code : codes, from : {f}]
  BY DEF Listings
<1> QED BY <1>1 DEF MemberItems

LEMMA DerivedTyped ==
    ASSUME membership \subseteq Membership, daily \in [TradeDates -> DailyRows], NEW d \in TradeDates,
           NEW provider
    PROVE  Derived(d) \in DailyRows /\ SnapshotRow(d, provider) \in DailyRows
<1>1. Derived(d) \subseteq MemberCodes
  BY DEF Derived, QuotedMembers, ActiveMembers, Membership
<1> QED BY <1>1 DEF SnapshotRow, DailyRows

LEMMA SessionStep ==
    ASSUME ConceptInv, NEW w \in Sessions,
           \/ FillAndFilter(w) \/ UpsertMembers(w) \/ PruneMembers(w) \/ Invalidate(w)
           \/ StartHistory(w) \/ InsertJoined(w) \/ CloseLeft(w) \/ StopsShort(w)
           \/ ReadSnapshot(w) \/ StartRebuild(w) \/ Expect(w) \/ Derive(w)
           \/ StoreDaily(w) \/ StoreFails(w)
    PROVE  UNCHANGED session \/ \E r \in SessionRecord : SessionSound(r) /\ Do(w, r)
<1>0. /\ session[w] \in SessionRecord /\ SessionSound(session[w]) /\ membership \subseteq Membership
      /\ daily \in [TradeDates -> DailyRows] /\ NoDaily \in DailyRows
      /\ {} \in SUBSET MemberItems /\ {} \in SUBSET OutItems
  BY DEF ConceptInv, ConceptTypeOK, DailyRows
<1>1. CASE FillAndFilter(w)
  <2>1. PICK d \in TradeDates, found \in Listings :
          \E refresh, crawled, withNames, readable \in BOOLEAN :
            LET items == MembersAnswer(d, refresh, IF crawled THEN found ELSE {}, found)
                valid == IF readable THEN Writable(items) ELSE {}
            IN /\ named' = IF withNames THEN named \cup {i.code : i \in items} ELSE named
               /\ IF valid = {} THEN UNCHANGED <<session, changes>>
                  ELSE /\ Do(w, [Resting EXCEPT !.doing = "upserting", !.items = valid])
                       /\ changes' = changes + 1
    BY <1>1, Zenon DEF FillAndFilter
  <2>2. PICK refresh \in BOOLEAN, crawled \in BOOLEAN, readable \in BOOLEAN :
            LET items == MembersAnswer(d, refresh, IF crawled THEN found ELSE {}, found)
                valid == IF readable THEN Writable(items) ELSE {}
            IN IF valid = {} THEN UNCHANGED session ELSE Do(w, [Resting EXCEPT !.doing = "upserting", !.items = valid])
    BY <2>1
  <2> DEFINE items == MembersAnswer(d, refresh, IF crawled THEN found ELSE {}, found)
             valid == IF readable THEN Writable(items) ELSE {}
  <2>3. found \in SUBSET MemberItems
    BY ListingTyped
  <2>4. items \subseteq MemberItems
    BY <1>0, <2>3, AnswerTyped
  <2>5. valid \in SUBSET MemberItems
    BY <2>4 DEF Writable
  <2>6. UNCHANGED session \/ Do(w, Upserting(valid))
    BY <2>2 DEF Upserting
  <2> HIDE DEF valid
  <2> QED BY <1>0, <2>5, <2>6, StartedSessions
<1>2. CASE UpsertMembers(w) \/ PruneMembers(w) \/ InsertJoined(w) \/ CloseLeft(w)
  <2>1. PICK what \in {"pruning", "invalidating", "leaving"} : Do(w, GoesOn(session[w], what))
    BY <1>2 DEF UpsertMembers, PruneMembers, InsertJoined, CloseLeft, Then, GoesOn
  <2>2. GoesOn(session[w], what) \in SessionRecord /\ SessionSound(GoesOn(session[w], what))
    BY <1>0, ContinuedSessions DEF Doings
  <2> QED BY <2>1, <2>2
<1>3. CASE Invalidate(w) \/ StopsShort(w) \/ StoreFails(w)
  BY <1>3, RestingSound DEF Invalidate, StopsShort, StoreFails
<1>4. CASE StartHistory(w)
  <2>1. PICK ins \in SUBSET MemberItems, outs \in SUBSET OutItems :
          Cardinality(ins) + Cardinality(outs) = 1 /\ Do(w, Joining(ins, outs))
    BY <1>4, Zenon DEF StartHistory, Joining, OutItems
  <2>2. Joining(ins, outs) \in SessionRecord /\ SessionSound(Joining(ins, outs))
    BY DatesTyped DEF Joining, Resting, SessionRecord, SessionSound, Doings, DailyRows
  <2> QED BY <2>1, <2>2
<1>5. CASE ReadSnapshot(w)
  <2>1. PICK d \in TradeDates, provider \in BOOLEAN : Do(w, Storing(d, SnapshotRow(d, provider)))
    BY <1>5, Zenon DEF ReadSnapshot, Storing
  <2>2. SnapshotRow(d, provider) \in DailyRows
    BY <1>0, DerivedTyped
  <2> QED BY <1>0, <2>1, <2>2, StartedSessions
<1>6. CASE StartRebuild(w)
  <2>1. PICK first \in TradeDates, last \in TradeDates : Do(w, Expecting(first, last))
    BY <1>6, Zenon DEF StartRebuild, Expecting
  <2> QED BY <1>0, <2>1, StartedSessions
<1>7. CASE Expect(w)
  <2>1. session[w].date \in TradeDates /\ session[w].doing = "expecting"
    BY <1>0, <1>7 DEF Expect, Doing, SessionSound
  <2>2. Do(w, GoesOn(session[w], "deriving")) \/ Do(w, NextDate(w))
    BY <1>7 DEF Expect, Then, GoesOn
  <2>3. GoesOn(session[w], "deriving") \in SessionRecord /\ SessionSound(GoesOn(session[w], "deriving"))
    BY <1>0, <2>1, ContinuedSessions DEF Doings
  <2>4. NextDate(w) \in SessionRecord /\ SessionSound(NextDate(w))
    BY <1>0, <2>1, NextDateSound
  <2> QED BY <2>2, <2>3, <2>4
<1>8. CASE Derive(w)
  <2>1. session[w].date \in TradeDates /\ session[w].doing = "deriving"
    BY <1>0, <1>8 DEF Derive, Doing, SessionSound
  <2>2. Do(w, StoringNext(session[w], Derived(session[w].date))) \/ Do(w, Resting)
    BY <1>8 DEF Derive, StoringNext
  <2>3. Derived(session[w].date) \in DailyRows
    BY <1>0, <2>1, DerivedTyped
  <2>4. /\ StoringNext(session[w], Derived(session[w].date)) \in SessionRecord
        /\ SessionSound(StoringNext(session[w], Derived(session[w].date)))
    BY <1>0, <2>1, <2>3, ContinuedSessions DEF Doings
  <2> QED BY <2>2, <2>4, RestingSound
<1>9. CASE StoreDaily(w)
  <2>1. session[w].date \in TradeDates /\ Do(w, NextDate(w))
    BY <1>0, <1>9 DEF StoreDaily, Doing, SessionSound
  <2> QED BY <1>0, <2>1, NextDateSound
<1> QED BY <1>1, <1>2, <1>3, <1>4, <1>5, <1>6, <1>7, <1>8, <1>9

Pending(w) == session[w].doing \in {"pruning", "leaving", "invalidating"}

LEMMA ChangesTyped ==
    ASSUME ConceptInv, NEW w \in Sessions
    PROVE  /\ Changes(w) \subseteq MemberDates
           /\ {i.from : i \in session[w].items} \subseteq MemberDates
           /\ session[w].items \subseteq MemberItems /\ session[w].outs \subseteq OutItems
<1>1. session[w].items \subseteq MemberItems /\ session[w].outs \subseteq OutItems
  BY DEF ConceptInv, SessionRecord
<1>2. (\A i \in session[w].items : i.from \in MemberDates) /\ \A o \in session[w].outs : o.at \in MemberDates
  BY <1>1, DatesTyped DEF MemberItems, OutItems, MemberDates
<1> QED BY <1>1, <1>2 DEF Changes

\* The two statements of an answer and the joins of the history: rows change at
\* the dates of the items only.
LEMMA ItemsChange ==
    ASSUME ConceptInv, NEW w \in Sessions, UpsertMembers(w) \/ PruneMembers(w) \/ InsertJoined(w)
    PROVE  /\ membership' \in SUBSET Membership
           /\ AlikeBut(membership, membership', {i.from : i \in session[w].items})
           /\ \E what \in {"pruning", "invalidating", "leaving"} : Do(w, GoesOn(session[w], what))
           /\ UNCHANGED <<daily, owed>>
<1>0. membership \in SUBSET Membership /\ session[w].items \subseteq MemberItems
  BY ChangesTyped DEF ConceptInv, ConceptTypeOK
<1>1. \A i \in session[w].items : [code |-> i.code, from |-> i.from, to |-> StillOpen] \in Membership
  BY <1>0 DEF Membership, MemberItems
<1>2. CASE UpsertMembers(w)
  <2> DEFINE kept == {m \in membership : [code |-> m.code, from |-> m.from] \notin session[w].items}
             new  == {[code |-> i.code, from |-> i.from, to |-> StillOpen] : i \in session[w].items}
  <2>1. membership' = kept \cup new
    BY <1>2 DEF UpsertMembers
  <2>2. \A m \in new : m.from \in {i.from : i \in session[w].items}
    OBVIOUS
  <2>3. \A m \in membership : m.from \notin {i.from : i \in session[w].items} => m \in kept
    OBVIOUS
  <2>4. membership' \in SUBSET Membership
    BY <1>0, <1>1, <2>1
  <2>5. AlikeBut(membership, membership', {i.from : i \in session[w].items})
    <3> HIDE DEF new
    <3> QED BY <2>1, <2>2, <2>3 DEF AlikeBut
  <2> QED BY <1>2, <2>4, <2>5 DEF UpsertMembers, Then, GoesOn
<1>3. CASE PruneMembers(w)
  <2>1. membership' = Pruned(session[w].items)
    BY <1>3 DEF PruneMembers
  <2> QED BY <1>0, <1>3, <2>1 DEF PruneMembers, Pruned, AlikeBut, Then, GoesOn
<1>4. CASE InsertJoined(w)
  <2> DEFINE js  == {j \in session[w].items : \A m \in membership : ~(m.code = j.code /\ m.from = j.from)}
             new == {[code |-> i.code, from |-> i.from, to |-> StillOpen] : i \in js}
  <2>1. membership' = membership \cup new
    BY <1>4 DEF InsertJoined
  <2>2. \A m \in new : m.from \in {i.from : i \in session[w].items}
    OBVIOUS
  <2>3. new \subseteq Membership
    BY <1>1
  <2>4. AlikeBut(membership, membership', {i.from : i \in session[w].items})
    <3> HIDE DEF new
    <3> QED BY <2>1, <2>2 DEF AlikeBut
  <2> HIDE DEF new
  <2> QED BY <1>0, <1>4, <2>1, <2>3, <2>4 DEF InsertJoined, Then, GoesOn
<1> QED BY <1>2, <1>3, <1>4

\* Closing rows leaves every snapshot where it is.
LEMMA ClosedRows ==
    ASSUME ConceptInv, NEW outs \in SUBSET OutItems
    PROVE  /\ Closed(outs) \in SUBSET Membership
           /\ \A m \in Closed(outs) : \E n \in membership : n.from = m.from
           /\ \A n \in membership : \E m \in Closed(outs) : n.from = m.from
<1> DEFINE after(m) == IF m.to = StillOpen /\ \E o \in outs : o.code = m.code
                       THEN [m EXCEPT !.to = (CHOOSE o \in outs : o.code = m.code).at] ELSE m
<1>1. Closed(outs) = {after(m) : m \in membership}
  BY DEF Closed
<1>2. ASSUME NEW m \in membership PROVE after(m) \in Membership /\ after(m).from = m.from
  <2>1. m \in Membership
    BY DEF ConceptInv, ConceptTypeOK
  <2>2. CASE m.to = StillOpen /\ \E o \in outs : o.code = m.code
    <3> DEFINE o == CHOOSE x \in outs : x.code = m.code
    <3>1. o \in outs
      BY <2>2
    <3>2. o.at \in 0..LastDate
      BY <3>1, DatesTyped DEF OutItems, MemberDates
    <3>3. after(m) = [m EXCEPT !.to = o.at]
      BY <2>2
    <3> HIDE DEF o, after
    <3> QED BY <2>1, <3>2, <3>3 DEF Membership
  <2> QED BY <2>1, <2>2
<1> HIDE DEF after
<1> QED BY <1>1, <1>2

LEMMA ConceptTypeStep == ConceptInv /\ [ConceptNext]_conceptVars => ConceptInv'
<1> SUFFICES ASSUME ConceptInv, [ConceptNext]_conceptVars PROVE ConceptInv'
  OBVIOUS
<1>0. /\ membership \in SUBSET Membership /\ named \subseteq MemberCodes /\ daily \in [TradeDates -> DailyRows]
      /\ owed \subseteq TradeDates /\ changes \in 0..MaxChanges /\ session \in [Sessions -> SessionRecord]
  BY DEF ConceptInv, ConceptTypeOK, DailyRows
<1>1. CASE UNCHANGED conceptVars
  BY <1>1 DEF conceptVars, ConceptInv, ConceptTypeOK
<1>2. ASSUME NEW w \in Sessions,
             \/ FillAndFilter(w) \/ UpsertMembers(w) \/ PruneMembers(w) \/ Invalidate(w)
             \/ StartHistory(w) \/ InsertJoined(w) \/ CloseLeft(w) \/ StopsShort(w)
             \/ ReadSnapshot(w) \/ StartRebuild(w) \/ Expect(w) \/ Derive(w)
             \/ StoreDaily(w) \/ StoreFails(w)
      PROVE  ConceptInv'
  <2>1. session' \in [Sessions -> SessionRecord] /\ \A v \in Sessions : SessionSound(session'[v])
    <3>1. CASE UNCHANGED session
      BY <1>0, <3>1 DEF ConceptInv
    <3>2. ASSUME NEW r \in SessionRecord, SessionSound(r), Do(w, r)
          PROVE  session' \in [Sessions -> SessionRecord] /\ \A v \in Sessions : SessionSound(session'[v])
      BY <1>0, <3>2 DEF Do, ConceptInv
    <3> QED BY <1>2, <3>1, <3>2, SessionStep
  <2>2. membership' \in SUBSET Membership
    <3>1. CASE UpsertMembers(w) \/ PruneMembers(w) \/ InsertJoined(w)
      BY <3>1, ItemsChange
    <3>2. CASE CloseLeft(w) \/ StopsShort(w)
      <4>1. membership' = membership \/ membership' = Closed(session[w].outs)
        BY <3>2 DEF CloseLeft, StopsShort
      <4>2. session[w].outs \in SUBSET OutItems
        BY ChangesTyped
      <4> QED BY <1>0, <4>1, <4>2, ClosedRows
    <3>3. CASE FillAndFilter(w) \/ Invalidate(w) \/ StartHistory(w) \/ ReadSnapshot(w) \/ StartRebuild(w)
      BY <1>0, <3>3 DEF FillAndFilter, Invalidate, StartHistory, ReadSnapshot, StartRebuild
    <3>4. CASE Expect(w) \/ Derive(w) \/ StoreDaily(w) \/ StoreFails(w)
      BY <1>0, <3>4 DEF Expect, Derive, StoreDaily, StoreFails
    <3> QED BY <1>2, <3>1, <3>2, <3>3, <3>4
  <2>3. named' \subseteq MemberCodes /\ changes' \in 0..MaxChanges
    <3>1. CASE FillAndFilter(w)
      <4>1. PICK d \in TradeDates, found \in Listings :
              \E refresh, crawled, withNames, readable \in BOOLEAN :
                LET items == MembersAnswer(d, refresh, IF crawled THEN found ELSE {}, found)
                    valid == IF readable THEN Writable(items) ELSE {}
                IN /\ named' = IF withNames THEN named \cup {i.code : i \in items} ELSE named
                   /\ IF valid = {} THEN UNCHANGED <<session, changes>>
                      ELSE /\ Do(w, [Resting EXCEPT !.doing = "upserting", !.items = valid])
                           /\ changes' = changes + 1
        BY <3>1, Zenon DEF FillAndFilter
      <4>2. PICK refresh \in BOOLEAN, crawled \in BOOLEAN, withNames \in BOOLEAN :
              named' = IF withNames
                       THEN named \cup {i.code : i \in MembersAnswer(d, refresh, IF crawled THEN found ELSE {}, found)}
                       ELSE named
        BY <4>1
      <4>3. found \in SUBSET MemberItems
        BY ListingTyped
      <4>4. MembersAnswer(d, refresh, IF crawled THEN found ELSE {}, found) \subseteq MemberItems
        BY <1>0, <4>3, AnswerTyped
      <4>5. named' \subseteq MemberCodes
        BY <1>0, <4>2, <4>4 DEF MemberItems
      <4>6. changes < MaxChanges /\ (changes' = changes \/ changes' = changes + 1)
        BY <3>1, <4>1 DEF FillAndFilter
      <4> QED BY <1>0, <4>5, <4>6, ConceptAssumption DEF ConceptAssumption
    <3>2. CASE StartHistory(w)
      <4>1. changes < MaxChanges /\ changes' = changes + 1 /\ UNCHANGED named
        BY <3>2 DEF StartHistory
      <4> QED BY <1>0, <4>1, ConceptAssumption DEF ConceptAssumption
    <3>3. CASE UpsertMembers(w) \/ PruneMembers(w) \/ InsertJoined(w) \/ CloseLeft(w) \/ StopsShort(w) \/ Invalidate(w)
      BY <1>0, <3>3 DEF UpsertMembers, PruneMembers, InsertJoined, CloseLeft, StopsShort, Invalidate
    <3>4. CASE ReadSnapshot(w) \/ StartRebuild(w) \/ Expect(w) \/ Derive(w) \/ StoreDaily(w) \/ StoreFails(w)
      BY <1>0, <3>4 DEF ReadSnapshot, StartRebuild, Expect, Derive, StoreDaily, StoreFails
    <3> QED BY <1>2, <3>1, <3>2, <3>3, <3>4
  <2>4. daily' \in [TradeDates -> DailyRows] /\ owed' \subseteq TradeDates
    <3>1. CASE Invalidate(w)
      BY <1>0, <3>1 DEF Invalidate, DailyRows
    <3>2. CASE StoreDaily(w)
      <4>1. session[w].date \in TradeDates /\ session[w].row \in DailyRows
        BY <1>0, <3>2 DEF StoreDaily, Doing, ConceptInv, SessionSound, SessionRecord
      <4> QED BY <1>0, <3>2, <4>1 DEF StoreDaily
    <3>3. CASE CloseLeft(w) \/ StopsShort(w)
      BY <1>0, <3>3 DEF CloseLeft, StopsShort
    <3>4. CASE UpsertMembers(w) \/ PruneMembers(w) \/ InsertJoined(w)
      BY <1>0, <3>4, ItemsChange
    <3>5. CASE FillAndFilter(w) \/ StartHistory(w) \/ ReadSnapshot(w) \/ StartRebuild(w)
      BY <1>0, <3>5 DEF FillAndFilter, StartHistory, ReadSnapshot, StartRebuild
    <3>6. CASE Expect(w) \/ Derive(w) \/ StoreFails(w)
      BY <1>0, <3>6 DEF Expect, Derive, StoreFails
    <3> QED BY <1>2, <3>1, <3>2, <3>3, <3>4, <3>5, <3>6
  <2>5. \A v \in Sessions : session'[v].items \subseteq MemberItems
    BY <2>1 DEF SessionRecord
  <2> QED BY <2>1, <2>2, <2>3, <2>4, <2>5 DEF ConceptInv, ConceptTypeOK, DailyRows
<1> QED BY <1>1, <1>2 DEF ConceptNext

\* The rows of a date that somebody still is to invalidate.
Owing(v, d) == Pending(v) /\ d \in CoveredBy(membership, Changes(v))

LEMMA OwingMeans ==
    DerivedIsCurrent <=>
      \A d \in TradeDates :
         \/ daily[d] \in {NoDaily, Provided} \/ d \in owed
         \/ \A m \in membership : d < m.from
         \/ daily[d] = Derived(d)
         \/ \E v \in Sessions : Owing(v, d)
BY DEF DerivedIsCurrent, Owing, Pending, Covered, CoveredBy

\* Derived depends on the members that are active, and on there being any.
LEMMA DerivedKept ==
    ASSUME NEW d, ActiveMembers(membership', d) = ActiveMembers(membership, d)
    PROVE  Derived(d)' = Derived(d)
BY DEF Derived, QuotedMembers

\* A statement that changes rows at dates its session still owes: what it
\* changes it will invalidate, and what others owe is owed by them or by it.
LEMMA ChangeKeepsCurrent ==
    ASSUME ConceptInv, ConceptInv', DerivedIsCurrent, NEW w \in Sessions,
           UpsertMembers(w) \/ PruneMembers(w) \/ InsertJoined(w)
    PROVE  DerivedIsCurrent'
<1> DEFINE F == {i.from : i \in session[w].items}
<1>0. /\ membership \in SUBSET Membership /\ membership' \in SUBSET Membership
      /\ F \in SUBSET MemberDates /\ AlikeBut(membership, membership', F)
      /\ UNCHANGED <<daily, owed>>
  BY ItemsChange, ChangesTyped DEF ConceptInv, ConceptTypeOK
<1>1. PICK what \in {"pruning", "invalidating", "leaving"} : Do(w, GoesOn(session[w], what))
  BY ItemsChange
<1>2. /\ session'[w] = GoesOn(session[w], what) /\ session[w] \in SessionRecord
      /\ \A v \in Sessions \ {w} : session'[v] = session[v]
  BY <1>1 DEF Do, ConceptInv
<1>3. session'[w].doing = what /\ session'[w].items = session[w].items /\ session'[w].outs = session[w].outs
  BY <1>2 DEF GoesOn, SessionRecord
<1>4. \A v \in Sessions : Changes(v)' = Changes(v) /\ Changes(v) \in SUBSET MemberDates
  BY <1>2, <1>3, ChangesTyped DEF Changes
<1>5. Pending(w)' /\ \A v \in Sessions : Pending(v) => Pending(v)'
  BY <1>2, <1>3 DEF Pending
<1>6. F \subseteq Changes(w)
  BY DEF Changes
<1> HIDE DEF F
<1>7. ASSUME NEW d \in TradeDates
      PROVE  \/ daily'[d] \in {NoDaily, Provided} \/ d \in owed'
             \/ \A m \in membership' : d < m.from
             \/ daily'[d] = Derived(d)'
             \/ \E v \in Sessions : Owing(v, d)'
  <2>1. CASE Reaches(membership', F, d)
    <3>1. Reaches(membership', Changes(w), d)
      BY <1>6, <2>1 DEF Reaches
    <3>2. d \in CoveredBy(membership', Changes(w))
      BY <1>0, <1>4, <3>1, CoveredMeans
    <3> QED BY <1>4, <1>5, <3>2 DEF Owing
  <2>2. CASE ~Reaches(membership', F, d)
    <3>1. CASE \A m \in membership : d < m.from
      BY <1>0, <2>2, <3>1, BeforeKept
    <3>2. CASE daily[d] = Derived(d)
      <4>1. (\A m \in membership' : d < m.from) \/ ActiveMembers(membership', d) = ActiveMembers(membership, d)
        BY <1>0, <2>2, SnapshotKept
      <4> QED BY <1>0, <3>2, <4>1, DerivedKept
    <3>3. ASSUME NEW v \in Sessions, Owing(v, d) PROVE Owing(v, d)'
      <4>1. Reaches(membership, Changes(v), d)
        BY <1>0, <1>4, <3>3, CoveredMeans DEF Owing
      <4>2. Reaches(membership', Changes(v), d)
        BY <1>0, <1>4, <2>2, <4>1, ReachesKept
      <4>3. d \in CoveredBy(membership', Changes(v))
        BY <1>0, <1>4, <4>2, CoveredMeans
      <4> QED BY <1>4, <1>5, <3>3, <4>3 DEF Owing
    <3> QED BY <1>0, <3>1, <3>2, <3>3, OwingMeans
  <2> QED BY <2>1, <2>2
<1> QED BY <1>7 DEF DerivedIsCurrent, Owing, Pending, Covered, CoveredBy

\* The dates a closing statement leaves to its session and those it gives up.
LEMMA CloseKeepsCurrent ==
    ASSUME ConceptInv, DerivedIsCurrent, NEW w \in Sessions, CloseLeft(w)
    PROVE  DerivedIsCurrent'
<1>0. /\ session[w] \in SessionRecord /\ session' = [session EXCEPT ![w] = GoesOn(session[w], "invalidating")]
      /\ membership' = Closed(session[w].outs) /\ daily' = daily
      /\ owed' = IF membership' = membership THEN owed ELSE owed \cup (TradeDates \ Covered(membership, w))
  BY DEF CloseLeft, Then, Do, GoesOn, ConceptInv
<1>1. /\ session'[w].doing = "invalidating" /\ session'[w].items = session[w].items /\ session'[w].outs = session[w].outs
      /\ \A v \in Sessions \ {w} : session'[v] = session[v]
  BY <1>0 DEF GoesOn, SessionRecord, ConceptInv
<1>2. \A v \in Sessions : Changes(v)' = Changes(v) /\ Changes(v) \in SUBSET MemberDates
  BY <1>1, ChangesTyped DEF Changes
<1>3. Pending(w)' /\ \A v \in Sessions : Pending(v) => Pending(v)'
  BY <1>1 DEF Pending
<1>4. CASE membership' = membership
  <2>1. owed' = owed /\ \A d \in TradeDates : Derived(d)' = Derived(d)
    BY <1>0, <1>4, DerivedKept
  <2>2. \A v \in Sessions, d \in TradeDates : Owing(v, d) => Owing(v, d)'
    BY <1>2, <1>3, <1>4 DEF Owing
  <2>3. \A d \in TradeDates :
          \/ daily'[d] \in {NoDaily, Provided} \/ d \in owed'
          \/ \A m \in membership' : d < m.from
          \/ daily'[d] = Derived(d)'
          \/ \E v \in Sessions : Owing(v, d)'
    BY <1>0, <1>4, <2>1, <2>2, OwingMeans
  <2> QED BY <2>3 DEF DerivedIsCurrent, Owing, Pending, Covered, CoveredBy
<1>5. CASE membership' # membership
  <2>1. ASSUME NEW d \in TradeDates, d \notin owed' PROVE Owing(w, d)'
    <3>0. /\ membership \in SUBSET Membership /\ membership' \in SUBSET Membership
          /\ \A m \in membership' : \E n \in membership : n.from = m.from
      BY <1>0, ChangesTyped, ClosedRows DEF ConceptInv, ConceptTypeOK
    <3>1. d \in CoveredBy(membership, Changes(w))
      BY <1>0, <1>5, <2>1 DEF Covered, CoveredBy
    <3>2. Reaches(membership, Changes(w), d)
      BY <1>2, <3>0, <3>1, CoveredMeans
    <3>3. Reaches(membership', Changes(w), d)
      BY <3>0, <3>2 DEF Reaches
    <3>4. d \in CoveredBy(membership', Changes(w))
      BY <1>2, <3>0, <3>3, CoveredMeans
    <3> QED BY <1>2, <1>3, <3>4 DEF Owing
  <2> QED BY <2>1 DEF DerivedIsCurrent, Owing, Pending, Covered, CoveredBy
<1> QED BY <1>4, <1>5

\* Steps that change no member and end no debt.
LEMMA NothingOwed ==
    ASSUME ConceptInv, DerivedIsCurrent, NEW w \in Sessions, ~Pending(w), NEW r, Do(w, r),
           UNCHANGED membership,
           \A d \in TradeDates : \/ UNCHANGED <<daily[d], d \in owed>>
                                 \/ daily'[d] \in {NoDaily, Provided} \/ d \in owed' \/ daily'[d] = Derived(d)
    PROVE  DerivedIsCurrent'
<1>1. \A v \in Sessions \ {w} : session'[v] = session[v]
  BY DEF Do, ConceptInv
<1>2. \A v \in Sessions, d \in TradeDates : Owing(v, d) => Owing(v, d)'
  BY <1>1 DEF Owing, Pending, Changes
<1>3. \A d \in TradeDates : Derived(d)' = Derived(d)
  BY DerivedKept
<1>4. \A d \in TradeDates :
        \/ daily'[d] \in {NoDaily, Provided} \/ d \in owed'
        \/ \A m \in membership' : d < m.from
        \/ daily'[d] = Derived(d)'
        \/ \E v \in Sessions : Owing(v, d)'
  BY <1>2, <1>3, OwingMeans
<1> QED BY <1>4 DEF DerivedIsCurrent, Owing, Pending, Covered, CoveredBy

LEMMA CurrentStep ==
    ASSUME ConceptInv, ConceptInv', DerivedIsCurrent, [ConceptNext]_conceptVars
    PROVE  DerivedIsCurrent'
<1>1. CASE UNCHANGED conceptVars
  <2>1. \A d \in TradeDates : Derived(d)' = Derived(d)
    BY <1>1, DerivedKept DEF conceptVars
  <2> QED BY <1>1, <2>1 DEF conceptVars, DerivedIsCurrent, Covered, Changes
<1>2. ASSUME NEW w \in Sessions, UpsertMembers(w) \/ PruneMembers(w) \/ InsertJoined(w)
      PROVE  DerivedIsCurrent'
  BY <1>2, ChangeKeepsCurrent
<1>3. ASSUME NEW w \in Sessions, CloseLeft(w) PROVE DerivedIsCurrent'
  BY <1>3, CloseKeepsCurrent
<1>4. ASSUME NEW w \in Sessions, Invalidate(w) PROVE DerivedIsCurrent'
  <2>1. /\ membership' = membership /\ owed' = owed \ CoveredBy(membership, Changes(w))
        /\ daily' = [d \in TradeDates |-> IF d \in CoveredBy(membership, Changes(w)) THEN NoDaily ELSE daily[d]]
        /\ \A v \in Sessions \ {w} : session'[v] = session[v]
    BY <1>4 DEF Invalidate, Covered, CoveredBy, Do, ConceptInv
  <2>2. \A v \in Sessions \ {w}, d \in TradeDates : Owing(v, d) => Owing(v, d)'
    BY <2>1 DEF Owing, Pending, Changes
  <2>3. \A d \in TradeDates : Derived(d)' = Derived(d)
    BY <2>1, DerivedKept
  <2>4. \A d \in TradeDates :
          \/ daily'[d] \in {NoDaily, Provided} \/ d \in owed'
          \/ \A m \in membership' : d < m.from
          \/ daily'[d] = Derived(d)'
          \/ \E v \in Sessions : Owing(v, d)'
    <3> SUFFICES ASSUME NEW d \in TradeDates
                 PROVE  \/ daily'[d] \in {NoDaily, Provided} \/ d \in owed'
                        \/ \A m \in membership' : d < m.from
                        \/ daily'[d] = Derived(d)'
                        \/ \E v \in Sessions : Owing(v, d)'
      OBVIOUS
    <3>1. CASE d \in CoveredBy(membership, Changes(w))
      BY <2>1, <3>1
    <3>2. CASE d \notin CoveredBy(membership, Changes(w))
      <4>1. daily'[d] = daily[d] /\ (d \in owed => d \in owed') /\ ~Owing(w, d)
        BY <2>1, <3>2 DEF Owing
      <4> QED BY <2>1, <2>2, <2>3, <4>1, OwingMeans
    <3> QED BY <3>1, <3>2
  <2> QED BY <2>4 DEF DerivedIsCurrent, Owing, Pending, Covered, CoveredBy
<1>5. ASSUME NEW w \in Sessions, StopsShort(w) PROVE DerivedIsCurrent'
  <2>1. CASE owed' = owed \cup TradeDates
    BY <2>1 DEF DerivedIsCurrent
  <2>2. CASE owed' # owed \cup TradeDates
    <3>1. session[w].doing \in {"upserting", "joining"} /\ UNCHANGED <<membership, daily, owed>> /\ Do(w, Resting)
      BY <1>5, <2>2 DEF StopsShort, Doing
    <3> QED BY <3>1, NothingOwed DEF Pending
  <2> QED BY <2>1, <2>2
<1>6. ASSUME NEW w \in Sessions, StoreDaily(w) PROVE DerivedIsCurrent'
  <2>1. /\ session[w].doing = "storing" /\ Do(w, NextDate(w)) /\ UNCHANGED membership
        /\ daily' = [daily EXCEPT ![session[w].date] = session[w].row]
        /\ owed' = IF session[w].row = Provided \/ (membership # {} /\ session[w].row = Derived(session[w].date))
                   THEN owed \ {session[w].date} ELSE owed \cup {session[w].date}
    BY <1>6 DEF StoreDaily, Doing
  <2>2. daily \in [TradeDates -> DailyRows] /\ session[w].date \in TradeDates
    BY <2>1 DEF ConceptInv, ConceptTypeOK, SessionSound, DailyRows
  <2>3. ASSUME NEW d \in TradeDates
        PROVE  \/ UNCHANGED <<daily[d], d \in owed>>
               \/ daily'[d] \in {NoDaily, Provided} \/ d \in owed' \/ daily'[d] = Derived(d)
    <3>1. CASE d = session[w].date
      BY <2>1, <2>2, <3>1
    <3>2. CASE d # session[w].date
      BY <2>1, <2>2, <3>2
    <3> QED BY <3>1, <3>2
  <2> QED BY <2>1, <2>3, NothingOwed DEF Pending
<1>7. ASSUME NEW w \in Sessions, FillAndFilter(w) \/ StartHistory(w) \/ ReadSnapshot(w) \/ StartRebuild(w)
      PROVE  DerivedIsCurrent'
  <2>1. session[w].doing = "nothing" /\ UNCHANGED <<membership, daily, owed>>
    BY <1>7 DEF FillAndFilter, StartHistory, ReadSnapshot, StartRebuild, Doing
  <2>2. UNCHANGED session \/ \E r \in SessionRecord : SessionSound(r) /\ Do(w, r)
    BY <1>7, SessionStep
  <2>3. CASE UNCHANGED session
    <3>1. \A d \in TradeDates : Derived(d)' = Derived(d)
      BY <2>1, DerivedKept
    <3> QED BY <2>1, <2>3, <3>1 DEF DerivedIsCurrent, Covered, Changes
  <2> QED BY <2>1, <2>2, <2>3, NothingOwed DEF Pending
<1>8. ASSUME NEW w \in Sessions, Expect(w) \/ Derive(w) \/ StoreFails(w)
      PROVE  DerivedIsCurrent'
  <2>1. session[w].doing \in {"expecting", "deriving", "storing"} /\ UNCHANGED <<membership, daily, owed>>
    BY <1>8 DEF Expect, Derive, StoreFails, Doing
  <2>2. \E r : Do(w, r)
    BY <1>8 DEF Expect, Derive, StoreFails, Then
  <2> QED BY <2>1, <2>2, NothingOwed DEF Pending
<1> QED BY <1>1, <1>2, <1>3, <1>4, <1>5, <1>6, <1>7, <1>8, Zenon DEF ConceptNext

LEMMA ConceptStart == ConceptInit => ConceptInv /\ DerivedIsCurrent
<1> SUFFICES ASSUME ConceptInit PROVE ConceptInv /\ DerivedIsCurrent
  OBVIOUS
<1>1. session \in [Sessions -> SessionRecord] /\ \A w \in Sessions : session[w] = Resting
  BY RestingSound DEF ConceptInit
<1>2. \A w \in Sessions : session[w].items \subseteq MemberItems
  BY <1>1 DEF SessionRecord
<1>3. ConceptTypeOK
  BY <1>2, ConceptAssumption DEF ConceptInit, ConceptTypeOK, ConceptAssumption
<1> QED BY <1>1, <1>3, RestingSound DEF ConceptInit, ConceptInv, DerivedIsCurrent

\* Every reachable state is of the declared type.
THEOREM ConceptTypeCorrect == ConceptSpec => []ConceptTypeOK
<1>1. ConceptInv => ConceptTypeOK
  BY DEF ConceptInv
<1> QED BY <1>1, ConceptStart, ConceptTypeStep, PTL DEF ConceptSpec

\* A derived daily row is that of its date's members, or somebody who changed
\* them still has to invalidate it, or it is one of those no statement will
\* (owed): the range from a change to the next snapshot is far enough, whatever
\* other writers add, prune and invalidate in between.
THEOREM DerivedStaysCurrent == ConceptSpec => []DerivedIsCurrent
<1> QED BY ConceptStart, ConceptTypeStep, CurrentStep, PTL DEF ConceptSpec
=============================================================================
