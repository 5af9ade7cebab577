---------------------------- MODULE FactWriters ----------------------------
(***************************************************************************)
(* The fact writers that get_fact_ref_writer hands out, except those of    *)
(* StockReference and ConceptFacts.  A writer is a short program of        *)
(* statements; each one is committed by itself (execute_sql, execute_many, *)
(* execute_many_with_migration_journal) and the first that returns False   *)
(* ends the writer, with what came before it in place.                     *)
(*                                                                         *)
(* The programs are a table.  One family of tables, those that share rows, *)
(* is followed at a time; a table has one value for each of Keys, which    *)
(* are codes on one day, or the minutes of one day.                        *)
(***************************************************************************)
EXTENDS Integers, FiniteSets, Sequences, TLC

CONSTANTS FactSessions, Keys, Values,
          NullText, \* null, or the empty text
          NoFact    \* no row

ASSUME FactAssumption ==
  /\ IsFiniteSet(Keys)
  /\ NoFact \notin Values \cup {NullText}

VARIABLES family,   \* the tables followed
          table, fact,
          lastDay,  \* ghost: the keys of the last answer for the day
          mixed     \* ghost: two writers overlapped or one stopped short

factVars == <<family, table, fact, lastDay, mixed>>

Families ==
  {"adjustment", "flow", "etf", "board", "members", "index", "catalog", "intraday"}

\* A statement: its table, what a conflict does, and what its rows carry.
Stmt(t, how, carries) == [on |-> t, how |-> how, carries |-> carries]

\* get_fact_ref_writer, for each family.
Writers(f) ==
  CASE f = "adjustment" ->
         [daily   |-> << Stmt("daily", "insert", "blank") >>,
          factors |-> << Stmt("daily", "fill", "answer") >>]
    [] f = "flow" ->
         [snapshot |-> << Stmt("flow", "merge", "answer") >>]
    [] f = "etf" ->
         [catalog |-> << Stmt("reference", "known", "answer") >>,
          daily   |-> << Stmt("reference", "known", "blank"), Stmt("rows", "replace", "answer") >>]
    [] f = "board" ->
         [catalog |-> << Stmt("reference", "replace", "answer") >>,
          daily   |-> << Stmt("rows", "clear", "answer"), Stmt("reference", "replace", "answer"),
                         Stmt("rows", "replace", "answer") >>]
    [] f = "members" ->
         [history |-> << Stmt("members", "look", "answer"), Stmt("members", "swap", "answer") >>]
    [] f = "index" ->
         [catalog |-> << Stmt("reference", "replace", "answer") >>,
          daily   |-> << Stmt("rows", "replace", "answer"), Stmt("reference", "replace", "code") >>]
    [] f = "catalog" ->   \* calendar, name history, concept catalogue
         [any |-> << Stmt("reference", "replace", "answer") >>]
    [] f = "intraday" ->
         [bars |-> << Stmt("bars", "complete", "answer"), Stmt("coverage", "count", "answer"),
                      Stmt("events", "replace", "answer") >>,
          live |-> << Stmt("bars", "insert", "answer") >>]

Tables  == {"daily", "flow", "reference", "rows", "members", "bars", "coverage", "events"}
NoRows  == [k \in Keys |-> NoFact]
Cells   == Values \cup {NullText, NoFact} \cup (0..Cardinality(Keys))

\* A session: its writer, the next statement, the answer it was given and
\* the rows it saw.
Unused == [writer |-> "none", at |-> 1, answer |-> NoRows, seen |-> NoRows]

\* Answers are items by key; a key may be missing, a value may be blank.
AnswerRows == [Keys -> Values \cup {NullText, NoFact}] \ {NoRows}
KeysOf(rows) == {k \in Keys : rows[k] # NoFact}

FactInit ==
  /\ family \in Families
  /\ table = [t \in Tables |-> NoRows]
  /\ fact = [w \in FactSessions |-> Unused]
  /\ lastDay = {} /\ mixed = FALSE

Idle(w)     == fact[w].writer = "none"
Program(w)  == Writers(family)[fact[w].writer]
Current(w)  == Program(w)[fact[w].at]
LastOne(w)  == fact[w].at = Len(Program(w))

StartWriter(w) ==
  /\ Idle(w)
  /\ \E name \in DOMAIN Writers(family), answer \in AnswerRows :
       fact' = [fact EXCEPT ![w] = [Unused EXCEPT !.writer = name, !.answer = answer]]
  /\ mixed' = (mixed \/ \E v \in FactSessions : ~Idle(v))
  /\ UNCHANGED <<family, table, lastDay>>

----------------------------------------------------------------------------
(* What a statement does with one row                                       *)

\* _index_catalog_from_quotes gives an index it does not know its code for a
\* name; the catalogue rows of etf quotes have blank names.
Carried(s, k, answer) ==
  IF answer[k] = NoFact \/ s.carries = "answer" THEN answer[k] ELSE NullText

\* Whether the new value is taken; "fill" is an update and makes no rows.
Taken(how, old, new) ==
  CASE how = "insert" -> old = NoFact
    [] how = "fill"   -> old = NullText
    [] how = "merge"  -> old \in {NoFact, NullText}
    [] how = "known"  -> old = NoFact \/ new # NullText
    [] OTHER          -> TRUE

Conflict(how, old, new) == IF new # NoFact /\ Taken(how, old, new) THEN new ELSE old

\* _complete_stock_1m_items: a day is written when all its minutes are there,
\* with their prices.
WholeDay(answer) == \A k \in Keys : answer[k] \in Values

Conflicted(s, answer) ==
  [k \in Keys |-> Conflict(s.how, table[s.on][k], Carried(s, k, answer))]

\* Mutant: the day's rows stay.
ClearedNot(s) == table[s.on]
\* delete from fact.board_daily_1d of a day
Cleared(s) == NoRows

\* The swap deletes the rows its snapshot had; what another session inserted
\* since is not among them.
Effect(s, answer, seen) ==
  CASE s.how = "clear" -> Cleared(s)
    [] s.how = "swap"  -> [k \in Keys |-> IF answer[k] # NoFact THEN answer[k]
                                          ELSE IF seen[k] # NoFact THEN NoFact
                                          ELSE table[s.on][k]]
    [] s.how = "count" -> [k \in Keys |-> Cardinality(KeysOf(table["bars"]))]
    [] OTHER           -> Conflicted(s, answer)

----------------------------------------------------------------------------
(* Running a program                                                        *)

\* Without a whole day there is nothing to write, and the writer is done.
NothingToWrite(w) == Current(w).how = "complete" /\ ~WholeDay(fact[w].answer)

Continue(w) ==
  IF LastOne(w) \/ NothingToWrite(w) THEN Unused
  ELSE [fact[w] EXCEPT !.at = @ + 1,
                       !.seen = IF Current(w).how = "look" THEN table[Current(w).on] ELSE @]

Execute(w) ==
  /\ ~Idle(w)
  /\ table' = IF NothingToWrite(w) \/ Current(w).how = "look" THEN table
              ELSE [table EXCEPT ![Current(w).on] = Effect(Current(w), fact[w].answer, fact[w].seen)]
  /\ fact' = [fact EXCEPT ![w] = Continue(w)]
  /\ lastDay' = IF LastOne(w) /\ fact[w].writer \in {"daily", "history"}
                THEN KeysOf(fact[w].answer) ELSE lastDay
  /\ UNCHANGED <<family, mixed>>

\* Mutant: the writer goes on after a statement that returned False.
FailsOn(w) == IF LastOne(w) THEN Unused ELSE [fact[w] EXCEPT !.at = @ + 1]
StoppedAt(w) == Unused

\* execute_many and execute_sql return False, or the process dies.
StatementFails(w) ==
  /\ ~Idle(w)
  /\ fact' = [fact EXCEPT ![w] = StoppedAt(w)]
  /\ mixed' = TRUE
  /\ UNCHANGED <<family, table, lastDay>>

FactNext == \E w \in FactSessions : StartWriter(w) \/ Execute(w) \/ StatementFails(w)

FactSpec == FactInit /\ [][FactNext]_factVars

----------------------------------------------------------------------------

FactTypeOK ==
  /\ family \in Families /\ table \in [Tables -> [Keys -> Cells]]
  /\ \A w \in FactSessions : Idle(w) \/ fact[w].at \in DOMAIN Program(w)

\* A board or fund with a daily row is in the reference table, whatever
\* statement failed and whoever wrote beside it.
RowsHaveReference ==
  family \in {"etf", "board"} => KeysOf(table["rows"]) \subseteq KeysOf(table["reference"])

\* While writers neither overlap nor stop short, a day of board rows, or the
\* members of a board, are those of the last answer: what it no longer lists
\* is gone.
DayIsOneAnswer ==
  /\ family = "board" /\ ~mixed /\ (\A w \in FactSessions : Idle(w)) => KeysOf(table["rows"]) = lastDay
  /\ family = "members" /\ ~mixed /\ (\A w \in FactSessions : Idle(w)) =>
       KeysOf(table["members"]) = lastDay

=============================================================================
