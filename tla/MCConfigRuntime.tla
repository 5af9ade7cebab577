---------------------------- MODULE MCConfigRuntime ----------------------------
(* Finite instances of ConfigRuntime. *)
EXTENDS ConfigRuntime, TLC

CONSTANTS p1, p2, tushare, extra, t1, t2, x1, fresh, edited, off, calendar, next_day

OneProc == {p1}
TwoProcs == {p1, p2}

\* tushare is built in and may have two instances, extra is imported.
AllPackages == {tushare, extra}
BuiltinPackages == {tushare}
AllInstances == {t1, t2, x1}
PackageOfInstance == (t1 :> tushare) @@ (t2 :> tushare) @@ (x1 :> extra)
DefaultInstance == (tushare :> t1) @@ (extra :> x1)
Single == {extra}

AllSettings == {fresh, edited, off}
OffSettings == {off}
Switched == (fresh :> off) @@ (edited :> off) @@ (off :> fresh)

\* markets.calendar.trading and markets.calendar.trading.next.
AllContracts == {calendar, next_day}
RootOf == (calendar :> calendar) @@ (next_day :> calendar)
Defaults == (calendar :> {tushare, extra}) @@ (next_day :> {})
Declared == (tushare :> {calendar}) @@ (extra :> {calendar})

Orders == {{t1, t2}, {x1}}
OrdersOfOne == {{t1}, {t1, t2}, {x1}}

Everything == {"save", "enable", "delete", "draft", "publish", "override", "rollback", "query", "import"}

\* One administrator with every operation, crashes and vanishing packages; or
\* two that edit instances and drafts, publish and query at the same time.
Admin == [procs |-> {p1}, kinds |-> Everything, ops |-> 4, crashes |-> 1, unloads |-> TRUE]
Race == [procs |-> TwoProcs, kinds |-> {"save", "draft", "publish", "query"}, ops |-> 3,
         crashes |-> 0, unloads |-> FALSE]
AdminOrRace == {Admin, Race}

\* Edits of instances and overrides, by one process.
OverrideOnly == {[procs |-> {p1}, kinds |-> {"save", "override"}, ops |-> 3, crashes |-> 0,
                  unloads |-> FALSE]}
=============================================================================
