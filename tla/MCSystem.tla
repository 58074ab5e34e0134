------------------------------- MODULE MCSystem -------------------------------
(***************************************************************************)
(* Two small workspaces for System, one inside the other.  The outer has a *)
(* file that changes, one that does not and one without symbols that comes *)
(* and goes, which makes one file more than a scan takes; the inner has    *)
(* the last two.                                                           *)
(***************************************************************************)
EXTENDS System, TLC

CONSTANTS long, short, bare, main, other, w, g

changing == 1
fixed == 2
extra == 3
MCFiles == {changing, fixed, extra}
MCTexts == {long, short, bare}
MCLength == [t \in MCTexts |-> IF t = short THEN 1 ELSE 2]
MCReach == [t \in MCTexts |-> CASE t = long -> 2 [] t = short -> 1 [] t = bare -> 0]
MCHolds == [f \in MCFiles |->
    CASE f = changing -> {long, short}
      [] f = fixed    -> {long}
      [] f = extra    -> {bare, Absent}]
MCWorkspaceOf == [d \in {main, other} |->
    IF d = main THEN {changing, fixed, extra} ELSE {fixed, extra}]

Of(d, schema, provenance, text) ==
    LET states == [f \in MCFiles |->
            IF f \in {changing, fixed} \cap MCWorkspaceOf[d] THEN text ELSE Absent]
    IN  [schema |-> schema, provenance |-> provenance,
         count |-> Cardinality(Stored(states)), states |-> states,
         rows |-> [f \in MCFiles |->
            IF states[f] = Absent THEN Absent
            ELSE [text |-> text, current |-> schema = "current" /\ provenance]]]

Opaque(schema) == [Missing EXCEPT !.schema = schema]

On(mainIndex, otherIndex) == [d \in {main, other} |-> IF d = main THEN mainIndex ELSE otherIndex]

ToolOn(tool, d, timeout) == [tool |-> tool, db |-> d, timeout |-> timeout]
ALine(kind, notification, calls, timeout) ==
    [kind |-> kind, notification |-> notification, calls |-> calls, timeout |-> timeout]
Asking(tool, timeout) == ALine("tool", FALSE, <<ToolOn(tool, main, timeout)>>, 0)
Batch(calls, timeout) == ALine("batch", FALSE, calls, timeout)
Garbled == ALine("garbled", FALSE, <<>>, 0)
Malformed == ALine("malformed", TRUE, <<>>, 0)
Blank == ALine("blank", FALSE, <<>>, 0)
Other(notification) == ALine("other", notification, <<>>, 0)

Scenario(started, lines, databases) ==
    [watch |-> started, lines |-> lines, databases |-> databases]

OldMain == Of(main, "old", FALSE, long)
CurrentMain == Of(main, "current", TRUE, long)
Outdated == Of(main, "current", FALSE, long)
CurrentOther == Of(other, "current", TRUE, long)

\* The watch alone, over both workspaces or the inner one.
Watching ==
    {Scenario(Started(mode, <<main, other>>), <<>>, On(index, Opaque("missing"))) :
        mode \in {"loop", "once"}, index \in {Opaque("missing"), OldMain}}
    \cup {Scenario(Started(mode, <<main, other>>), <<>>, On(OldMain, CurrentOther)) :
        mode \in {"dry loop", "dry once", "check"}}
    \cup {Scenario(Started("loop", <<other, main>>), <<>>, On(index, Opaque("missing"))) :
        index \in {Outdated, Opaque("unknown"), Opaque("foreign")}}
    \cup {Scenario(Started("loop", <<other>>), <<>>, On(Opaque("missing"), index)) :
        index \in {Opaque("missing"), CurrentOther}}

\* The watch over one workspace that a gateway refreshes or queries.
Sharing ==
    {Scenario(Started("loop", <<main>>), <<Asking("refresh", 0)>>, On(index, Opaque("missing"))) :
        index \in {Opaque("missing"), CurrentMain}}
    \cup {Scenario(Started("loop", <<main>>), <<Asking("query", 0)>>, On(OldMain, Opaque("missing")))}

\* The gateway alone.
Served ==
    {Scenario(NoWatch, lines, On(index, Opaque("missing"))) :
        lines \in {
            <<ALine("tool", TRUE, <<ToolOn("migrate", main, 0)>>, 0), Malformed, Asking("query", 0)>>,
            <<Blank, Batch(<<ToolOn("inspect", main, 3), ToolOn("query", main, 0)>>, 2), Garbled, Blank>>,
            <<Batch(<<ToolOn("query", main, 0), ToolOn("refresh", main, 0)>>, 0), Asking("migrate", 1),
              Other(TRUE), Other(FALSE)>>},
        index \in {OldMain, CurrentMain}}

\* The watch alone over an index it has to migrate.
MCMigrating == {Scenario(Started("loop", <<main>>), <<>>, On(OldMain, Opaque("missing")))}

MCScenarios == Watching \cup Sharing \cup Served
=============================================================================
