---------------------------- MODULE MCIndexStore ----------------------------
(***************************************************************************)
(* Small workspaces for IndexStore: a caller, a module it imports, which   *)
(* may re-export another, and a module with the symbol.                    *)
(***************************************************************************)
EXTENDS IndexStore, TLC

CONSTANTS run, help, other

caller == 1
barrel == 2
leaf == 3
MCFiles == {caller, barrel, leaf}
MCNames == {run, help, other}

MCText(defines, calls, from) == [defines |-> defines, calls |-> calls, from |-> from]

\* run() calls help(), imported from the barrel; or calls nothing.
Calling  == MCText(run, {help}, barrel)
Silent   == MCText(run, {}, NoFile)
\* The barrel re-exports the leaf, or defines help itself.
Forward  == MCText(NoName, {}, leaf)
Defining == MCText(help, {}, NoFile)
\* The leaf defines help, which calls run by its plain name, or something else.
Helping  == MCText(help, {run}, NoFile)
Changed  == MCText(other, {run}, NoFile)

MCHolds == [f \in MCFiles |->
    CASE f = caller -> {Calling, Silent}
      [] f = barrel -> {Forward, Defining}
      [] f = leaf   -> {Helping, Changed, Absent}]

\* The barrel may be deleted.
MCHoldsDeleted == [f \in MCFiles |->
    CASE f = caller -> {Calling}
      [] f = barrel -> {Forward, Absent}
      [] f = leaf   -> {Helping}]

\* Without imports: a call and the only symbol of its name appear in two files.
MCPair == {caller, leaf}
ByName == MCText(run, {help}, NoFile)

MCHoldsByName == [f \in MCPair |->
    CASE f = caller -> {Silent, ByName}
      [] f = leaf   -> {Changed, MCText(help, {}, NoFile)}]

\* A single file that comes and goes.
MCOnly == {leaf}
MCHoldsOnly == [f \in MCOnly |-> {Helping, Absent}]
=============================================================================
