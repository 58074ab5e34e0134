-------------------------------- MODULE System --------------------------------
(***************************************************************************)
(* A watch and a gateway on the same indexes, while other programs write   *)
(* the source files, delete databases, and anything may fail.  The         *)
(* processes are the operating system's: nothing but the databases and the *)
(* files is common to them.                                                *)
(***************************************************************************)
EXTENDS IndexWatch, Gateway

CONSTANT Scenarios \* how a watch and a session may start, and on what

ASSUME ScenarioAssumption ==
    /\ watcher # gateway
    /\ \A s \in Scenarios :
        /\ s.watch \in Watch
        /\ \/ s.watch = NoWatch
           \/ s.watch = Started(s.watch.mode, s.watch.targets) /\ s.watch.targets # <<>>
        /\ s.lines \in Seq(Line)
        /\ s.databases \in [Databases -> {index \in Database : Leftover(index)}]

systemVars == <<disk, db, op, clock, calm, torn, watch, server>>

SystemInit ==
    \E s \in Scenarios :
        /\ disk \in {d \in Sources : \A f \in Files : d[f] \in Holds[f]}
        /\ db = s.databases
        /\ op = [p \in Processes |-> Idle]
        /\ clock = 0
        /\ calm = FALSE
        /\ torn = {}
        /\ watch = s.watch
        /\ server = Serving(s.lines)

\* Other programs leave the workspaces alone from here on, the gateway has no
\* more to do, and nothing fails.
CalmDown ==
    /\ ~calm
    /\ server.pc = "exited"
    /\ \A p \in Processes \ {watcher, gateway} : op[p] = Idle
    /\ calm' = TRUE
    /\ UNCHANGED <<disk, db, op, clock, torn>>

SystemNext ==
    \/ WatchNext /\ UNCHANGED server
    \/ GatewayNext /\ UNCHANGED watch
    \/ (Elsewhere \/ CalmDown) /\ UNCHANGED <<watch, server>>

\* A process that can go on does so: the operating system runs it, and no call
\* waits for another process but for OneMigration, an assumption on schedules.
\* Nothing makes other programs, failures, interrupts or clients do anything.
SystemSpec ==
    /\ SystemInit /\ [][SystemNext]_systemVars
    /\ WF_systemVars(WatchStep /\ UNCHANGED server)
    /\ WF_systemVars(GatewayStep /\ UNCHANGED watch)
-----------------------------------------------------------------------------
SystemTypeOK == TypeOK /\ WatchTypeOK /\ GatewayTypeOK
=============================================================================
