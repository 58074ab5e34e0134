-------------------------------- MODULE Gateway --------------------------------
(***************************************************************************)
(* arborist-gateway over stdio (gateway_cli.py, gateway.py, batch_tools.py,*)
(* mcp_tools.py, jsonrpc.py): one request a line, one after the other, an  *)
(* answer for each but a notification, and batches of read-only calls that *)
(* share a deadline.                                                       *)
(*                                                                         *)
(* The tools are those on persisted indexes; each runs as a call of        *)
(* IndexLifecycle, step by step.  Every other method (initialize,          *)
(* tools/list, ...) answers at once.  A tool call by its method and by     *)
(* tools/call are one, with its failure an error either way.               *)
(***************************************************************************)
EXTENDS IndexLifecycle, Sequences

CONSTANTS
    gateway,   \* the gateway process
    MaxCalls,  \* MAX_BATCH_CALLS
    PerMs,     \* ticks of the clock in a millisecond
    MaxClock   \* bound: how long the clock runs within a batch

ASSUME GatewayAssumption ==
    /\ gateway \in Processes
    /\ MaxCalls \in Nat \ {0}
    /\ PerMs \in Nat \ {0}
    /\ MaxClock \in Nat

ToolCall == [tool: Kinds, db: Databases, timeout: Nat]

\* garbled: bytes that are not UTF-8; malformed: a line that is no request.
\* other: a method that is no tool.  A timeout of 0 is none.
\* A tool line has its call.
Line ==
    {line \in [kind: {"blank", "garbled", "malformed", "other", "tool", "batch"},
               notification: BOOLEAN, calls: Seq(ToolCall), timeout: Nat] :
        line.kind = "tool" => Len(line.calls) = 1}

VARIABLE server \* the client's lines, where the gateway is, what it has answered

\* at: lines read; next: the call of a batch that is next or running; deadline:
\* that of the batch; result: what the answer will say; answers: the lines
\* answered, and how.
Server == [lines: Seq(Line), at: Nat, pc: {"read", "batch", "running", "respond", "exited"},
           next: Nat, deadline: Nat, result: {"none", "result", "error"},
           answers: Seq([line: Nat, says: {"result", "error"}])]

Current == server.lines[server.at]
Batching == server.pc \in {"batch", "running"} /\ Current.kind = "batch"

Serving(lines) ==
    [lines |-> lines, at |-> 0, pc |-> "read", next |-> 0, deadline |-> 0,
     result |-> "none", answers |-> <<>>]
-----------------------------------------------------------------------------
ReadOnly == {"inspect", "query"}

\* Mutant: only the first call is checked.
BatchIsValidAtFirst(calls) ==
    /\ Len(calls) \in 1 .. MaxCalls
    /\ calls[1].tool \in ReadOnly

\* All calls are checked before any runs.
BatchIsValid(calls) ==
    /\ Len(calls) \in 1 .. MaxCalls
    /\ \A i \in 1 .. Len(calls) : calls[i].tool \in ReadOnly

Respond(result) == [server EXCEPT !.pc = "respond", !.result = result]

\* A batch ends its calls and its deadline with it.
Conclude(result) ==
    /\ server' = [Respond(result) EXCEPT !.deadline = 0, !.next = 0]
    /\ clock' = 0

EndOfInput ==
    /\ server.pc = "read" /\ server.at = Len(server.lines)
    /\ server' = [server EXCEPT !.pc = "exited"]
    /\ UNCHANGED vars

\* The decoder of the input takes a chunk at a time: bytes that are not UTF-8
\* take lines with them that come before and have not been read.
ReadGarbled ==
    /\ server.pc = "read"
    /\ \E i \in server.at + 1 .. Len(server.lines) :
        /\ server.lines[i].kind = "garbled"
        /\ \A j \in server.at + 1 .. i - 1 : server.lines[j].kind # "garbled"
        /\ server' = [server EXCEPT !.at = i, !.pc = "respond", !.result = "error"]
    /\ UNCHANGED vars

\* Reads a line and starts what it asks for.
ReadLine ==
    /\ server.pc = "read" /\ server.at < Len(server.lines)
    /\ LET line == server.lines[server.at + 1]
           Goes(pc) == [server EXCEPT !.at = server.at + 1, !.pc = pc]
       IN
       \/ /\ line.kind = "blank"
          /\ server' = Goes("read")
          /\ UNCHANGED vars
       \/ /\ line.kind = "malformed"
          /\ server' = [Goes("respond") EXCEPT !.result = "error"]
          /\ UNCHANGED vars
       \/ /\ line.kind = "other"
          /\ \E result \in {"result", "error"} :
                server' = [Goes("respond") EXCEPT !.result = result]
          /\ UNCHANGED vars
       \/ /\ line.kind = "tool"
          /\ LET call == line.calls[1]
             IN  Start(gateway, call.tool, call.db, DefaultMaxFiles, PerMs * call.timeout)
          /\ server' = Goes("running")
          /\ UNCHANGED clock
       \/ /\ line.kind = "batch" /\ BatchIsValid(line.calls)
          /\ server' = [Goes("batch") EXCEPT !.next = 1,
                            !.deadline = clock + PerMs * line.timeout]
          /\ UNCHANGED vars
       \/ /\ line.kind = "batch" /\ ~BatchIsValid(line.calls)
          /\ server' = [Goes("respond") EXCEPT !.result = "error"]
          /\ UNCHANGED vars

HasDeadline == Current.timeout # 0
OutOfTime == HasDeadline /\ clock >= server.deadline

\* What is left of the batch's time, in whole milliseconds, rounded up.
Remaining == (server.deadline - clock + PerMs - 1) \div PerMs

\* Mutant: a call's own timeout goes before what is left.
CallTimeoutFirst(call) == IF ~HasDeadline \/ call.timeout # 0 THEN call.timeout ELSE Remaining

\* A call has the smaller of its own timeout and what is left.
CallTimeout(call) ==
    IF ~HasDeadline THEN call.timeout
    ELSE IF call.timeout = 0 \/ Remaining < call.timeout THEN Remaining
    ELSE call.timeout

CallDeadline(call) == IF CallTimeout(call) = 0 THEN 0 ELSE clock + PerMs * CallTimeout(call)

RunBatchCall ==
    /\ server.pc = "batch"
    /\ LET call == Current.calls[server.next]
       IN  IF OutOfTime
           THEN Conclude("error") /\ UNCHANGED <<disk, db, op, calm, torn>>
           ELSE /\ Start(gateway, call.tool, call.db, DefaultMaxFiles, CallDeadline(call))
                /\ server' = [server EXCEPT !.pc = "running"]
                /\ UNCHANGED clock

Succeeded == op[gateway].says \notin {"refused", "failed"}

ToolReturns ==
    /\ server.pc = "running" /\ Current.kind = "tool" /\ Finished(gateway)
    /\ Leave(gateway)
    /\ Conclude(IF Succeeded THEN "result" ELSE "error")

\* Mutant: the same call is next.
BatchCallReturnsToItself ==
    /\ server.pc = "running" /\ Current.kind = "batch" /\ Finished(gateway)
    /\ Leave(gateway)
    /\ IF ~Succeeded \/ OutOfTime
       THEN Conclude("error")
       ELSE /\ server' = [server EXCEPT !.pc = "batch"]
            /\ UNCHANGED clock

\* A call that fails, or ends after the deadline, fails the batch.
BatchCallReturns ==
    /\ server.pc = "running" /\ Current.kind = "batch" /\ Finished(gateway)
    /\ Leave(gateway)
    /\ IF ~Succeeded \/ OutOfTime
       THEN Conclude("error")
       ELSE IF server.next < Len(Current.calls)
       THEN /\ server' = [server EXCEPT !.pc = "batch", !.next = server.next + 1]
            /\ UNCHANGED clock
       ELSE Conclude("result")

\* Mutant: a line is a notification whenever it has no id.
AnsweredWithId == ~Current.notification

\* A line that is no request is no notification either.
Answered == ~(Current.notification /\ Current.kind \in {"other", "tool", "batch"})

WriteAnswer ==
    /\ server.pc = "respond"
    /\ server' = [server EXCEPT
            !.pc = IF Current.kind = "garbled" THEN "exited" ELSE "read",
            !.result = "none",
            !.answers = IF Answered
                        THEN Append(server.answers, [line |-> server.at, says |-> server.result])
                        ELSE server.answers]
    /\ UNCHANGED vars

\* What the gateway does by itself.
GatewayStep ==
    \/ EndOfInput \/ ReadGarbled \/ ReadLine \/ RunBatchCall \/ ToolReturns \/ BatchCallReturns
    \/ WriteAnswer
    \/ Step(gateway) /\ UNCHANGED server

\* The client has closed the pipe the answer is written to.
PipeClosed ==
    /\ ~calm
    /\ server.pc = "respond" /\ Answered
    /\ server' = [server EXCEPT !.pc = "exited"]
    /\ UNCHANGED vars

\* Time passes while a call with a deadline runs, or between two of a batch.
Tick ==
    /\ clock < MaxClock
    /\ \/ Batching /\ HasDeadline
       \/ server.pc = "running" /\ op[gateway].deadline # 0
    /\ clock' = clock + 1
    /\ UNCHANGED <<disk, db, op, calm, torn, server>>

GatewayFails == Fail(gateway) /\ UNCHANGED server

GatewayNext == GatewayStep \/ PipeClosed \/ Tick \/ GatewayFails
-----------------------------------------------------------------------------
GatewayTypeOK ==
    /\ server \in Server
    /\ server.at <= Len(server.lines)
    /\ server.pc = "batch" => server.next \in 1 .. Len(Current.calls)

Expected(line) ==
    /\ line.kind # "blank"
    /\ ~(line.notification /\ line.kind \in {"other", "tool", "batch"})

\* A client can match answers with requests by counting: every line that
\* expects one has one answer, in the order of the lines, before the next line
\* is read; notifications have none, even those that fail.  Only bytes that are
\* not UTF-8 may cost lines their answers: the last ones before those bytes,
\* which end the session.
EachRequestIsAnsweredOnce ==
    /\ \A k \in 1 .. Len(server.answers) :
        /\ server.answers[k].line \in 1 .. server.at
        /\ Expected(server.lines[server.answers[k].line])
        /\ k > 1 => server.answers[k - 1].line < server.answers[k].line
    /\ \A i \in 1 .. server.at :
        Expected(server.lines[i]) /\ (i < server.at \/ server.pc = "read") =>
            \/ \E k \in 1 .. Len(server.answers) : server.answers[k].line = i
            \/ /\ Current.kind = "garbled"
               /\ \A k \in 1 .. Len(server.answers) :
                    server.answers[k].line < i \/ server.answers[k].line = server.at

\* No call of a batch may run on when the batch's time is over, but for the
\* part of a millisecond its timeout is rounded up by.
CallsEndWithTheirBatch ==
    Batching /\ HasDeadline /\ op[gateway] # Idle =>
        op[gateway].deadline \in 1 .. server.deadline + PerMs - 1

\* A batch with a call that would write an index runs none of its calls, also
\* not those before it, and the calls of the others write nothing.
BatchesWriteNothing ==
    [][Batching /\ op'[gateway] # op[gateway] =>
        /\ \A i \in 1 .. Len(Current.calls) : Current.calls[i].tool \in ReadOnly
        /\ db' = db]_<<vars, server>>

\* The gateway works off its input: no call keeps it for ever.
EveryLineIsServed == <>(server.pc = "exited")
=============================================================================
