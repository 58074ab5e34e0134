----------------------------- MODULE PatchReview -----------------------------
(***************************************************************************)
(* The review of a patch before anybody writes it                          *)
(* (api_patch_validation.rs): the commit gate judges the names the patched *)
(* symbol calls (patching/commit_gate.rs), the workspace is loaded with    *)
(* the patched text in place of the file and the symbol is traced in it,   *)
(* the evidence of the gate is replayed against the trace                  *)
(* (api_patch_validation/replay.rs), and, depending on the tool, the       *)
(* neighborhood of the symbol is expanded and the source of its nodes is   *)
(* quoted.  read_symbol_discovery_context is the same load, trace,         *)
(* neighborhood and quotes without a patch.                                *)
(*                                                                         *)
(* Nothing is locked: every load reads the files one after another while   *)
(* other programs write them, and the quotes read them once more.          *)
(*                                                                         *)
(* A text is the sequence of its definitions; the place of a definition    *)
(* stands for its byte range.  A symbol is defined at most once in a text  *)
(* and never in two files, and every file sees the definitions of every    *)
(* other (it includes them; no write changes that, so what the resolvers   *)
(* read again to find the includes is the same each time).                 *)
(***************************************************************************)
EXTENDS Neighborhood

CONSTANTS
    Files,
    PathOrder,   \* the place of a file in the order of the paths
    Own,         \* the file that the patch is for
    Locals,      \* names that the scope of the patched symbol provides
    Texts,       \* the texts a file may hold
    Patches,     \* what the tools are called with
    Bounds,      \* limits of the neighborhood: depth and number of nodes
    Sorted(_),   \* a set of symbols as the list the resolution writes
    MaxWrites    \* writes of other programs

Definition == [name: Symbols, calls: SUBSET (Symbols \cup Locals)]

ASSUME FilesAssumption == Own \in Files /\ PathOrder \in [Files -> Nat] /\ Symbols # {}
ASSUME TextsAssumption == Texts \in [Files -> SUBSET Seq(Definition)]
ASSUME PatchesAssumption ==
    Patches \subseteq [target: Symbols, before: Seq(Definition), after: Seq(Definition),
                       broken: BOOLEAN]
ASSUME BoundsAssumption == Bounds \subseteq [depth: Nat, nodes: Nat \ {0}]
ASSUME SortedAssumption ==
    \A S \in SUBSET Symbols : Sorted(S) \in Seq(Symbols) /\ Listed(Sorted(S)) = S
ASSUME MaxWritesAssumption == MaxWrites \in Nat

VARIABLES
    disk,       \* the text of each file
    seen,       \* history: the texts each file held since the call began
    writes,     \* how often another program wrote
    review,     \* the call: its tool, patch, direction and bypass
    step,       \* what the call does
    stage,      \* which of its queries it is at
    loaded,     \* the texts the query has read
    gate,       \* the judgement of the gate and its evidence
    baseline,   \* the trace before the patch
    trace,      \* the trace after it
    cache,      \* the texts read for quotes
    reads,      \* the quotes
    decision    \* what the review says of the patch

reviewVars == <<disk, seen, writes, review, step, stage, loaded, gate, baseline, trace,
                cache, reads, decision>>
vars == <<reviewVars, searchVars>>

Kinds == {"trace", "graph", "neighborhood", "discovery", "read"}
\* A review is of the symbol that it patches.
Reviews ==
    {r \in [kind: Kinds, patch: Patches, root: Symbols, direction: Directions, bypass: BOOLEAN] :
        IF r.kind = "read" THEN ~r.bypass ELSE r.root = r.patch.target}

\* Mutant: the discovery loads the workspace again for the neighborhood.
StagesApart(kind) ==
    CASE kind = "trace" -> <<"gate", "baseline", "trace">>
      [] kind = "graph" -> <<"gate", "trace", "neighborhood">>
      [] kind = "read"  -> <<"trace", "context">>
      [] OTHER          -> <<"gate", "trace", "context">>

\* The queries of a tool, each with a load of its own.
Stages(kind) ==
    CASE kind = "trace"        -> <<"gate", "baseline", "trace">>
      [] kind = "graph"        -> <<"gate", "trace", "neighborhood">>
      [] kind = "neighborhood" -> <<"gate", "trace", "context">>
      [] kind = "discovery"    -> <<"gate", "discovery">>
      [] kind = "read"         -> <<"discovery">>

Stage == Stages(review.kind)[stage]
Patch == review.patch
Root == review.root
NoTrace == [callers |-> {}, callees |-> {}]
NotJudged == [status |-> "none", evidence |-> {}]
Nothing == [f \in {} |-> <<>>]
With(function, f, value) ==
    [g \in DOMAIN function \cup {f} |-> IF g = f THEN value ELSE function[g]]
-----------------------------------------------------------------------------
(* A workspace as loaded.                                                  *)

Names(text) == {text[i].name : i \in 1 .. Len(text)}
Place(text, s) == CHOOSE i \in 1 .. Len(text) : text[i].name = s
Defined == UNION {Names(loaded[f]) : f \in DOMAIN loaded}
FileOf(s) == CHOOSE f \in DOMAIN loaded : s \in Names(loaded[f])
PlaceOf(s) == Place(loaded[FileOf(s)], s)
CallsOf(s) == loaded[FileOf(s)][PlaceOf(s)].calls

Callees(s) == (CallsOf(s) \cap Defined) \ {s}
Callers(s) == {t \in Defined \ {s} : s \in CallsOf(t)}

Resolved ==
    [s \in Defined |-> [references |-> Sorted(Callers(s)), dependencies |-> Sorted(Callees(s))]]

TraceOf(s) ==
    [callers |-> IF review.direction = "callees" THEN {} ELSE Callers(s),
     callees |-> IF review.direction = "callers" THEN {} ELSE Callees(s)]

\* The text in place of the patched file; a query by itself has the buffer's.
OverrideText ==
    IF Stage = "baseline" \/ review.kind = "read" THEN Patch.before ELSE Patch.after

SourceNow(f) == IF f = Own THEN OverrideText ELSE disk[f]
-----------------------------------------------------------------------------
(* The steps of a call.                                                    *)

Loading == step = "loading"
SkipsTheLoad == Stage = "gate" /\ Patch.broken

\* build_workspace_index_with_deadline; the gate reads what the patch includes.
ReadFile(f) ==
    /\ Loading /\ ~SkipsTheLoad /\ f \notin DOMAIN loaded
    /\ \A g \in Files : PathOrder[g] < PathOrder[f] => g \in DOMAIN loaded
    /\ loaded' = With(loaded, f, SourceNow(f))
    /\ UNCHANGED <<disk, seen, writes, review, step, stage, gate, baseline, trace, cache, reads,
                   decision, searchVars>>

Complete == Loading /\ DOMAIN loaded = Files

\* Mutant: one stage too many.
NextStageTooFar ==
    IF stage <= Len(Stages(review.kind))
    THEN step' = "loading" /\ stage' = stage + 1 /\ loaded' = Nothing
    ELSE step' = "answered" /\ UNCHANGED <<stage, loaded>>

NextStage ==
    IF stage < Len(Stages(review.kind))
    THEN step' = "loading" /\ stage' = stage + 1 /\ loaded' = Nothing
    ELSE /\ step' = IF review.kind = "read" THEN "answered" ELSE "deciding"
         /\ UNCHANGED <<stage, loaded>>

\* The evidence for each name that the patched symbol calls.
EvidenceOf(n) ==
    [name |-> n,
     status |-> IF n \in Locals \cup Defined THEN "passed" ELSE "blocked",
     scoped |-> n \in Locals]

Evidence == IF Patch.broken \/ Root \notin Defined THEN {} ELSE {EvidenceOf(n) : n \in CallsOf(Root)}

GateStatus(evidence) ==
    IF ~Patch.broken /\ \A e \in evidence : e.status = "passed" THEN "allowed"
    ELSE IF review.bypass THEN "allowed_with_bypass"
    ELSE "rejected"

\* A patch that does not parse or is not allowed is not traced.
JudgePatch ==
    /\ Loading /\ Stage = "gate" /\ (SkipsTheLoad \/ Complete)
    /\ gate' = [status |-> GateStatus(Evidence), evidence |-> Evidence]
    /\ IF Patch.broken \/ gate'.status = "rejected"
       THEN step' = "answered" /\ decision' = "skipped" /\ UNCHANGED <<stage, loaded>>
       ELSE NextStage /\ UNCHANGED decision
    /\ UNCHANGED <<disk, seen, writes, review, baseline, trace, cache, reads, searchVars>>

TraceBaseline ==
    /\ Complete /\ Stage = "baseline" /\ Root \in Defined
    /\ baseline' = TraceOf(Root)
    /\ NextStage
    /\ UNCHANGED <<disk, seen, writes, review, gate, trace, cache, reads, decision, searchVars>>

TracePatched ==
    /\ Complete /\ Stage = "trace" /\ Root \in Defined
    /\ trace' = TraceOf(Root)
    /\ NextStage
    /\ UNCHANGED <<disk, seen, writes, review, gate, baseline, cache, reads, decision, searchVars>>

Search(bounds) ==
    [graph |-> Resolved, root |-> Root, direction |-> review.direction,
     maxDepth |-> bounds.depth, maxNodes |-> bounds.nodes]

ExpandPatched ==
    /\ Complete /\ Stage \in {"neighborhood", "context"} /\ Root \in Defined
    /\ step' = "searching"
    /\ \E bounds \in Bounds : StartSearch(Search(bounds))
    /\ UNCHANGED <<disk, seen, writes, review, stage, loaded, gate, baseline, trace, cache, reads,
                   decision>>

\* Mutant: every quote reads its file again.
SourceEachTime(f) == SourceNow(f)
\* symbol_source_text_with_cache.
CachedSource(f) == IF f \in DOMAIN cache THEN cache[f] ELSE SourceNow(f)

\* A quote is the place where the symbol was when the workspace was loaded, in
\* the text that the file holds now.
Quotable(s) == PlaceOf(s) <= Len(CachedSource(FileOf(s)))

Quote(s) ==
    /\ Quotable(s)
    /\ reads' = Append(reads, [symbol |-> s, snippet |-> CachedSource(FileOf(s))[PlaceOf(s)]])
    /\ cache' = With(cache, FileOf(s), CachedSource(FileOf(s)))

\* The discovery quotes the symbol, traces it and expands it, all in one load.
ReadDiscovered ==
    /\ Complete /\ Stage = "discovery" /\ Root \in Defined
    /\ Quote(Root)
    /\ trace' = TraceOf(Root)
    /\ step' = "searching"
    /\ \E bounds \in Bounds : StartSearch(Search(bounds))
    /\ UNCHANGED <<disk, seen, writes, review, stage, loaded, gate, baseline, decision>>

ExpandStep ==
    /\ step = "searching"
    /\ Expand
    /\ UNCHANGED reviewVars

\* The search returns, or its own checks refuse its result.
SearchReturns ==
    /\ step = "searching" /\ status # "expanding"
    /\ IF status = "refused" THEN step' = "refused" /\ UNCHANGED <<stage, loaded>>
       ELSE IF Stage = "neighborhood" THEN NextStage
       ELSE step' = "reading" /\ UNCHANGED <<stage, loaded>>
    /\ UNCHANGED <<disk, seen, writes, review, gate, baseline, trace, cache, reads, decision, searchVars>>

NodesRead == Len(reads) - (IF Stage = "discovery" THEN 1 ELSE 0)

ReadNode ==
    /\ step = "reading" /\ NodesRead < Len(nodes)
    /\ Quote(nodes[NodesRead + 1].symbol)
    /\ UNCHANGED <<disk, seen, writes, review, step, stage, loaded, gate, baseline, trace,
                   decision, searchVars>>

ReadsReturn ==
    /\ step = "reading" /\ NodesRead = Len(nodes)
    /\ NextStage
    /\ UNCHANGED <<disk, seen, writes, review, gate, baseline, trace, cache, reads, decision, searchVars>>

\* Mutant: the symbol itself does not confirm its own evidence.
MatchedByNeighbours(e) == e.scoped \/ e.name \in trace.callers \cup trace.callees
Matched(e) == e.scoped \/ e.name \in trace.callers \cup trace.callees \cup {Root}

Decision ==
    IF \/ \E e \in gate.evidence : e.status = "passed" /\ ~Matched(e)
       \/ /\ \E e \in gate.evidence : e.status = "blocked"
          /\ gate.status # "allowed_with_bypass"
    THEN "rejected_by_trace_replay" ELSE gate.status

Changes(before, after) == {after \ before, before \ after}

\* TracePatchImpactSummary::validate_public_output: no symbol is in two lists.
ImpactIsAccepted ==
    \A callers \in Changes(baseline.callers, trace.callers),
       callees \in Changes(baseline.callees, trace.callees) : callers \cap callees = {}

Decide ==
    /\ step = "deciding"
    /\ decision' = Decision
    /\ step' = IF review.kind = "trace" /\ ~ImpactIsAccepted THEN "refused" ELSE "answered"
    /\ UNCHANGED <<disk, seen, writes, review, stage, loaded, gate, baseline, trace, cache, reads,
                   searchVars>>

Running == step \in {"loading", "searching", "reading", "deciding"}

\* The error says nothing of what was found so far.
GiveUp ==
    /\ step' = "failed" /\ stage' = 1 /\ loaded' = Nothing
    /\ gate' = NotJudged /\ baseline' = NoTrace /\ trace' = NoTrace
    /\ cache' = Nothing /\ reads' = <<>>
    /\ UNCHANGED <<disk, seen, writes, review, decision, searchVars>>

\* The symbol is not in the workspace, or its place is not in the text any more.
RootIsMissing == Complete /\ Stage # "gate" /\ Root \notin Defined
QuoteIsOut ==
    \/ Complete /\ Stage = "discovery" /\ Root \in Defined /\ ~Quotable(Root)
    \/ step = "reading" /\ NodesRead < Len(nodes) /\ ~Quotable(nodes[NodesRead + 1].symbol)

Reject == (RootIsMissing \/ QuoteIsOut) /\ GiveUp

\* A file cannot be read, or the deadline passes.
Fail == Running /\ GiveUp

ExternalWrite(f, text) ==
    /\ Running /\ writes < MaxWrites /\ text # disk[f]
    /\ disk' = [disk EXCEPT ![f] = text]
    /\ seen' = [seen EXCEPT ![f] = @ \cup {text}]
    /\ writes' = writes + 1
    /\ UNCHANGED <<review, step, stage, loaded, gate, baseline, trace, cache, reads, decision,
                   searchVars>>
-----------------------------------------------------------------------------
NoSearch ==
    [graph |-> [s \in Symbols |-> [references |-> <<>>, dependencies |-> <<>>]],
     root |-> CHOOSE s \in Symbols : TRUE, direction |-> "both", maxDepth |-> 0, maxNodes |-> 1]

\* A call begins, on whatever the disk holds.
ReviewInit ==
    /\ disk \in {d \in [Files -> UNION {Texts[f] : f \in Files}] : \A f \in Files : d[f] \in Texts[f]}
    /\ seen = [f \in Files |-> {disk[f]}] /\ writes = 0
    /\ review \in Reviews
    /\ step = "loading" /\ stage = 1 /\ loaded = Nothing
    /\ gate = NotJudged
    /\ baseline = NoTrace /\ trace = NoTrace
    /\ cache = Nothing /\ reads = <<>> /\ decision = "none"
    /\ IsOff(NoSearch)

\* One call is enough: it leaves nothing behind.
ReviewStep ==
    \/ \E f \in Files : ReadFile(f)
    \/ JudgePatch \/ TraceBaseline \/ TracePatched
    \/ ExpandPatched \/ ReadDiscovered \/ ExpandStep \/ SearchReturns
    \/ ReadNode \/ ReadsReturn \/ Decide \/ Reject

ReviewNext ==
    \/ ReviewStep
    \/ Fail
    \/ \E f \in Files : \E text \in Texts[f] : ExternalWrite(f, text)

ReviewSpec == ReviewInit /\ [][ReviewNext]_vars

\* A call runs in a thread of its own and waits for nobody.
FairReviewSpec == ReviewSpec /\ WF_vars(ReviewStep)
-----------------------------------------------------------------------------
ReviewTypeOK ==
    /\ disk \in [Files -> UNION {Texts[f] : f \in Files}]
    /\ \A f \in Files : disk[f] \in seen[f] /\ seen[f] \subseteq Texts[f]
    /\ writes \in 0 .. MaxWrites
    /\ review \in Reviews
    /\ step \in {"loading", "searching", "reading", "deciding", "answered", "refused", "failed"}
    /\ stage \in 1 .. Len(Stages(review.kind))
    /\ DOMAIN loaded \subseteq Files
    /\ gate.status \in {"none", "allowed", "allowed_with_bypass", "rejected"}
    /\ \A t \in {baseline, trace} : t.callers \cup t.callees \subseteq Symbols
    /\ DOMAIN cache \subseteq Files
    /\ \A i \in 1 .. Len(reads) : reads[i] \in [symbol : Symbols, snippet : Definition]
    /\ decision \in {"none", "skipped", "allowed", "allowed_with_bypass", "rejected_by_trace_replay"}

\* No file but the patched one, which is never read, changed during the call.
Quiet == \A f \in Files \ {Own} : seen[f] = {disk[f]}

\* The gate and the trace find what a name stands for by different means, from
\* loads of their own.  When no file changed in between, they agree: the replay
\* never overrules the gate, unless the trace was not asked for callees.
TraceConfirmsTheGate ==
    /\ step = "answered" /\ decision \notin {"none", "skipped"}
    /\ Quiet /\ review.direction # "callers"
    => decision = gate.status

FirstRing == {nodes[i].symbol : i \in {j \in 1 .. Len(nodes) : nodes[j].depth = 1}}

\* The trace and the neighborhood of one answer tell the same of the symbol's
\* neighbours: always when they are taken from one load, otherwise when no file
\* changed between the two.
TraceAndNeighborhoodAgree ==
    /\ step = "answered" /\ status = "done" /\ decision # "skipped"
    /\ review.kind \in {"discovery", "read"} \/ Quiet
    /\ ~truncated /\ request.maxDepth > 0
    => FirstRing = trace.callers \cup trace.callees

\* The texts a quote of the file may come from.
Held(f) == IF f = Own THEN {OverrideText} ELSE seen[f]

\* All that an answer quotes of one file comes from one text which the file held
\* during the call, the patched text for the patched file; a file that did not
\* change is quoted right.
QuotesAreOfOneText ==
    step = "answered" =>
        \A f \in {FileOf(reads[i].symbol) : i \in 1 .. Len(reads)} :
            \E text \in Held(f) : \A i \in 1 .. Len(reads) :
                FileOf(reads[i].symbol) = f =>
                    /\ PlaceOf(reads[i].symbol) <= Len(text)
                    /\ reads[i].snippet = text[PlaceOf(reads[i].symbol)]
                    /\ Held(f) = {text} => reads[i].snippet.name = reads[i].symbol

\* Every call comes to an end, however the lists of the graph run in circles
\* and whatever other programs write meanwhile.
CallsEnd == <>~Running
=============================================================================
