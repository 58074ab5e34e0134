---------------------------- MODULE EditorBuffers ----------------------------
(***************************************************************************)
(* What the virtual file system promises its client: a set of buffers and  *)
(* calls on them that are atomic.  A buffer is a text over a base, the disk*)
(* text it was last compared with, and a version; the disk is outside, so a*)
(* base may be any text.  A call has its whole effect or, apart from       *)
(* opening or refreshing clean buffers, none.                              *)
(***************************************************************************)
EXTENDS Naturals

CONSTANTS Paths, Sources, Closed

VARIABLE buf

\* A buffer is a record of a base, a text and a version, or Closed.
Init == buf = [p \in Paths |-> Closed]

Clean(b) == b # Closed /\ b.text = b.base

\* A clean buffer follows its file; a buffer with unsaved text does not.
Follows(b, c) ==
    \/ c = b
    \/ /\ Clean(b)
       /\ \E s \in Sources : c = [base |-> s, text |-> s, version |-> b.version + 1]

\* The buffer a call on p works on, once p is open and refreshed.
Ready(b) ==
    IF b = Closed
    THEN {[base |-> s, text |-> s, version |-> v] : s \in Sources, v \in {0, 1}}
    ELSE {b} \cup {[base |-> s, text |-> s, version |-> b.version + 1] :
                      s \in IF Clean(b) THEN Sources ELSE {}}

Put(p, b) == buf' = [buf EXCEPT ![p] = b]

\* Listing and queries, whether they succeed or not.
Follow ==
    /\ \A p \in Paths : Follows(buf[p], buf'[p])
    /\ buf' = [p \in Paths |-> buf'[p]]

Read(p) == \E b \in Ready(buf[p]) : Put(p, b)

\* The client supplies the text; should it be the disk's, the buffer is clean
\* and already follows the file.
Open(p) ==
    \E s, t \in Sources :
        LET opened == [base |-> s, text |-> t,
                       version |-> IF buf[p] = Closed THEN 0 ELSE buf[p].version + 1]
        IN  \/ Put(p, opened)
            \/ Clean(opened) /\ \E b \in Ready(opened) : Put(p, b)

\* A batch of edits, or a patch: every edit advances the version.
Edit(p) ==
    \E b \in Ready(buf[p]), t \in Sources :
        /\ buf'[p] # Closed
        /\ buf'[p].version > b.version
        /\ Put(p, [base |-> b.base, text |-> t, version |-> buf'[p].version])

Save(p) ==
    \E b \in Ready(buf[p]) : Put(p, [b EXCEPT !.base = b.text])

\* patch_ast_node: an edit and a save in one call.
EditAndSave(p) ==
    \E b \in Ready(buf[p]), t \in Sources :
        Put(p, [base |-> t, text |-> t, version |-> b.version + 1])

Revert(p) ==
    \E s \in Sources, v \in {0, 1} :
        \/ buf[p] = Closed /\ Put(p, [base |-> s, text |-> s, version |-> v])
        \/ buf[p] # Closed /\ Put(p, [base |-> s, text |-> s, version |-> buf[p].version + 1])

Close(p) == Put(p, Closed)

Next ==
    \/ Follow
    \/ \E p \in Paths :
          Read(p) \/ Open(p) \/ Edit(p) \/ Save(p) \/ EditAndSave(p) \/ Revert(p) \/ Close(p)

Spec == Init /\ [][Next]_buf
=============================================================================
