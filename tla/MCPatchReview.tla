---------------------------- MODULE MCPatchReview ----------------------------
(***************************************************************************)
(* Three files, the patched one among them; texts of the others in which a *)
(* symbol moves, disappears, or starts to call the patched one.            *)
(***************************************************************************)
EXTENDS PatchReview, SequencesExt

CONSTANTS own, header, other, root, renamed, added, a, b, c, param

Def(s, calls) == [name |-> s, calls |-> calls]

MCSymbols == {root, renamed, added, a, b, c}
Order == <<root, renamed, added, a, b, c>>
MCSorted(S) == SelectSeq(Order, LAMBDA s : s \in S)

MCPathOrder == (header :> 1) @@ (own :> 2) @@ (other :> 3)

MCTexts ==
    (own    :> {<<Def(root, {})>>, <<>>}) @@
    (header :> {<<Def(a, {}), Def(b, {c})>>, <<Def(b, {c}), Def(a, {root})>>, <<Def(b, {})>>}) @@
    (other  :> {<<Def(c, {b})>>, <<Def(c, {root})>>})

Patching(target, before, after) ==
    [target |-> target, before |-> before, after |-> after, broken |-> FALSE]

MCPatches == {
    Patching(root, <<Def(root, {})>>, <<Def(root, {a, param})>>),
    Patching(root, <<Def(root, {c})>>, <<Def(root, {root, b})>>),
    Patching(root, <<Def(root, {a})>>, <<Def(added, {root}), Def(root, {added, c})>>),
    Patching(renamed, <<Def(root, {})>>, <<Def(renamed, {a, c})>>),
    [target |-> root, before |-> <<Def(root, {})>>, after |-> <<Def(root, {a})>>, broken |-> TRUE]}

MCBounds == {[depth |-> 3, nodes |-> 9], [depth |-> 2, nodes |-> 3]}
=============================================================================
