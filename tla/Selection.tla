----------------------------- MODULE Selection -----------------------------
(***************************************************************************)
(* Array.filter, for a list of which certain positions are kept, as the    *)
(* lists of apps and tools are narrowed by it (attached-apps.service.ts    *)
(* and tool-router.service.ts of src/ai/providers).                        *)
(***************************************************************************)
EXTENDS Naturals, Sequences, FiniteSets

\* The members of a finite set of numbers, in ascending order.
Ascending(S) ==
    CHOOSE f \in [1 .. Cardinality(S) -> S] : \A i, j \in DOMAIN f : i < j => f[i] < f[j]

\* What is left of a list when only the positions in `kept` are.
Filtered(list, kept) == [k \in 1 .. Cardinality(kept) |-> list[Ascending(kept)[k]]]

=============================================================================
