------------------------------ MODULE Sublists ------------------------------
(***************************************************************************)
(* The list comprehension [m for m in ms if ...] by which both engines     *)
(* keep part of a plan, and the ordered query by which a drain picks jobs, *)
(* stated with positions so that they can be reasoned about without        *)
(* recursion.                                                              *)
(***************************************************************************)
EXTENDS Naturals, FiniteSets

(* The increasing enumeration of a finite set of positions: exactly one. *)
InOrder(S) ==
    {e \in [1..Cardinality(S) -> S] :
        \A i, j \in 1..Cardinality(S) : i < j => e[i] < e[j]}

(* What stays of ms, e being the enumeration of the positions that stay. *)
Sublist(ms, e) == [k \in DOMAIN e |-> ms[e[k]]]
=============================================================================
