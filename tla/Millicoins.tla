----------------------------- MODULE Millicoins -----------------------------
(***************************************************************************)
(* Sums of amounts.  The total of a family of amounts (a sequence of       *)
(* outputs, the unspent rows of a table) is the number of millicoins in    *)
(* it: the k-th millicoin of member x is the pair <<x, k>>.  Counting      *)
(* coins instead of folding + keeps the sum free of any order of addition, *)
(* and lets the facts about it be proved from those about cardinality.     *)
(***************************************************************************)
EXTENDS Integers, FiniteSets

Coins(amount) == UNION {{x} \X (1..amount[x]) : x \in DOMAIN amount}

Total(amount) == Cardinality(Coins(amount))
=============================================================================
