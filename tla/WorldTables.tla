------------------------------ MODULE WorldTables ------------------------------
(* What the World's tables and loops are built from: partial functions (the     *)
(* maps of the code), and the enumeration of a finite set in a given order (the *)
(* sorted vectors that the code loops over).                                    *)
EXTENDS Naturals, Sequences, FiniteSets

\* A partial function without the argument x.
Without(f, x) == [y \in DOMAIN f \ {x} |-> f[y]]

\* The partial function g with the arguments of f taken from f.
Over(f, g) == [y \in DOMAIN f \cup DOMAIN g |-> IF y \in DOMAIN f THEN f[y] ELSE g[y]]

\* A partial function with the value v at the argument x.
With(f, x, v) == Over([y \in {x} |-> v], f)

\* The place of x in the sequence q.
PlaceIn(q, x) == CHOOSE i \in DOMAIN q : q[i] = x

\* The elements of S in the order R, a set of pairs of them.
InOrder(S, R) ==
  CHOOSE q \in [1 .. Cardinality(S) -> S] :
    \A i, j \in 1 .. Cardinality(S) : i < j => <<q[i], q[j]>> \in R

NumberOrder(S) == {x \in S \X S : x[1] < x[2]}

================================================================================
