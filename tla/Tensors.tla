-------------------------------- MODULE Tensors --------------------------------
(***************************************************************************)
(* What a tensor of a file's header weighs (src/inspect.rs), and what the  *)
(* commands that read headers do with sequences: add up and sort.          *)
(*                                                                         *)
(* A tensor is [name, dtype, shape : Seq(Nat), bytes : Nat], the last by    *)
(* the offsets its header gives it: nothing checks that they are those of  *)
(* its dtype and shape.                                                    *)
(***************************************************************************)
EXTENDS Integers, Sequences, SequencesExt, FiniteSets, FiniteSetsExt

\* The product of the dimensions.
Elements(t) ==
  LET upTo[k \in 0 .. Len(t.shape)] ==
        IF k = 0 THEN 1 ELSE upTo[k - 1] * t.shape[k]
  IN  upTo[Len(t.shape)]

\* byte_len: from the first of its data_offsets to the second.
BytesOf(t) == t.bytes

Sum(numbers) == MapThenSumSet(LAMBDA k : numbers[k], DOMAIN numbers)

SumOver(nodes, Of(_)) == Sum([k \in DOMAIN nodes |-> Of(nodes[k])])

\* The elements of a set, each after those that are before it.
Ordered(elements, before) ==
  [k \in 1 .. Cardinality(elements) |->
     CHOOSE s \in elements :
       Cardinality({r \in elements : <<r, s>> \in before}) = k - 1]

Ascending(numbers) ==
  Ordered(numbers, {p \in numbers \X numbers : p[1] < p[2]})

\* What a sequence has at some positions.
TakenAt(s, positions) ==
  LET at == Ascending(positions) IN [k \in DOMAIN at |-> s[at[k]]]

\* A stable sort by a natural number, the key of each element.
SortedBy(s, keys) ==
  LET before == {p \in (DOMAIN s) \X (DOMAIN s) :
                   \/ keys[p[1]] < keys[p[2]]
                   \/ keys[p[1]] = keys[p[2]] /\ p[1] < p[2]}
      order == Ordered(DOMAIN s, before)
  IN  [k \in DOMAIN s |-> s[order[k]]]
=============================================================================
