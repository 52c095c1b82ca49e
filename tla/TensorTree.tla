------------------------------ MODULE TensorTree ------------------------------
(***************************************************************************)
(* The tree of `inspect --tree' (src/bin/main.rs): tensor names are split  *)
(* at their dots, chains of one child are merged, and numbered siblings of *)
(* one structure become a range, with a few different ones left out at     *)
(* either edge.                                                            *)
(*                                                                         *)
(* A segment of a name is its rank in text order; Index gives the number   *)
(* that it reads as, where it does.  A tensor's name is in Seq(Segments).  *)
(***************************************************************************)
EXTENDS Tensors

CONSTANTS
  Index,          \* the number a segment parses as, of those that do
  MaxEdgeOutliers \* MAX_EDGE_OUTLIERS

ASSUME TreeAssumption ==
  /\ \A s \in DOMAIN Index : s \in Nat /\ Index[s] \in Nat
  /\ MaxEdgeOutliers \in Nat

\* A leaf, and the tensor it is of.
Leaf(name, t) == [kind |-> "leaf", name |-> name, dtype |-> t.dtype,
                  shape |-> t.shape, bytes |-> BytesOf(t)]

CountIn(node) == IF node.kind = "leaf" THEN 1 ELSE node.tensors

BytesIn(node) == node.bytes

Branch(name, children) ==
  [kind |-> "branch", name |-> name, children |-> children,
   tensors |-> SumOver(children, CountIn), bytes |-> SumOver(children, BytesIn)]
-----------------------------------------------------------------------------
(* build_tree: a trie is a function from the names below it to tensors.     *)

Kids(trie) == {Head(n) : n \in DOMAIN trie \ {<<>>}}

Below(trie, s) ==
  [n \in {Tail(m) : m \in {k \in DOMAIN trie \ {<<>>} : Head(k) = s}} |->
     trie[<<s>> \o n]]

\* insert_trie, one tensor after the other: a later one of the same name
\* replaces an earlier one.
Trie(tensors) ==
  [n \in {tensors[k].name : k \in DOMAIN tensors} |->
     tensors[SelectLastInSeq(tensors, LAMBDA t : t.name = n)]]

InTextOrder(kids) == Ascending(kids)

\* Siblings that are all numbers are sorted as numbers, others as text.
InOrder(kids) ==
  IF kids \subseteq DOMAIN Index
    THEN Ordered(kids, {p \in kids \X kids :
                          \/ Index[p[1]] < Index[p[2]]
                          \/ Index[p[1]] = Index[p[2]] /\ p[1] < p[2]})
    ELSE InTextOrder(kids)

RECURSIVE ToTree(_, _)

ToTree(name, trie) ==
  LET kids == Kids(trie)
      own == IF <<>> \in DOMAIN trie THEN <<Leaf(<<>>, trie[<<>>])>> ELSE <<>>
      Child(s) == ToTree(<<s>>, Below(trie, s))
      order == InOrder(kids)
  IN  CASE kids = {} -> Leaf(name, trie[<<>>])
        [] own = <<>> /\ Cardinality(kids) = 1 ->
             LET s == CHOOSE k \in kids : TRUE
             IN  ToTree(Append(name, s), Below(trie, s))
        [] OTHER ->
             Branch(name, own \o [k \in DOMAIN order |-> Child(order[k])])

\* The forest is in text order, even one of numbers.
Built(tensors) ==
  LET trie == Trie(tensors)
      order == InTextOrder(Kids(trie))
  IN  [k \in DOMAIN order |-> ToTree(<<order[k]>>, Below(trie, order[k]))]
-----------------------------------------------------------------------------
(* collapse_ranges.                                                         *)

\* What nodes_structurally_equal compares of a node.
RECURSIVE Structure(_)

Structure(node) ==
  CASE node.kind = "leaf" ->
         [kind |-> "leaf", name |-> node.name, dtype |-> node.dtype,
          shape |-> node.shape]
    [] node.kind = "branch" ->
         [kind |-> "branch", name |-> node.name,
          children |-> [k \in DOMAIN node.children |->
                          Structure(node.children[k])]]
    [] node.kind = "ranged" ->
         [kind |-> "ranged", name |-> node.name, last |-> node.last,
          template |-> [k \in DOMAIN node.template |->
                          Structure(node.template[k])]]

\* Seeded bug: leaves that are called the same are the same.
SameNames(a, b) ==
  [k \in DOMAIN a.children |-> a.children[k].name]
    = [k \in DOMAIN b.children |-> b.children[k].name]

\* branches_structurally_equal.
SameStructure(a, b) ==
  Structure([a EXCEPT !.name = <<>>]) = Structure([b EXCEPT !.name = <<>>])

IndexOf(node) == Index[Head(node.name)]

IsNumbered(node) ==
  node.kind = "branch" /\ Len(node.name) = 1 /\ Head(node.name) \in DOMAIN Index

\* The children are branches numbered from 0 without a gap.
IsRange(children) ==
  /\ Len(children) >= 2
  /\ \A k \in DOMAIN children : IsNumbered(children[k])
  /\ {IndexOf(children[k]) : k \in DOMAIN children} = 0 .. Len(children) - 1

Numbered(children) ==
  SortSeq(children, LAMBDA a, b : IndexOf(a) < IndexOf(b))

Ranged(name, inner) ==
  LET template == Head(inner)
      count == Len(inner)
  IN  [kind |-> "ranged", name |-> name,
       first |-> IndexOf(template), last |-> IndexOf(template) + count - 1,
       template |-> template.children,
       tensors |-> template.tensors * count, bytes |-> template.bytes * count]

\* The ways to leave siblings out at the edges such that two or more remain
\* and are alike: at the front (f) and at the back (b).
Collapsible(row) ==
  {<<f, b>> \in (0 .. MaxEdgeOutliers) \X (0 .. MaxEdgeOutliers) :
     /\ f + b + 2 <= Len(row)
     /\ \A k \in f + 1 .. Len(row) - b : SameStructure(row[f + 1], row[k])}

\* The fewest left out, and then the fewest at the back.
Preferred(cuts) ==
  CHOOSE c \in cuts : \A d \in cuts :
    \/ c[1] + c[2] < d[1] + d[2]
    \/ c[1] + c[2] = d[1] + d[2] /\ c[2] <= d[2]

\* try_collapse_range, of a branch whose children are collapsed.
TryCollapse(branch) ==
  LET row == Numbered(branch.children)
      cut == Preferred(Collapsible(row))
      inner == SubSeq(row, cut[1] + 1, Len(row) - cut[2])
  IN  CASE ~IsRange(branch.children) \/ Collapsible(row) = {} -> branch
        [] cut = <<0, 0>> -> Ranged(branch.name, row)
        [] OTHER -> [branch EXCEPT !.children =
                       SubSeq(row, 1, cut[1]) \o <<Ranged(<<>>, inner)>>
                         \o SubSeq(row, Len(row) - cut[2] + 1, Len(row))]

RECURSIVE Collapse(_)

Collapse(node) ==
  IF node.kind = "leaf" THEN node
  ELSE TryCollapse([node EXCEPT !.children =
                      [k \in DOMAIN @ |-> Collapse(@[k])]])

TensorForest(tensors) ==
  LET forest == Built(tensors)
  IN  [k \in DOMAIN forest |-> Collapse(forest[k])]

\* What print_tree_summary and print_tree_json print; a tensor is shown once.
TreeReport(tensors) ==
  LET forest == TensorForest(tensors)
  IN  [forest |-> forest, shown |-> SumOver(forest, CountIn)]
-----------------------------------------------------------------------------
(* What a reader of the tree takes it to say.                               *)

\* The segment that a number of a range stands for.
Numeral(i) == CHOOSE s \in DOMAIN Index : Index[s] = i

\* The tensors that a node stands for, under the name it has so far.
RECURSIVE Expand(_, _)

Expand(prefix, node) ==
  LET name == prefix \o node.name
      All(at, nodes) == FlattenSeq([k \in DOMAIN nodes |-> Expand(at, nodes[k])])
  IN  CASE node.kind = "leaf" ->
             << [name |-> name, dtype |-> node.dtype, shape |-> node.shape,
                 bytes |-> node.bytes] >>
        [] node.kind = "branch" -> All(name, node.children)
        [] node.kind = "ranged" ->
             FlattenSeq([i \in 1 .. node.last - node.first + 1 |->
               All(Append(name, Numeral(node.first + i - 1)), node.template)])

\* The figures at a node and at all below it are those of what it stands for.
RECURSIVE Honest(_)

Honest(node) ==
  LET tensors == Expand(<<>>, node)
  IN  /\ CountIn(node) = Len(tensors)
      /\ BytesIn(node) = SumOver(tensors, BytesOf)
      /\ CASE node.kind = "leaf" -> TRUE
           [] node.kind = "branch" ->
                \A k \in DOMAIN node.children : Honest(node.children[k])
           [] node.kind = "ranged" ->
                \A k \in DOMAIN node.template : Honest(node.template[k])
=============================================================================
