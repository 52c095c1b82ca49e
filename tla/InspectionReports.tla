--------------------------- MODULE InspectionReports ---------------------------
(***************************************************************************)
(* What the reports of `inspect' say, trees among them: Inspection with    *)
(* the tree of TensorTree, whose operators recurse over names.             *)
(***************************************************************************)
EXTENDS Inspection, TensorTree

\* What try_collapse_range takes for granted when it multiplies the totals of
\* one instance of a range: tensors alike in dtype and shape are of one length.
ASSUME HeadersAssumption ==
  \A q \in Inspects : \A x, y \in Range(Flat(q.a)) :
    x.dtype = y.dtype /\ x.shape = y.shape => BytesOf(x) = BytesOf(y)

\* Whatever the order the shards were read in, the report of an inspection
\* is of the tensors of all shards that match, as far as the limit: a tree,
\* with its merged chains and its ranges written out, has each name once,
\* with the dtype, shape and bytes of its last tensor, and every figure in it is
\* that of what it stands for; the dtypes share out all of them.
ReportStandsForTensors ==
  IsInspect /\ stage = "answered" =>
    LET all == Flat(InNameOrder(asked.a))
        tensors == Limited(Matching(all))
        report == answer.report
    IN  /\ answer.total = Len(all)
        /\ CASE asked.report = "tree" ->
                  LET forest == report.forest
                      told == FlattenSeq([k \in DOMAIN forest |->
                                            Expand(<<>>, forest[k])])
                  IN  /\ ToSet(told) = Range(Trie(tensors))
                      /\ report.shown = Len(told)
                      /\ Len(told) = Cardinality(ToSet(told))
                      /\ \A k \in DOMAIN forest : Honest(forest[k])
             [] asked.report = "dtypes" ->
                  LET Shares(figure) ==
                        MapThenSumSet(LAMBDA d : report.groups[d][figure],
                                      DOMAIN report.groups)
                  IN  /\ Shares("tensors") = Len(tensors)
                      /\ Shares("params") = SumOver(tensors, Elements)
                      /\ Shares("bytes") = SumOver(tensors, BytesOf)
             [] asked.report = "table" -> report.table = tensors
=============================================================================
