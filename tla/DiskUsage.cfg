CONSTANTS
  b1 = b1  b2 = b2  part = part  e1 = e1  e2 = e2  e3 = e3  refs = refs
  x1 = x1  x2 = x2  x3 = x3  x4 = x4  s1 = s1
  Blobs = {b1, b2, part}
  Rank <- Order
  Partials = {part}
  Entries = {e1, e2, e3}
  Others = {refs}
  Inodes = {x1, x2, x3, x4}
  Payloads = {s1}
  LengthOf <- Lengths
SPECIFICATION WalkSpec
INVARIANTS DeletingFreesTotal FiguresAddUp EachForOneThing
CHECK_DEADLOCK FALSE
