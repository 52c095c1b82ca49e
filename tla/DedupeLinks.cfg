CONSTANTS
  b1 = b1  p1 = p1  p2 = p2
  right = right  rotten = rotten  torn = torn
  d1 = d1  d2 = d2  x1 = x1  x2 = x2  x3 = x3
  Blobs = {b1}
  Pointers = {p1, p2}
  BlobOf <- OneBlob
  Inodes = {x1, x2, x3}
  NoInode = NoInode
  Contents = {right, rotten, torn}
  Named <- NamedContents
  Rotten <- RottenContents
  Torn = torn
  LengthOf <- Lengths
  ShaNamed = {b1}
  Processes = {d1, d2}
  NoName = NoName
  AtOnce = 1
SPECIFICATION Spec
INVARIANT NoStrayLinks
PROPERTIES GoodPointersKept FreesWhatItReports
CONSTRAINT SmallRuns
SYMMETRY Alike
VIEW Reachable
CHECK_DEADLOCK FALSE
