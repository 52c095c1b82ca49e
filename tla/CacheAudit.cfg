SPECIFICATION Spec
CONSTANTS
  model = model
  config = config
  old = old
  new = new
  text = text
  RepoFiles <- MCFiles
  Lfs = {model}
  Sized = {model, config}
  NoRanges = {model, config}
  Pointers = {"link", "copy"}
  Commits <- MCCommits
  DigestOf <- MCDigestOf
  SizeOf <- MCSizeOf
  NoCommit = NoCommit
  NoCopy = NoCopy
INVARIANTS
  VerdictsHoldAtOneCommit
PROPERTY
  ProgressWasTrue
CONSTRAINT OneOfEach
VIEW Relevant
CHECK_DEADLOCK FALSE
