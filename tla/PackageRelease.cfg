SPECIFICATION Spec
CONSTANTS
  r1 = r1
  r2 = r2
  Runs = {r1, r2}
  Folders = {"dist", "other"}
  Payload = {"exe"}
  Extra = {"settings"}
  TamperWhileZipping = FALSE
INVARIANTS TypeOK UnmarkedIsWhole  ChecksumDescribesArchive DoneIsPublished
PROPERTY NothingIsReplaced
SYMMETRY Symmetric
