SPECIFICATION Spec
CONSTANTS
  Units = {"u0", "u1"}
  Dispatcher = "d"
  Strays = {"u9"}
  Contents <- MCContents
  Baselines = {"a", "b", "c"}
  PayloadOf <- MCPayloadOf
INVARIANTS TypeOK  PreparedIsAccepted
