\* Nothing is indexed: every page comes from the RPC node.
SPECIFICATION Spec
CONSTANTS
  Limit = 1
  FirstIndexed = 6
  MaxTx = 4
  MaxTs = 2
INVARIANT RpcNothingSkipped
CHECK_DEADLOCK FALSE
