\* The machine stops once the call has returned, so deadlock is not an error.
CONSTANTS
  URN = {u1, u2, u3}
  NoNode = NoNode
SPECIFICATION FairSpec
INVARIANT TypeOK
INVARIANT KahnInv
PROPERTY ImplementsContract
PROPERTY SortReturns
CHECK_DEADLOCK FALSE
