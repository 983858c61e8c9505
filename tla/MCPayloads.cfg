SPECIFICATION MCSpec
CONSTANTS
  Flows <- AllFlows
  Keys = {"K1", "K2"}
  Contents = {"a", "b"}
  MaxEdits = 2
  MaxMoves = 4
  Classes <- AllClasses
INVARIANTS TypeOK CreatedWasAgreed SignedInOrder AgreedContent Completable BytesKept EqualSeesBytes 
\* A document may never be completed.
CHECK_DEADLOCK FALSE
