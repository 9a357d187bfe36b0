\* Two writers, a reader, and current.json damaged or replaced
\* by another build between runs.
SPECIFICATION Spec
CONSTANTS
  Writers = {w1, w2}
  Readers = {r1}
  NoWriter = NoWriter
  MaxId = 4
  Stamp <- MonotoneStamp
  Retained = 3
  Foreign <- AnyForeign
SYMMETRY Symmetry
INVARIANTS PointerSound StagingOwned DurableAck NoRollback RetentionGrace
PROPERTIES RetainsPredecessors ImplementsRegister
