SPECIFICATION Spec
CONSTANTS
  Seqs <- MCSeqs
  Stamps <- MCStamps
  Types <- MCTypes
  Sources <- MCSources
  Framenums <- MCFramenums
  Slicenums <- MCSlicenums
INVARIANTS
TypeOK
PROPERTIES
ImplementsHeaderFields
