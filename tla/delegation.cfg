\* Chains of grants over each of the five algebras.
CONSTANTS
  Top = 9
  Release = 1
  Segment <- MCSegment
  CatalogActions <- MCActions
  Algebra <- MCAlgebra
  NotStrings = NotStrings
  RootGrants <- MCRootGrants
  ChildGrants <- MCChildGrants
  Resource <- MCResource
SPECIFICATION Spec
CHECK_DEADLOCK FALSE
INVARIANTS ChainAttenuates DelegableOnly EntityKept
