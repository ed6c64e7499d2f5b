\* Denies that are narrower than the allows they cut into.
CONSTANTS
  Top = 9
  Release = 1
  Segment <- MCSegment
  CatalogActions <- MCActions
  Algebra <- MCAlgebra
  NotStrings = NotStrings
  RootGrants <- MCRootGrants
  ChildGrants <- MCChildGrants
  Resource <- MCResource
SPECIFICATION Spec
CHECK_DEADLOCK FALSE
INVARIANT SubsetIsAttenuation
