SPECIFICATION Spec
CONSTANTS
  None = None
  Request = {q1, q2}
  User = {u1}
  Code = {c1}
  MaxId <- FewIds
  MaxRows <- FewRows
SYMMETRY CatalogSymmetry
INVARIANTS TypeOK KeysUnique OneList TaRolesAgree
PROPERTY OnlyLateChildrenLost
CHECK_DEADLOCK FALSE
CONSTRAINT Scope
