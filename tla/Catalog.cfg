\* Three requests of any kinds at once, on two items of one category.
SPECIFICATION Spec
CONSTANTS
  Reqs = {r1, r2, r3}
  c1 = c1
  OwnCats = {c1}
  OtherCats = {d1}
  InitItems = {i1, i2}
  InitCat <- InOne
  None = None
  MaxPos = 0
  MaxIds = 2
SYMMETRY ReqsSymmetry
INVARIANTS TypeOK ItemsHaveCategory
PROPERTIES ReorderIsWhole DeletedItemStays ImplementsMenu
CHECK_DEADLOCK FALSE
