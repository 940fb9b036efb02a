CONSTANTS
  Requests = {r1, r2}
  Folders = {k1, k2}
  Names = {a, b}
  Given = a
  Adoption = Adoption
  MaxSaves = 1
  Nothing = Nothing
SYMMETRY MCSymmetry
SPECIFICATION FoldersSpec
 
PROPERTIES  OneNameAtATime
CHECK_DEADLOCK FALSE
