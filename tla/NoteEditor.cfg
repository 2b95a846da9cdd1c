SPECIFICATION Spec
CONSTANTS
  r1 = r1
  r2 = r2
  r3 = r3
  Request = {r1, r2}
  None = None
  Existing = 1
  MaxNotes = 3
  MaxDocuments = 2
  MaxEdits = 1
  MaxErrors = 1
SYMMETRY Symmetry
CHECK_DEADLOCK FALSE
INVARIANT OneNotePerDocument
INVARIANT AutoSaved
PROPERTY NotesKeepTheirDocument
