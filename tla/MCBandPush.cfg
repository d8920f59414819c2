SPECIFICATION Spec
CONSTANTS Rows = 5 RowsPerBand = 2 MaxOps = 3
CHECK_DEADLOCK FALSE
INVARIANT PictureWhole
PROPERTY PictureArrives
