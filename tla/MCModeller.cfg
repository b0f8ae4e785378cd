CONSTANTS
    MAX_DIFF = 2
    CONTOUR_DIFF = 3
    Sheets <- MCSheets
SPECIFICATION Spec
INVARIANTS TypeOK EachOnce PlanesApart LevelStaysLevel PolygonsAreWalks LeftOutForAReason RingsBecomeFaces FitsTheDrawing BoxesFound
PROPERTY Terminates
CHECK_DEADLOCK FALSE
