SPECIFICATION Spec
CONSTANTS
    TILE_MAX_W = 4
    TILE_MAX_H = 4
    REG = 32
    Rects <- MCRects
    Pokes = {6, 15}
    Gaps = {4, 20}
    MaxOps = 3
INVARIANT DrawsInOrder
PROPERTIES NeverBackwards AllDrawn
