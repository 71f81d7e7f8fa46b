\* Two tiles of every pipeline, over sources that lend their memory and sources that do not.
SPECIFICATION Spec
CONSTANTS
    Graphs <- MCGraphs
    SourceHeight = 6
    TileHeight = 2
    RunTileHeights = {1, 2}
    MaxTiles = 2
    None = None
INVARIANTS
    TilesCorrect
    SlicesInBounds
    CacheSound
    BuffersHandedOnAfterLastRead
    InputsBelowOutput
