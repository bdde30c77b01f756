\* One page from its document to the rows the head prints.
SPECIFICATION Spec
CONSTANTS
    Pngs <- MCPngs
    Rasters <- MCRasters
INVARIANTS
    FittingAccepted
    InkInPlace
    RowsExact
