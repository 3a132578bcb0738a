\* Two sessions register at once; a step fails or a manifest cannot be read, the server stops.
SPECIFICATION Spec
CONSTANTS
    Sessions = {s1, s2}
    Datasets = {d1, d2, d3}
    NoDataset = NoDataset
    Names = {a}
    Contents = {c1, c2}
    Plain = Plain
    Missing = Missing
    MaxFailures = 2
    MaxCrashes = 1
INVARIANTS TypeOK ArtifactsIntact LineagesLinear CatalogGrounded CatalogComplete 
SYMMETRY DatasetSymmetry
CHECK_DEADLOCK FALSE
