SPECIFICATION Spec
CONSTANTS
    Memory = 17
    Header = 2
    Asked = {1, 2, 3, 6, 9}
    Recycles = TRUE
    Items = 5
INVARIANTS
    Tiled
    RecyclingSucceeds
    BackwardSeesAll
PROPERTY IsQueue
