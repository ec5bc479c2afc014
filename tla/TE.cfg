\* Two positions of two levels, up to three entries, duplicates included.
SPECIFICATION Spec
CONSTANTS
    MaxLevels = 2
    Prices = {1, 2}
    Positions = {p1, p2}
    MaxEntries = 3
SYMMETRY PositionSymmetry
INVARIANTS
    Sorted
PROPERTIES
    ImplementsBag
