\* Three BIOs of every kind against a two-sector memory or file device,
\* read-only or not; the owner waits for its callbacks before destroying it.
CONSTANTS
    MaxBios = 3
    Sectors = {0, 1, 2}
    NumSectors = 2
    SectorSize = 4
    Width = 4
    OwnerWaits = TRUE
    Kinds = {"memory", "file"}
    NoBio = NoBio
SPECIFICATION Spec
INVARIANT TypeOK
PROPERTIES FifoRefined ReadOnlyUntouched
