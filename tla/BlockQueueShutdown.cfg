\* The owner destroys the device while BIOs may still be queued.
CONSTANTS
    MaxBios = 3
    Sectors = {0, 1, 2}
    NumSectors = 2
    SectorSize = 4
    Width = 4
    OwnerWaits = FALSE
    Kinds = {"memory"}
    NoBio = NoBio
SPECIFICATION Spec
PROPERTY FifoRefined
