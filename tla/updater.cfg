SPECIFICATION SpecUpdate
CONSTANTS
    core = core
    gui = gui
    version = version
    Items = {core, gui, version}
    VersionFile = version
    Nobody = Nobody
    MaxVersion = 3
SYMMETRY Symmetric
INVARIANTS
    OneVersion
    NothingLost
CHECK_DEADLOCK FALSE
