SPECIFICATION Spec
CONSTANTS
    Layouts <- MCLayouts
    Radii = {0, 1, 2}
    None = None
INVARIANTS
    WindowsAreExact
