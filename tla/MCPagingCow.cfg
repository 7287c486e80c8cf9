SPECIFICATION Spec
CONSTANTS
    NUM_RAM_PAGES = 8
    Slots = {p1, p2}
    Ops = {"EXEC", "STORE", "SHUTDOWN"}
    StartPages = {0, 6}
    ImagePages = {1}
    WritePages = {0, 2}
    MaxLowRef = 3
    MaxRef = 1
SYMMETRY Symmetry
VIEW Ownership
INVARIANTS
    Inv
    

    
