CONSTANTS
    Vpn1 = {0, 1}
    Vpn0 = {0, 1}
    MEGA = 2
    LowVpn1 = {0}
    KernelVpn1 = 1
    PAGE_OFFSET_PPN = 8
    TABLE_LIMIT_PPN = 8
    Pages = {0, 1, 3}
    Asid = {0, 1}
    Words <- MCWords
    Accesses <- MCAccesses
    Roots = {0, 1, 9}
    MaxStores = 2
    LastPc = 1
    Faults = {7, 12}
    MaxLeft = 1
SPECIFICATION Riscv
CHECK_DEADLOCK FALSE
INVARIANTS Inv HitsAreFresh HartSound
PROPERTIES FirmwareResumes TimerArrives
