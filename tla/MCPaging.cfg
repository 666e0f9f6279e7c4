SPECIFICATION Spec
CONSTANTS
    FrameCount = 12
    UserSlot = 1
    UserPages <- MCUserPages
    KernelPages <- MCKernelPages
    IdentityPage <- MCIdentityPage
    MaxSpaces = 2
    Shares = 1
    TlbSize = 1
CONSTRAINT BeforeLoss
INVARIANTS TablesSound SpacesExact KernelMapped TlbFresh
