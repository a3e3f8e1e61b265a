SPECIFICATION KSpec
CONSTANTS
    m1 = m1  m2 = m2  m3 = m3  m4 = m4
    Thread <- MCThread
    NoThread = NoThread
    HEAP_ALIGN = 2
    Header = 2
    PAGE_SIZE = 12
    MaxHeap = 36
    Sizes = {1, 4, 9}
    MaxLive = 4
    Procs = {c1, c2}
    Frames <- MCFrames
    BITS_PER_WORD = 2
    PtSize = 2
    UserPages = 2
    KSTACK_PAGES = 2
    StackSlots = 1
    PageSlots = 2
    DmaFrames = 2
    Boundary = 4
    c1 = c1  c2 = c2  n1 = n1  n2 = n2  root = root  a = a  x = x
    Threads = {c1, c2}
    Spaces = {n1, n2}
    First = n1
    Vnodes = {root, a, x}
    Root = root
    Dirs = {root, a}
    Child <- MCChild
    Paths <- MCPaths
    Boot <- MCBoot
    VFS_UNION_MAX = 2
    MaxFileRefs = 2
    MaxCalls = 2
    Clusters = 2
    RootSlots = 2
    DirSlots = 3
    PerCluster = 2
    Names <- MCNames
    Handles = {c1, c2}
    MaxSize = 3
    Lengths = {1, 3}
    Fat12 = FALSE
    RemoveOpen = FALSE
INVARIANTS
    MutualExclusion
    FreeLockHasATaker
    HeapSound
    FramesAccounted
    KernelHalfShared
    NamespacesSound
    VolumeSound
    ReadsOwnFile
SYMMETRY Symmetric
CHECK_DEADLOCK FALSE
