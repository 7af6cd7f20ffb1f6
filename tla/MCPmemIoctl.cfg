CONSTANTS
    Fanout = 2
    Memories <- MCMemories
    LeafEntries <- MCLeafEntries
    Scenarios <- MCScenarios
    NUMBER_OF_RUNS = 2
    GoRuns = 1
    ModuleLists <- MCModuleLists
    PreAllocated = 2
    Processors = {0, 1, 2}
SPECIFICATION Spec
INVARIANTS TypeOK NothingHeld InfoIsSnapshot ReverseIsTranslation KernelBaseIsKernels KpcrsAreOwn
