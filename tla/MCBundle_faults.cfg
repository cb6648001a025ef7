SPECIFICATION ServiceSpec
CONSTANTS
    t1 = t1
    t2 = t2
    t3 = t3
    t4 = t4
    t5 = t5
    r1 = r1
    r2 = r2
    r3 = r3
    r4 = r4
    r5 = r5
    r6 = r6
    r7 = r7
    p = p
    c = c
    d = d
    m = m
    f = f
    A = A
    B = B
    Nobody = Nobody
    Foreign = Foreign
    NoBundle = NoBundle
    Attempts <- FiveAttempts
    Records <- SevenRecords
    Assets <- TwoAssets
    RecordsOf <- FourPreviews
    AssetsOf <- ClashingFolders
    McpTools = {r2}
    Sources <- FiveSources
    Names <- TwoNames
    Fold <- AsWritten
    Libraries <- TheLibraries
    Altered <- AlteredBundles
    Target <- Targets
    Locals <- LocalRecords
    Retries = {t5}
    MaxPreviews = 2
INVARIANTS
    CommittedImportIntact
    AnswerIsTrue
    RollbackCleansWhatItNames
    MemoryMatchesDisk
    ImportsAreCopies
PROPERTY
    ForeignFoldersUntouched
