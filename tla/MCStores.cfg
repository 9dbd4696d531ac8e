\* Four configuration calls; texts of seven and ten tokens; tables of eight slots that
\* grow; two rules; six operations on four windows, six keys on a line of four bytes.
CONSTANTS
    MainPath = "main"
    FirstDisk <- DiskUsed
    Edits <- EditsUsed
    Unreadable = {"locked"}
    BackupPaths <- BackupsUsed
    Defaults <- DefaultsUsed
    Kinds <- KindsUsed
    Requests <- RequestsUsed
    ListenKeys <- Listened
    IncludeLimit = 2
    Columns = 4
    MaxConfigOps = 4
    CharMax = 1
    IntMax = 3
    LongMax = 15
    StoredValues <- ValuesUsed
    ReadDefaults <- DefaultsRead
    Texts <- TextsUsed
    MaxPasses = 3
    MaxText = 6
    Corpora <- CorporaUsed
    MaxDepth = 2
    Keys = {"a", "b", "c", "d", "e", "f", "g", "h"}
    Values = {"v1", "v2"}
    NoValue = novalue
    MinSize = 8
    BigSize = 16
    Empty = empty
    Dummy = dummy
    Workloads <- AllWorkloads
    MappedPrefix <- PrefixUsed
    HostBits = 2
    Selectors <- SelectorsUsed
    Hosts <- HostsUsed
    Users = {"u", "v"}
    GroupsOf <- MembersUsed
    MaxRules = 2
    Titles = {"status", "a", "b", "c"}
    MaxWindows = 4
    LogLines = 3
    TermRows = 5
    TermCols = 4
    Messages <- MessagesUsed
    MaxScreenOps = 6
    InputLen = 4
    HistoryLines = 2
    Typed = {32, 256}
    Formats = {2}
    Offers <- OffersUsed
    MaxKeys = 6
SPECIFICATION Spec
INVARIANTS FindsWhatWasStored EnumerationIsComplete LoadedAsWritten SavedComesBack NothingLost ReloadIsClean ReadsAreExact ReadsTheGrammar WrittenReadsBack VerdictsStand ViewIsKept
PROPERTIES LineIsEdited
CHECK_DEADLOCK FALSE
