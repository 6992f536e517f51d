SPECIFICATION FairSpec
CONSTANTS
    Procs = {p1, p2}
    NoProc = noproc
    MaxStarts = 2
    MaxTroubles = 1
    Mails = {m1}
    Mailboxes = {inbox1, inbox2}
    NoMailbox = nobox
    Listers = {c1, c2}
    MaxMailMoves = 1
    MaxMailCalls = 3
    Pages = {pg1, pg2}
    NamedPages = {pg2}
    MatchConcurrency = 1
    MaxEdits = 1
    LastDoc = 5
    PageSize = 2
    SearchedDocs <- SearchedDocsDef
    MaxFilings = 2
    top = top
    sub = sub
    plain = plain
    odd = odd
    dot = dot
    Folders <- FolderDef
    Top = top
    PathTo <- PathToDef
    Files <- FileDef
    FolderOf <- FolderOfDef
    DotFolders = {}
    DotFiles = {dot}
    KnownFiles = {plain, dot}
    ShownFiles = {plain}
    SearchedFiles = {plain, dot}
    Configs <- ConfigDef
    MaxWalkItems = 1
    MaxTouches = 1
    friend = friend
    self = self
    Convs <- ConvDef
    Self = self
    LastMessage = 3
    ConvOf <- ConvOfDef
    DayOf <- DayOfDef
    TailMessageCount = 1
    MaxWrites = 2
    grp = grp
    one = one
    Groups = {grp}
    Contacts = {one}
    LastNote = 3
    ChatOfNote <- ChatOfNoteDef
    DayOfNote <- DayOfDef
    MaxChatWrites = 2
    d1 = d1
    d2 = d2
    d3 = d3
    DriveItems <- DriveItemDef
    KindOf <- KindOfDef
    MaxDriveMoves = 1
    v1 = v1
    v2 = v2
    kept = kept
    dropped = dropped
    added = added
    Releases = {v1, v2}
    NoRelease = norelease
    Binaries <- BinaryDef
    Publishes <- PublishesDef
    MaxMishaps = 2
INVARIANTS
    TypeOK
    OneSession
    HealthyNeedsSession
    TellsHonestly
    OpenFinds
    PageOpens
    FileOpens
    ErasedHidden
    TranscriptAgrees
    NeverSilent
    TellsTruly
    InstallConverges
    StaysLaunchable
PROPERTIES
    LaunchesEnd
    MailAnswers
    SpaceAnswers
    ScanEnds
    ArchiveAnswers
    PagingEnds
    WalkAnswers
    SignalAnswers
    ChatAnswers
    DriveAnswers
    OwnFilesStay
CHECK_DEADLOCK FALSE
