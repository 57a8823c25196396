SPECIFICATION SpecSources
CONSTANTS
    Threads = {t1, t2}
    DocFolders = {docs}
    DocKinds = {"clone"}
    Books = {gutenberg}
    gutenberg = gutenberg
    BookKind <- How
    ManPages = {p1}
    a = a
    b = b
    Topics = {a, b}
    WikiTopics <- Seeds
    Links <- AllLinks
    Blocked = {}
    WIKI_MAX_QUEUE = 1
    WIKI_MAX_DONE = 3
    SO_MAX_PAGES = 2
    MAX_BG_TASKS = 1
    NoTopic = NoTopic
    MaxStarts = 2
    MaxClicks = 2
CHECK_DEADLOCK FALSE

    
    
PROPERTIES
    CollectionEnds
