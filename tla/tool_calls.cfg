CONSTANTS
    m1 = m1
    m2 = m2
    k1 = k1
    k2 = k2
    Calls = {m1, m2, k1, k2}
    NoCall = NoCall
    folder = folder
    link = link
    notes = notes
    upload = upload
    secret = secret
    db = db
    inner = inner
    alias = alias
    Places <- Tree
    NoPlace = NoPlace
    Leads <- LinksTo
    Parents <- In
    Parsed = {link, upload, secret, db, inner}
    Texts <- SomeTexts
    Opening = {}
    Via <- Program
    Requests <- Asks
    MayAsk <- Asked
    Tables = {"t"}
    Environments <- Environs
    OnDisk = {notes, secret, db, inner}
    Fleeting = {inner}
SPECIFICATION FairSpec
INVARIANT SourcesAllowed
INVARIANT OnlyReadsPass
INVARIANT ReadsAreServed
PROPERTY ImplementsContract
PROPERTY QueriesPassIngests
PROPERTY EveryCallAnswered
CHECK_DEADLOCK FALSE
