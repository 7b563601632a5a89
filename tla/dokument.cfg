SPECIFICATION FairSpec
CONSTANTS
    o1 = o1
    o2 = o2
    o3 = o3
    d1 = d1
    d2 = d2
    i = i
    j = j
    Bytes = Bytes
    Ingen = Ingen
    Opplastinger = {o1, o2, o3}
    Dokumenter = {d1, d2}
    Id <- TreId
    Innhold <- TreInnhold
    Ref <- DokRef
    Felter <- MalOgBytes
    MaksFeil = 2
INVARIANTS DokumentetStaar
PROPERTIES MottattBlirAvgjort
CHECK_DEADLOCK FALSE
