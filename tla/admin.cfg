SPECIFICATION FairSpec
CONSTANTS
    c1 = c1
    c2 = c2
    c3 = c3
    c4 = c4
    o1 = o1
    o2 = o2
    o3 = o3
    o4 = o4
    o5 = o5
    s1 = s1
    s2 = s2
    Nei = Nei
    Kommandoer <- Rekkefolge
    SakAv <- Sakene
    OpsAv <- Opene
    KjenteSaker = {s1}
    MedOriginal = {c1, c2, c3}
    Forlop <- Forlopene
    MAKS_COMMANDS_PER_RETRY = 3
INVARIANTS SvaretErSant LesingErSann
PROPERTIES UavklartSperrer RutenLytterIgjen
CHECK_DEADLOCK FALSE
