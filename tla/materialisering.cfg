SPECIFICATION FairSpec
CONSTANTS
    k1 = k1
    k2 = k2
    s = s
    j1 = j1
    j2 = j2
    d1 = d1
    d2 = d2
    d3 = d3
    f1 = f1
    f2 = f2
    f3 = f3
    a1 = a1
    a2 = a2
    n1 = n1
    n2 = n2
    u = u
    h = h
    Ingen = Ingen
    Avvist = Avvist
    Kommandoer = {k1, k2}
    Saker = {s}
    Journalposter = {j1, j2}
    Dokumenter = {d1, d2, d3}
    Foresporsler <- Alle
INVARIANTS ArkivertErSendt EttNavn
PROPERTIES OensketEndresEnGang AltAvgjores
CHECK_DEADLOCK FALSE
