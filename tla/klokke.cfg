SPECIFICATION FairSpec
CONSTANTS
    a = a
    b = b
    x = x
    y = y
    z = z
    s = s
    t = t
    ka = ka
    kb = kb
    kx = kx
    kz = kz
    Ingen = Ingen
    Oppgaver <- Alle
    Sak <- AlleSak
    Kommando <- AlleKommando
    Forut <- AlleForut
    Avslutter = {a, b}
    Forlop <- Forlopene
INVARIANTS VarselStemmer
PROPERTIES IngenSniker TidenSettesRett IngenVenterForEvig
CHECK_DEADLOCK FALSE
