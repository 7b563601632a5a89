SPECIFICATION SporringFairSpec
CONSTANTS
    i1 = i1
    i2 = i2
    r1 = r1
    r2 = r2
    s1 = s1
    s2 = s2
    Nei = Nei
    Feil = Feil
    Replikaer = {i1, i2}
    Referanser = {r1, r2}
    Saksnumre = {s1, s2}
    Entiteter <- Registeret
    Saker <- AlleSaker
    Endringer <- ToEndringer
    Foresporsler <- Alle
    Oppsett <- AlleOppsett
    MAKS_SVAR_BYTES = 7
    Forlop <- Forlopene
INVARIANTS SvarErSant
PROPERTIES AlleBetjenes
CHECK_DEADLOCK FALSE
