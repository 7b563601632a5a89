SPECIFICATION FairSpec
CONSTANTS
    r1 = r1
    r2 = r2
    r3 = r3
    r4 = r4
    r5 = r5
    r6 = r6
    r7 = r7
    v1 = v1
    o1 = o1
    d1 = d1
    Ingen = Ingen
    Kommandoer <- Kmd
    Payload <- Payloads
    Innhold <- InnholdAlle
    Foresporsler = {r1, r2, r3, r4, r5, r6, r7}
    Validatorer = {v1}
    Operatorer = {o1}
    Dekomponerere = {d1}
    MaksSendt = 2
    MaksKopier = 2
    MaksFeil = 2
    Forlop <- Forlopene
INVARIANTS IngenTapes OkErSann
PROPERTIES AvgjortStaar KommerVidere
CHECK_DEADLOCK FALSE
