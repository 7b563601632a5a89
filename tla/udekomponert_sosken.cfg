SPECIFICATION Spec
CONSTANTS
    e1 = e1
    e2 = e2
    s1 = s1
    s2 = s2
    j1 = j1
    j2 = j2
    j3 = j3
    d1 = d1
    d2 = d2
    d3 = d3
    d4 = d4
    d5 = d5
    d6 = d6
    a1 = a1
    a2 = a2
    Ingen = Ingen
    MaksVirkning = 2
    Executorer = {e1}
    Kommandoer <- HelslopKommandoer
    Payload <- Helslop
    Forlop <- Livsforlop
PROPERTIES AvsluttSakVenterPaaAlle
CHECK_DEADLOCK FALSE
