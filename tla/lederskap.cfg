SPECIFICATION FairSpec
CONSTANTS
    gammel = gammel
    ny = ny
    o1 = o1
    o2 = o2
    Ingen = Ingen
    Instanser = {gammel, ny}
    Oppgaver = {o1, o2}
    MaksFeil = 2
    MaksTap = 1
INVARIANTS EnOmGangen UavklartBareEtterAvbrudd
PROPERTIES Overtakelse
CHECK_DEADLOCK FALSE
