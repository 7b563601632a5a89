SPECIFICATION FairSpec
CONSTANTS
    sak = sak
    lang = lang
    jp = jp
    vedlegg = vedlegg
    lukk = lukk
    hent = hent
    tilgang = tilgang
    feltfeil = feltfeil
    bruker = bruker
    tomt = tomt
    hjemlos = hjemlos
    omtalt = omtalt
    uferdig = uferdig
    borte = borte
    Nei = Nei
    Kall <- Alle
    Type <- AlleTyper
    Tittel <- AlleTitler
    Skjermet <- AlleSkjermet
    Parter <- AlleParter
    Dokument <- AlleDokumenter
    Avslag <- AlleAvslag
    Modi = {"sikri", "ingen", "recoverable", "irrecoverable", "uavskrevne_restanser", "manglende_dokumentinnhold"}
    Forlop <- Forlopene
    MaksFeil = 2
INVARIANTS FeilErRiktig SkjermingBevares
PROPERTIES KalletAvgjores
CHECK_DEADLOCK FALSE
