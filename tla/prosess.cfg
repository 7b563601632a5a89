SPECIFICATION ProsessFairSpec
CONSTANTS
    lytter = lytter
    worker = worker
    Tasks = {lytter, worker}
    Lydhoere = {worker}
    Budsjett = 2
    MaksFeil = 5
INVARIANTS TilsynStemmer
PROPERTIES IngenHalvdod
CHECK_DEADLOCK FALSE
