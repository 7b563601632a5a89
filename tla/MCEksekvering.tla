--------------------------- MODULE MCEksekvering ---------------------------
(* Instances of Eksekvering for TLC: a case, a few commands on it, and the   *)
(* courses that say which of them arrive beside each other.                  *)
EXTENDS EksekveringPaastander, TLC

CONSTANTS e1, e2, s1, s2, j1, j2, j3, d1, d2, d3, d4, d5, d6, a1, a2

\* A lease holder is like another.
Like == Permutations(Executorer)

Grunnlag == [type |-> "opprett_sak", sak |-> s1, kjentSaksnummer |-> FALSE,
             ansvarlig |-> a1, journalpost |-> j1, journalposttype |-> "I",
             medUtsending |-> FALSE, dokumenter |-> <<>>]

Kommando(type) == [Grunnlag EXCEPT !.type = type]

Post(j, type, utsending, docs) ==
    [Kommando("opprett_journalpost") EXCEPT
        !.journalpost = j, !.journalposttype = type,
        !.medUtsending = utsending, !.dokumenter = docs]

Dok(id, kilde) == [id |-> id, kilde |-> kilde]

PaaKjentSak(p) == [p EXCEPT !.sak = s2, !.kjentSaksnummer = TRUE]

\* A case is created, twice with the same client reference, as validation lets
\* through while the first is not archived, and closed; it gets an incoming
\* entry with an attachment, an outgoing one rendered from a template that
\* shows the case number, and two different officers.  A case known by its
\* number gets an internal note with a template as attachment, which the README
\* rules out but nothing refuses before the executor, and is closed.
AlleKommandoer == {"opprett", "igjen", "avslutt", "inn", "ut", "forste", "andre",
                   "notat", "lukk"}
Alle ==
    [c \in AlleKommandoer |->
        CASE c \in {"opprett", "igjen"} -> Kommando("opprett_sak")
          [] c = "avslutt" -> Kommando("avslutt_sak")
          [] c = "inn" -> Post(j1, "I", FALSE, <<Dok(d1, "bytes"), Dok(d2, "bytes")>>)
          [] c = "ut" -> Post(j2, "U", TRUE, <<Dok(d3, "mal_med_felter"), Dok(d4, "bytes")>>)
          [] c = "forste" -> Kommando("sett_saksansvarlig")
          [] c = "andre" -> [Kommando("sett_saksansvarlig") EXCEPT !.ansvarlig = a2]
          [] c = "notat" -> PaaKjentSak(Post(j3, "X", FALSE, <<Dok(d5, "bytes"), Dok(d6, "mal")>>))
          [] c = "lukk" -> PaaKjentSak(Kommando("avslutt_sak"))]

F(kommandoer, t, f, a) ==
    [kommandoer |-> kommandoer, tapte |-> t, forkastet |-> f, avbrudd |-> a]

\* A case is created, gets an entry that is dispatched without sending, and
\* is closed.
HelslopKommandoer == {"opprett", "brev", "avslutt"}
Helslop ==
    [c \in HelslopKommandoer |->
        CASE c = "opprett" -> Kommando("opprett_sak")
          [] c = "brev" -> Post(j1, "U", FALSE, <<Dok(d1, "bytes")>>)
          [] c = "avslutt" -> Kommando("avslutt_sak")]

\* The whole course without interruptions; its first command with many.
Livsforlop == {F(HelslopKommandoer, 0, 0, 0), F({"opprett"}, 0, 1, 3)}

\* An answer is lost, an executor interrupted or a command discarded, alone or
\* together where the state space allows it.
Skaping == {"opprett", "igjen", "avslutt"}
Forlopene == {F({"opprett", "inn"}, 1, 0, 1), F({"opprett", "inn"}, 0, 1, 0),
              F({"opprett", "ut"}, 0, 0, 1),
              F({"notat"}, 0, 0, 1), F({"notat", "lukk"}, 0, 1, 0),
              F({"opprett", "forste", "andre"}, 1, 0, 0),
              F({"opprett", "avslutt"}, 0, 0, 1), F(Skaping, 0, 1, 0),
              F({"opprett", "igjen"}, 0, 0, 1)}
============================================================================
