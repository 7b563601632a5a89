------------------------------ MODULE MCMottak ------------------------------
(* Instances of Mottak for TLC. *)
EXTENDS Mottak, TLC

CONSTANTS r1, r2, r3, r4, r5, r6, r7, v1, o1, d1

Opprett(sak) == [type |-> "opprett_sak", ref |-> sak, sak |-> sak,
                 nummer |-> FALSE, dokumenter |-> {}, lokalfeil |-> FALSE]
Journalpost(sak, ref, dok) ==
    [type |-> "opprett_journalpost", ref |-> ref, sak |-> sak,
     nummer |-> FALSE, dokumenter |-> dok, lokalfeil |-> FALSE]
MedNummer(p) == [p EXCEPT !.nummer = TRUE]

\* A batch: a case and a journalpost on it.  A case alone.  A case and its
\* journalpost in two requests, in an order nobody controls.  A journalpost of a
\* numbered case and a case, both under one reference.  A case that validation
\* refuses.
Kmd == {"sak", "jp", "alene", "sakTo", "jpTo", "sakGjen", "jpGjen", "ugyldig"}
Payloads ==
    [sak |-> Opprett("S"), jp |-> Journalpost("S", "J", {}), alene |-> Opprett("S"),
     sakTo |-> Opprett("S"), jpTo |-> Journalpost("S", "J", {}),
     ugyldig |-> [Opprett("S") EXCEPT !.lokalfeil = TRUE],
     sakGjen |-> Opprett("R"), jpGjen |-> MedNummer(Journalpost("N", "R", {"D"}))]
InnholdAlle ==
    r1 :> <<"sak", "jp">> @@ r2 :> <<"alene">> @@ r3 :> <<"jpTo">> @@ r4 :> <<"sakTo">>
    @@ r5 :> <<"jpGjen">> @@ r6 :> <<"sakGjen">> @@ r7 :> <<"ugyldig">>

\* What happens beside each other, each on its own: the union of these courses,
\* not their product, is checked.
F(sendinger, antall, betjent) ==
    [sendinger |-> [r \in Foresporsler |-> IF r \in DOMAIN sendinger THEN sendinger[r] ELSE 0],
     feil |-> antall, betjent |-> betjent]
Forlopene == {F(r1 :> 2, 1, FALSE), F(r2 :> 2, 0, TRUE), F(r2 :> 2, 1, FALSE),
              F(r3 :> 1 @@ r4 :> 2, 0, FALSE), F(r5 :> 1 @@ r6 :> 1, 1, FALSE),
              F(r7 :> 2, 1, TRUE)}
=============================================================================
