----------------------------- MODULE MCSporring -----------------------------
(* An instance of Sporring for TLC: two case numbers, one case that can be   *)
(* read and one that may be half shielded or short of a main document;       *)
(* a reference to a case, one to a record and one that nobody knows.         *)
EXTENDS Sporring

CONSTANTS i1, i2, r1, r2, s1, s2

Dok(id, merket) == [id |-> id, merket |-> merket]
Jp(id, kode, hjemmel, dok, hoveddok) ==
    [id |-> id, kode |-> kode, hjemmel |-> hjemmel, lesbar |-> TRUE, dok |-> dok,
     hoveddok |-> hoveddok, har_hoveddokument |-> dok # << >>]
Saken(kode, hjemmel, jp) == [kode |-> kode, hjemmel |-> hjemmel, lesbar |-> TRUE, jp |-> jp]

Aapen == Jp(11, Nei, Nei, <<Dok(1, FALSE), Dok(2, TRUE), Dok(3, FALSE)>>, 2)
Pekt == Jp(12, "UO", "13", <<Dok(4, FALSE), Dok(5, FALSE)>>, 5)
Tom == Jp(13, Nei, Nei, << >>, Nei)

God == Saken(Nei, Nei, <<Aapen>>)
Vedtatt == Saken("UO", "13", <<Tom, Pekt>>)
Stor == Saken(Nei, Nei, <<Aapen, Pekt>>)
Darlige ==
    { Saken("UO", Nei, <<Tom>>), Saken(Nei, "13", <<Tom>>), Saken("UO", "blank", <<Tom>>),
      Saken(Nei, Nei, <<Tom, Jp(14, "UO", Nei, << >>, Nei)>>),
      Saken(Nei, Nei, <<Jp(15, Nei, Nei, <<Dok(6, TRUE), Dok(7, FALSE)>>, 7), Tom>>),
      Saken(Nei, Nei, <<[Tom EXCEPT !.har_hoveddokument = TRUE]>>),
      Saken(Nei, Nei, <<[Aapen EXCEPT !.lesbar = FALSE]>>) }

Par(x) == [s \in {s1, s2} |-> IF s = s1 THEN x ELSE Nei]
ToEndringer == {Vedtatt}
AlleSaker == Darlige \cup {God, Vedtatt, Stor}

Registeret ==
    { [r \in {r1, r2} |-> IF r = r1 THEN [type |-> "sak", arkiv_id |-> s1]
                                    ELSE [type |-> "journalpost", arkiv_id |-> Nei]],
      [r \in {r1, r2} |-> IF r = r1 THEN [type |-> "sak", arkiv_id |-> Nei] ELSE Nei] }

Be(rute, nokkel) == [rute |-> rute, nokkel |-> nokkel, svarsubjekt |-> TRUE, gyldig |-> TRUE]
Sakslesninger == {Be(r, n) : r \in {"sak.hent", "sak.med_journalposter"}, n \in {r1, r2, s1, s2}}
Alle == Sakslesninger \cup
    { Be("journalpost.hent", r2), Be("bruker.mt_enheter", r2),
      [Be("sak.hent", r1) EXCEPT !.svarsubjekt = FALSE],
      [Be("sak.hent", r1) EXCEPT !.gyldig = FALSE],
      [Be("bruker.mt_enheter", r1) EXCEPT !.gyldig = FALSE] }
Faa == { Be("sak.hent", r1), Be("sak.med_journalposter", s1) }

AlleOppsett == {[bedt |-> FALSE, miljo |-> "prod"]} \cup
    {[bedt |-> TRUE, miljo |-> m] : m \in {"prod", "local", Nei}}

\* One request of any kind to one instance, in every environment and of every
\* archive, which may change meanwhile; and two requests beside each other while
\* two revisions of the service listen and one thing fails.
Forlopene ==
    { [instanser |-> {i1}, oppsett |-> AlleOppsett, foresporsler |-> Alle,
       arkiver |-> {Par(x) : x \in AlleSaker},
       antall |-> 1, endringer |-> 1, feil |-> 0],
      [instanser |-> {i1, i2}, oppsett |-> {[bedt |-> FALSE, miljo |-> "prod"]},
       foresporsler |-> Faa, arkiver |-> {Par(God)},
       antall |-> 2, endringer |-> 0, feil |-> 1] }
=============================================================================
