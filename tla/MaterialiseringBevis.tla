------------------------- MODULE MaterialiseringBevis -------------------------
(***************************************************************************)
(* Proofs about Materialisering, for every set of commands, references and *)
(* requests: what reaches the archive is what one request asked for, and   *)
(* what is stored under one name is found under the same.                  *)
(*                                                                         *)
(* Both rest on Trygg, which says of each form where it came from: a       *)
(* message is the wire form of its request (Meldinger), a row is the plan  *)
(* of a request that has been decomposed (SakRader, JpRader, DokRader),    *)
(* and a record's main document is of the same request as the record       *)
(* (Hoveddokument).  The context of late events also needs that a command  *)
(* whose references are its own has all its rows (Fullstendig), and that   *)
(* the order they are read in is the request's (Rekkefolgen).              *)
(***************************************************************************)
EXTENDS Materialisering, FiniteSetTheorems, WellFoundedInduction, TLAPS

\* The application's form of the request, and its wire form on the streams.
App(k) == TilApplikasjon(foresporsel[k])
Post(k) == foresporsel[k].type \in Journalposttyper

----------------------------------------------------------------------------
(* Forms                                                                   *)

\* What is known of a request.
LEMMA Foresporselen ==
    ASSUME foresporsel \in Foresporsler, NEW k \in Kommandoer
    PROVE  /\ ErForespurt(foresporsel[k])
           /\ foresporsel[k].type \in Journalposttyper \cup Saktyper
           /\ foresporsel[k].sak \in Saker
           /\ DOMAIN foresporsel[k].dok = 1..Len(foresporsel[k].dok)
           /\ Len(foresporsel[k].dok) \in Nat
           /\ \A i \in 1..Len(foresporsel[k].dok) : foresporsel[k].dok[i].ref \in Dokumenter
           /\ Post(k) => foresporsel[k].ref \in Journalposter /\ Len(foresporsel[k].dok) > 0
           /\ ~Post(k) => foresporsel[k].ref = Ingen /\ Len(foresporsel[k].dok) = 0
<1>1. ErForespurt(foresporsel[k])
  BY MaterialiseringAntagelse
<1>2. ErListe(foresporsel[k].dok)
  BY <1>1 DEF ErForespurt
<1>3. DOMAIN foresporsel[k].dok = 1..Len(foresporsel[k].dok)
  BY <1>2 DEF ErListe
<1>4. Len(foresporsel[k].dok) \in Nat
  BY <1>2 DEF ErListe
<1> QED
  BY <1>1, <1>3, <1>4 DEF ErForespurt, Post

\* The wire form of a request keeps its variant and maps back to the same.
LEMMA FremOgTilbake ==
    ASSUME foresporsel \in Foresporsler, NEW k \in Kommandoer
    PROVE  /\ Wiretype(App(k)) = foresporsel[k].type
           /\ TilApplikasjon(TilWire(App(k))) = App(k)
<1>1. Wiretype(App(k)) = foresporsel[k].type
  BY DEF App, TilApplikasjon, Wiretype
<1> QED
  BY <1>1 DEF App, TilApplikasjon, TilWire

\* The fields of the application's form.
LEMMA Feltene ==
    ASSUME NEW k
    PROVE  /\ App(k).type = Kommandotype(foresporsel[k].type)
           /\ App(k).variant = foresporsel[k].type /\ App(k).ref = foresporsel[k].ref
           /\ App(k).sak = foresporsel[k].sak /\ App(k).nummer = foresporsel[k].nummer
           /\ App(k).tilgang = foresporsel[k].tilgang /\ App(k).parter = foresporsel[k].parter
           /\ App(k).dok = foresporsel[k].dok /\ App(k).ansvarlig = foresporsel[k].ansvarlig
BY DEF App, TilApplikasjon

\* A type is stored as the one whose token the message goes under.
LEMMA SammeEmne ==
    ASSUME foresporsel \in Foresporsler, NEW k \in Kommandoer
    PROVE  /\ WireToken(foresporsel[k].type) = TypeToken(App(k).type)
           /\ App(k).type # Ingen
<1>1. foresporsel[k].type \in Journalposttyper \cup Saktyper
  BY Foresporselen
<1> QED
  BY <1>1, Feltene, MaterialiseringAntagelse
     DEF WireToken, TypeToken, Kommandotype, Saktyper, Journalposttyper

\* The fields of a row of a document: as planned, or rendered.
Dokrad(k, i, tilstand, rendret) ==
    LET x == foresporsel[k].dok[i]
    IN [jp |-> foresporsel[k].ref, rekkefolge |-> i - 1, tilstand |-> tilstand,
        dokument |-> IF x.form = "bytes" THEN x.fil ELSE Ingen,
        mal |-> IF x.form = "mal" THEN x.fil ELSE Ingen,
        rendret |-> rendret, av |-> k]
Planlagt(k, i) ==
    Dokrad(k, i, IF foresporsel[k].dok[i].form = "bytes" THEN "klar" ELSE "avventer_rendring",
           Ingen)
Rendret(k, i) == Dokrad(k, i, "klar", <<"pdf", foresporsel[k].dok[i].ref>>)

LEMMA Dokradene ==
    ASSUME NEW k, NEW i
    PROVE  /\ DokumentPlan(k, App(k), i) = Planlagt(k, i)
           /\ DokRadene(foresporsel, k, i) = {Planlagt(k, i), Rendret(k, i)}
<1>1. DokumentPlan(k, App(k), i) = Planlagt(k, i)
  BY Feltene DEF DokumentPlan, Planlagt, Dokrad
<1>2. [Planlagt(k, i) EXCEPT !.tilstand = "klar",
                             !.rendret = <<"pdf", foresporsel[k].dok[i].ref>>] = Rendret(k, i)
  <2>1. [Planlagt(k, i) EXCEPT !.tilstand = "klar"] = Dokrad(k, i, "klar", Ingen)
    BY DEF Planlagt, Dokrad
  <2>2. [Dokrad(k, i, "klar", Ingen) EXCEPT !.rendret = <<"pdf", foresporsel[k].dok[i].ref>>]
          = Rendret(k, i)
    BY DEF Rendret, Dokrad
  <2>3. [Planlagt(k, i) EXCEPT !.tilstand = "klar",
                               !.rendret = <<"pdf", foresporsel[k].dok[i].ref>>]
          = [[Planlagt(k, i) EXCEPT !.tilstand = "klar"]
                EXCEPT !.rendret = <<"pdf", foresporsel[k].dok[i].ref>>]
    OBVIOUS
  <2> QED
    BY <2>1, <2>2, <2>3
<1>3. DokRadene(foresporsel, k, i)
        = {DokumentPlan(k, App(k), i),
           [DokumentPlan(k, App(k), i) EXCEPT
               !.tilstand = "klar", !.rendret = <<"pdf", foresporsel[k].dok[i].ref>>]}
  BY Zenon DEF DokRadene, App
<1> QED
  BY <1>1, <1>2, <1>3, Zenon

LEMMA DokFelter ==
    ASSUME NEW k, NEW i, NEW t, NEW x
    PROVE  LET r == Dokrad(k, i, t, x)
               w == foresporsel[k] IN
           /\ r.jp = w.ref /\ r.rekkefolge = i - 1 /\ r.av = k
           /\ r.tilstand = t /\ r.rendret = x
           /\ r.dokument = IF w.dok[i].form = "bytes" THEN w.dok[i].fil ELSE Ingen
           /\ r.mal = IF w.dok[i].form = "mal" THEN w.dok[i].fil ELSE Ingen
BY DEF Dokrad

\* The fields of a row of a case: a plan, but for who is wished responsible.
Sakrad(k, o) ==
    LET a == App(k)
    IN [ny |-> a.type = "opprett_sak", nummer |-> a.nummer,
        kode |-> IF a.type = "opprett_sak" THEN Kode(a.tilgang) ELSE Ingen,
        hjemmel |-> IF a.type = "opprett_sak" THEN Hjemmel(a.tilgang) ELSE Ingen,
        ansvarlig |-> IF a.type = "opprett_sak" THEN a.ansvarlig ELSE Ingen,
        oensket |-> o, av |-> k]
Oenskelige == {Ingen} \cup {foresporsel[l].ansvarlig : l \in Kommandoer}

LEMMA Sakradene ==
    ASSUME NEW k
    PROVE  SakRadene(foresporsel, k) = {Sakrad(k, o) : o \in Oenskelige}
<1>1. ASSUME NEW o
      PROVE  [SakPlan(k, App(k)) EXCEPT !.oensket = o] = Sakrad(k, o)
  BY DEF SakPlan, Sakrad
<1> QED
  BY <1>1 DEF SakRadene, Oenskelige, App

LEMMA SakFelter ==
    ASSUME NEW k, NEW o
    PROVE  LET r == Sakrad(k, o)
               w == foresporsel[k]
               ny == Kommandotype(w.type) = "opprett_sak" IN
           /\ r.av = k /\ r.nummer = w.nummer /\ r.ny = ny /\ r.oensket = o
           /\ r.kode = IF ny THEN Kode(w.tilgang) ELSE Ingen
           /\ r.hjemmel = IF ny THEN Hjemmel(w.tilgang) ELSE Ingen
           /\ r.ansvarlig = IF ny THEN w.ansvarlig ELSE Ingen
           /\ \A p : [r EXCEPT !.oensket = p] = Sakrad(k, p)
<1>1. \A p : [Sakrad(k, o) EXCEPT !.oensket = p] = Sakrad(k, p)
  BY DEF Sakrad
<1> QED
  BY <1>1, Feltene DEF Sakrad

----------------------------------------------------------------------------
(* The invariant                                                           *)

\* A message, its stored type and subject and the early context are those of
\* the request.
Meldinger ==
    \A k \in Kommandoer :
        /\ steg[k] = "sendt" => type[k] = Ingen
        /\ steg[k] # "sendt" =>
             /\ melding[k] = TilWire(App(k)) /\ type[k] = App(k).type
             /\ emne[k] = WireToken(foresporsel[k].type)
             /\ kontekst[k] = TidligKontekst(App(k))

\* A row is the plan of a command that has been decomposed.
SakRader ==
    \A s \in Saker : sakRad[s] # Ingen =>
        \E k \in Kommandoer : \E o \in Oenskelige :
            /\ steg[k] = "dekomponert" /\ foresporsel[k].sak = s
            /\ sakRad[s] = Sakrad(k, o)

JpRader ==
    \A j \in Journalposter : jpRad[j] # Ingen =>
        \E k \in Kommandoer :
            /\ steg[k] = "dekomponert" /\ Post(k) /\ foresporsel[k].ref = j
            /\ jpRad[j] = JournalpostPlan(k, App(k))

\* Only a main document that is a template is rendered.
DokRader ==
    \A d \in Dokumenter : dokRad[d] # Ingen =>
        \E k \in Kommandoer : \E i \in 1..Len(foresporsel[k].dok) :
            /\ steg[k] = "dekomponert" /\ Post(k) /\ foresporsel[k].dok[i].ref = d
            /\ \/ dokRad[d] = Planlagt(k, i)
               \/ dokRad[d] = Rendret(k, i) /\ foresporsel[k].dok[i].form = "mal"

\* What a decomposed command names has a row, its own or another's.
Fullstendig ==
    \A k \in Kommandoer : steg[k] = "dekomponert" =>
        /\ sakRad[foresporsel[k].sak] # Ingen
        /\ Post(k) => jpRad[foresporsel[k].ref] # Ingen
        /\ \A i \in 1..Len(foresporsel[k].dok) : dokRad[foresporsel[k].dok[i].ref] # Ingen

\* A record and its main document come from the same request.
Hoveddokument ==
    \A d \in Dokumenter : dokRad[d] # Ingen /\ dokRad[d].rekkefolge = 0 =>
        LET j == dokRad[d].jp
        IN SammeHoved(j) => jpRad[j] # Ingen /\ jpRad[j].av = dokRad[d].av

\* What is in the archive has a row.
HarRad ==
    /\ \A s \in Saker : arkiv[s] # Ingen => sakRad[s] # Ingen
    /\ \A j \in Journalposter : arkiv[j] # Ingen => jpRad[j] # Ingen
    /\ \A d \in Dokumenter : arkiv[d] # Ingen => dokRad[d] # Ingen

Typet ==
    /\ foresporsel \in Foresporsler
    /\ steg \in [Kommandoer -> {"sendt", "innboks", "klar", "dekomponert"}]
    /\ DOMAIN melding = Kommandoer /\ DOMAIN type = Kommandoer
    /\ DOMAIN emne = Kommandoer /\ DOMAIN kontekst = Kommandoer
    /\ DOMAIN sakRad = Saker /\ DOMAIN jpRad = Journalposter /\ DOMAIN dokRad = Dokumenter
    /\ DOMAIN arkiv = Saker \cup Journalposter \cup Dokumenter

Rader == SakRader /\ JpRader /\ DokRader /\ Fullstendig /\ Hoveddokument

Trygg == Typet /\ Meldinger /\ Rader /\ HarRad /\ ArkivertErSendt

LEMMA TryggInit == Init => Trygg
<1> SUFFICES ASSUME Init PROVE Trygg
  OBVIOUS
<1>1. Typet
  BY DEF Init, Typet
<1>2. /\ \A k \in Kommandoer : steg[k] = "sendt" /\ type[k] = Ingen
      /\ \A s \in Saker : sakRad[s] = Ingen
      /\ \A j \in Journalposter : jpRad[j] = Ingen
      /\ \A d \in Dokumenter : dokRad[d] = Ingen
  BY DEF Init
<1>5. \A x \in Saker \cup Journalposter \cup Dokumenter : arkiv[x] = Ingen
  BY DEF Init
<1>3. Meldinger /\ Rader /\ HarRad
  BY <1>2, <1>5 DEF Meldinger, Rader, SakRader, JpRader, DokRader, Fullstendig, Hoveddokument, HarRad
<1>4. ArkivertErSendt
  BY <1>5 DEF ArkivertErSendt, Sendt
<1> QED
  BY <1>1, <1>3, <1>4 DEF Trygg

----------------------------------------------------------------------------
(* A plan is written                                                       *)

\* NULL is no row.
LEMMA EnRad ==
    ASSUME foresporsel \in Foresporsler, NEW k \in Kommandoer
    PROVE  /\ \A o \in Oenskelige : Sakrad(k, o) # Ingen
           /\ JournalpostPlan(k, App(k)) # Ingen
           /\ \A i \in 1..Len(foresporsel[k].dok) :
                  Planlagt(k, i) # Ingen /\ Rendret(k, i) # Ingen
<1>1. Ingen \notin SakRadene(foresporsel, k) /\ JournalpostPlan(k, App(k)) # Ingen
  BY RadAntagelse DEF App
<1>2. \A i \in 1..Len(foresporsel[k].dok) : Ingen \notin DokRadene(foresporsel, k, i)
  BY RadAntagelse
<1> QED
  BY <1>1, <1>2, Sakradene, Dokradene

\* A set of natural numbers has a least member.
LEMMA Minste ==
    ASSUME NEW S \in SUBSET Nat, S # {}
    PROVE  \E m \in S : \A x \in S : m <= x
<1>1. PICK m \in S : \A x \in S : <<x, m>> \notin OpToRel(<, Nat)
  BY WFMin, NatLessThanWellFounded
<1>2. \A x \in S : ~(x < m)
  BY <1>1 DEF OpToRel
<1> QED
  BY <1>2

\* What is known once the plan of a command is written.
Skrevet(k) ==
    /\ steg[k] = "klar" /\ ~Kolliderer(k, App(k)) /\ SkrivPlan(k, App(k))
    /\ steg' = [steg EXCEPT ![k] = "dekomponert"]
    /\ UNCHANGED <<foresporsel, melding, type, emne, kontekst, arkiv>>

\* The wish that a command writes.
Oenske(k) == IF App(k).type = "sett_saksansvarlig" THEN App(k).ansvarlig ELSE Ingen

LEMMA SakenSkrives ==
    ASSUME Trygg, NEW k \in Kommandoer, Skrevet(k)
    PROVE  /\ SakRader' /\ sakRad'[foresporsel[k].sak] # Ingen
           /\ \A s \in Saker : sakRad[s] # Ingen =>
                 /\ sakRad'[s] # Ingen /\ sakRad'[s].av = sakRad[s].av
                 /\ \/ sakRad'[s].oensket = sakRad[s].oensket
                    \/ sakRad'[s].oensket = foresporsel[k].ansvarlig
<1> DEFINE t == foresporsel[k].sak
<1>1. foresporsel \in Foresporsler /\ foresporsel' = foresporsel /\ t \in Saker
      /\ DOMAIN sakRad = Saker
  BY Foresporselen DEF Trygg, Typet, Skrevet
<1>2. Oenske(k) \in Oenskelige /\ (Oenske(k) # Ingen => Oenske(k) = foresporsel[k].ansvarlig)
  BY Feltene DEF Oenske, Oenskelige
<1>3. SakPlan(k, App(k)) = Sakrad(k, Oenske(k))
  BY DEF SakPlan, Sakrad, Oenske
<1>4. SakPlan(k, App(k)).oensket = Oenske(k)
  BY <1>3, SakFelter
<1>5. \A s \in Saker : sakRad'[s] = IF s = t THEN SakSkrevet(k, App(k)) ELSE sakRad[s]
  BY <1>1, Feltene DEF Skrevet, SkrivPlan
<1>6. \A l \in Kommandoer : steg[l] = "dekomponert" => steg'[l] = "dekomponert"
  BY DEF Trygg, Typet, Skrevet
<1>7. steg'[k] = "dekomponert"
  BY DEF Trygg, Typet, Skrevet
<1>8. \A l, o : Sakrad(l, o)' = Sakrad(l, o)
  BY <1>1 DEF Sakrad, App
<1>9. \E l \in Kommandoer : \E o \in Oenskelige :
          /\ steg'[l] = "dekomponert" /\ foresporsel[l].sak = t
          /\ sakRad'[t] = Sakrad(l, o)
          /\ sakRad[t] # Ingen => /\ sakRad'[t].av = sakRad[t].av
                                  /\ \/ sakRad'[t].oensket = sakRad[t].oensket
                                     \/ sakRad'[t].oensket = foresporsel[k].ansvarlig
  <2>1. CASE sakRad[t] = Ingen
    <3>1. sakRad'[t] = Sakrad(k, Oenske(k))
      BY <2>1, <1>1, <1>3, <1>5, Feltene DEF SakSkrevet
    <3> QED
      BY <3>1, <2>1, <1>2, <1>7
  <2>2. CASE sakRad[t] # Ingen
    <3>1. PICK l \in Kommandoer, o \in Oenskelige :
              steg[l] = "dekomponert" /\ foresporsel[l].sak = t /\ sakRad[t] = Sakrad(l, o)
      BY <2>2, <1>1 DEF Trygg, Rader, SakRader
    <3> DEFINE p == IF Oenske(k) = Ingen THEN o ELSE Oenske(k)
    <3>2. sakRad'[t] = [sakRad[t] EXCEPT !.oensket =
                            IF Oenske(k) = Ingen THEN sakRad[t].oensket ELSE Oenske(k)]
      BY <2>2, <1>1, <1>4, <1>5, Feltene DEF SakSkrevet
    <3>3. sakRad'[t] = Sakrad(l, p)
      BY <3>1, <3>2, SakFelter
    <3>4. sakRad'[t].av = l /\ sakRad'[t].oensket = p /\ sakRad[t].av = l /\ sakRad[t].oensket = o
      BY <3>1, <3>3, SakFelter
    <3>5. p \in Oenskelige
      BY <1>2
    <3> QED
      BY <3>1, <3>3, <3>4, <3>5, <1>2, <1>6
  <2> QED
    BY <2>1, <2>2
<1>10. PICK l \in Kommandoer, o \in Oenskelige :
          /\ steg'[l] = "dekomponert" /\ foresporsel[l].sak = t
          /\ sakRad'[t] = Sakrad(l, o)
          /\ sakRad[t] # Ingen => /\ sakRad'[t].av = sakRad[t].av
                                  /\ \/ sakRad'[t].oensket = sakRad[t].oensket
                                     \/ sakRad'[t].oensket = foresporsel[k].ansvarlig
  BY <1>9
<1>11. sakRad'[t] # Ingen
  BY <1>1, <1>10, EnRad
<1>12. Oenskelige' = Oenskelige
  BY <1>1 DEF Oenskelige
<1>13. ASSUME NEW s \in Saker, sakRad'[s] # Ingen
       PROVE  \E m \in Kommandoer : \E q \in Oenskelige :
                 /\ steg'[m] = "dekomponert" /\ foresporsel'[m].sak = s
                 /\ sakRad'[s] = Sakrad(m, q)
  <2>1. CASE s = t
    BY <2>1, <1>10, <1>1
  <2>2. CASE s # t
    <3>1. sakRad[s] # Ingen /\ sakRad'[s] = sakRad[s]
      BY <2>2, <1>5, <1>13
    <3> QED
      BY <3>1, <1>1, <1>6 DEF Trygg, Rader, SakRader
  <2> QED
    BY <2>1, <2>2
<1>14. SakRader'
  BY <1>13, <1>8, <1>12 DEF SakRader
<1> QED
  BY <1>5, <1>10, <1>11, <1>14

LEMMA PostenSkrives ==
    ASSUME Trygg, NEW k \in Kommandoer, Skrevet(k)
    PROVE  /\ JpRader'
           /\ Post(k) => jpRad'[foresporsel[k].ref] # Ingen
           /\ \A j \in Journalposter : jpRad[j] # Ingen => jpRad'[j] = jpRad[j]
           /\ Post(k) /\ jpRad[foresporsel[k].ref] = Ingen => jpRad'[foresporsel[k].ref].av = k
<1>1. foresporsel \in Foresporsler /\ foresporsel' = foresporsel /\ DOMAIN jpRad = Journalposter
  BY DEF Trygg, Typet, Skrevet
<1>2. \A j \in Journalposter :
          jpRad'[j] = IF Post(k) /\ foresporsel[k].ref = j /\ jpRad[j] = Ingen
                      THEN JournalpostPlan(k, App(k)) ELSE jpRad[j]
  BY <1>1, Feltene, Foresporselen DEF Skrevet, SkrivPlan, Post
<1>3. \A l \in Kommandoer : steg[l] = "dekomponert" => steg'[l] = "dekomponert"
  BY DEF Trygg, Typet, Skrevet
<1>4. steg'[k] = "dekomponert"
  BY DEF Trygg, Typet, Skrevet
<1>5. \A l : JournalpostPlan(l, App(l))' = JournalpostPlan(l, App(l)) /\ Post(l)' = Post(l)
  BY <1>1 DEF JournalpostPlan, App, Post
<1>6. JournalpostPlan(k, App(k)) # Ingen
  BY <1>1, EnRad
<1>7. JournalpostPlan(k, App(k)).av = k
  BY DEF JournalpostPlan
<1>8. ASSUME NEW j \in Journalposter, jpRad'[j] # Ingen
      PROVE  \E l \in Kommandoer : /\ steg'[l] = "dekomponert" /\ Post(l) /\ foresporsel'[l].ref = j
                                   /\ jpRad'[j] = JournalpostPlan(l, App(l))
  <2>1. CASE jpRad[j] # Ingen
    BY <2>1, <1>1, <1>2, <1>3 DEF Trygg, Rader, JpRader
  <2>2. CASE jpRad[j] = Ingen
    BY <2>2, <1>1, <1>2, <1>4, <1>8
  <2> QED
    BY <2>1, <2>2
<1>9. JpRader'
  BY <1>5, <1>8 DEF JpRader
<1>10. Post(k) => foresporsel[k].ref \in Journalposter
  BY <1>1, Foresporselen
<1> QED
  BY <1>2, <1>6, <1>7, <1>9, <1>10

LEMMA DokumenteneSkrives ==
    ASSUME Trygg, NEW k \in Kommandoer, Skrevet(k)
    PROVE  /\ DokRader'
           /\ \A i \in 1..Len(foresporsel[k].dok) : dokRad'[foresporsel[k].dok[i].ref] # Ingen
           /\ \A d \in Dokumenter : dokRad[d] # Ingen => dokRad'[d] = dokRad[d]
           /\ \A d \in Dokumenter : dokRad[d] = Ingen /\ dokRad'[d] # Ingen =>
                 \E i \in 1..Len(foresporsel[k].dok) :
                     foresporsel[k].dok[i].ref = d /\ dokRad'[d] = Planlagt(k, i)
<1> DEFINE w == foresporsel[k]
           R(i) == w.dok[i].ref
<1>1. foresporsel \in Foresporsler /\ foresporsel' = foresporsel
  BY DEF Trygg, Typet, Skrevet
<1>2. Innsatt(App(k)) = {i \in 1..Len(w.dok) : /\ dokRad[R(i)] = Ingen
                                               /\ \A j \in 1..(i - 1) : R(j) # R(i)}
  <2>1. App(k).dok = w.dok /\ DOMAIN w.dok = 1..Len(w.dok)
    BY <1>1, Feltene, Foresporselen
  <2> HIDE DEF w
  <2> QED
    BY <2>1, Zenon DEF Innsatt
<1>3. /\ Len(w.dok) \in Nat /\ \A i \in 1..Len(w.dok) : R(i) \in Dokumenter
      /\ Len(w.dok) > 0 => Post(k)
  BY <1>1, Foresporselen
<1> HIDE DEF w
<1>4. ASSUME NEW d \in Dokumenter
      PROVE  dokRad'[d] = IF \E i \in Innsatt(App(k)) : R(i) = d
                          THEN Planlagt(k, CHOOSE i \in Innsatt(App(k)) : R(i) = d)
                          ELSE dokRad[d]
  BY Feltene, Dokradene DEF Skrevet, SkrivPlan, w
<1>5. ASSUME NEW d \in Dokumenter, \E i \in Innsatt(App(k)) : R(i) = d
      PROVE  \E i \in Innsatt(App(k)) : R(i) = d /\ dokRad'[d] = Planlagt(k, i)
  BY <1>4, <1>5
<1>6. ASSUME NEW d \in Dokumenter
      PROVE  /\ dokRad[d] # Ingen => dokRad'[d] = dokRad[d]
             /\ dokRad[d] = Ingen /\ dokRad'[d] # Ingen =>
                  \E i \in 1..Len(w.dok) : R(i) = d /\ dokRad'[d] = Planlagt(k, i)
  BY <1>2, <1>4, <1>5
<1>7. ASSUME NEW i \in 1..Len(w.dok)
      PROVE  dokRad'[R(i)] # Ingen
  <2>1. CASE dokRad[R(i)] # Ingen
    BY <2>1, <1>3, <1>6
  <2>2. CASE dokRad[R(i)] = Ingen
    <3> DEFINE S == {j \in 1..Len(w.dok) : R(j) = R(i)}
    <3>1. S \in SUBSET Nat /\ S # {}
      BY <1>3
    <3>2. PICK m \in S : \A x \in S : m <= x
      BY <3>1, Minste
    <3>3. m \in Innsatt(App(k)) /\ R(m) = R(i)
      BY <3>2, <2>2, <1>2, <1>3
    <3>4. PICK n \in Innsatt(App(k)) : R(n) = R(i) /\ dokRad'[R(i)] = Planlagt(k, n)
      BY <3>3, <1>3, <1>5
    <3>5. Planlagt(k, n) # Ingen
      BY <1>1, <1>2, EnRad DEF w
    <3> QED
      BY <3>4, <3>5
  <2> QED
    BY <2>1, <2>2
<1>8. \A l \in Kommandoer : steg[l] = "dekomponert" => steg'[l] = "dekomponert"
  BY DEF Trygg, Typet, Skrevet
<1>9. steg'[k] = "dekomponert"
  BY DEF Trygg, Typet, Skrevet
<1>10. \A l, i : /\ Planlagt(l, i)' = Planlagt(l, i) /\ Rendret(l, i)' = Rendret(l, i)
                 /\ Post(l)' = Post(l)
  BY <1>1 DEF Planlagt, Rendret, Dokrad, Post
<1>11. ASSUME NEW d \in Dokumenter, dokRad'[d] # Ingen
       PROVE  \E l \in Kommandoer : \E i \in 1..Len(foresporsel[l].dok) :
                 /\ steg'[l] = "dekomponert" /\ Post(l) /\ foresporsel[l].dok[i].ref = d
                 /\ \/ dokRad'[d] = Planlagt(l, i)
                    \/ dokRad'[d] = Rendret(l, i) /\ foresporsel[l].dok[i].form = "mal"
  <2>1. CASE dokRad[d] # Ingen
    BY <2>1, <1>6, <1>8 DEF Trygg, Rader, DokRader
  <2>2. CASE dokRad[d] = Ingen
    BY <2>2, <1>3, <1>6, <1>9, <1>11 DEF w
  <2> QED
    BY <2>1, <2>2
<1>12. DokRader'
  BY <1>1, <1>10, <1>11 DEF DokRader
<1> QED
  BY <1>6, <1>7, <1>12 DEF w

\* What the archive has stays true as long as rows stay with their requests.
RaderStaar ==
    /\ \A s \in Saker : sakRad[s] # Ingen => sakRad'[s] # Ingen /\ sakRad'[s].av = sakRad[s].av
    /\ \A j \in Journalposter : jpRad[j] # Ingen => jpRad'[j] # Ingen /\ jpRad'[j].av = jpRad[j].av
    /\ \A d \in Dokumenter : dokRad[d] # Ingen => dokRad'[d] # Ingen /\ dokRad'[d].av = dokRad[d].av

LEMMA ArkivetStaar ==
    ASSUME Trygg, foresporsel' = foresporsel, arkiv' = arkiv, RaderStaar
    PROVE  HarRad' /\ ArkivertErSendt'
<1>1. HarRad'
  BY DEF Trygg, HarRad, RaderStaar
<1>2. \A j : SammeHoved(j)' = SammeHoved(j)
  BY DEF SammeHoved
<1>3. \A x : Sendt(x)' = Sendt(x)
  BY DEF Sendt
<1>4. ASSUME NEW s \in Saker, Sendt(s)
      PROVE  sakRad'[s].av = sakRad[s].av
  BY <1>4 DEF Trygg, HarRad, RaderStaar, Sendt
<1>5. ASSUME NEW j \in Journalposter, Sendt(j)
      PROVE  jpRad'[j].av = jpRad[j].av
  BY <1>5 DEF Trygg, HarRad, RaderStaar, Sendt
<1>6. ASSUME NEW d \in Dokumenter, Sendt(d)
      PROVE  dokRad'[d].av = dokRad[d].av
  BY <1>6 DEF Trygg, HarRad, RaderStaar, Sendt
<1>7. \A w : Oensket(w)' = Oensket(w)
  BY DEF Oensket, OensketPart, OensketFil
<1>8. ArkivertErSendt
  BY DEF Trygg
<1> QED
  BY <1>1, <1>2, <1>3, <1>4, <1>5, <1>6, <1>7, <1>8 DEF ArkivertErSendt

\* The messages stay those of the requests when none is written.
LEMMA MeldingeneStaar ==
    ASSUME Meldinger, foresporsel' = foresporsel, UNCHANGED <<melding, type, emne, kontekst>>,
           \A k \in Kommandoer : steg'[k] = "sendt" <=> steg[k] = "sendt"
    PROVE  Meldinger'
<1>1. \A k : App(k)' = App(k)
  BY DEF App
<1>2. \A a : TilWire(a)' = TilWire(a) /\ TidligKontekst(a)' = TidligKontekst(a)
  BY DEF TilWire, TidligKontekst, Wiretype
<1> QED
  BY <1>1, <1>2 DEF Meldinger

LEMMA PlanBevarer ==
    ASSUME Trygg, NEW k \in Kommandoer, Skrevet(k)
    PROVE  Trygg'
<1>1. Typet'
  BY DEF Trygg, Typet, Skrevet, SkrivPlan
<1>2. Meldinger'
  <2>1. \A l \in Kommandoer : steg'[l] = "sendt" <=> steg[l] = "sendt"
    BY DEF Trygg, Typet, Skrevet
  <2> QED
    BY <2>1, MeldingeneStaar DEF Trygg, Skrevet
<1>3. foresporsel' = foresporsel /\ foresporsel \in Foresporsler
  BY DEF Skrevet, Trygg, Typet
<1>4. \A l \in Kommandoer : steg'[l] = "dekomponert" => l = k \/ steg[l] = "dekomponert"
  BY DEF Trygg, Typet, Skrevet
<1>5. Fullstendig'
  <2> SUFFICES ASSUME NEW l \in Kommandoer, steg'[l] = "dekomponert"
               PROVE  /\ sakRad'[foresporsel[l].sak] # Ingen
                      /\ Post(l) => jpRad'[foresporsel[l].ref] # Ingen
                      /\ \A i \in 1..Len(foresporsel[l].dok) :
                             dokRad'[foresporsel[l].dok[i].ref] # Ingen
    BY <1>3 DEF Fullstendig, Post
  <2>1. CASE l = k
    BY <2>1, SakenSkrives, PostenSkrives, DokumenteneSkrives
  <2>2. CASE l # k
    <3>1. /\ sakRad[foresporsel[l].sak] # Ingen
          /\ Post(l) => jpRad[foresporsel[l].ref] # Ingen
          /\ \A i \in 1..Len(foresporsel[l].dok) : dokRad[foresporsel[l].dok[i].ref] # Ingen
      BY <2>2, <1>4 DEF Trygg, Rader, Fullstendig
    <3>2. /\ foresporsel[l].sak \in Saker /\ (Post(l) => foresporsel[l].ref \in Journalposter)
          /\ \A i \in 1..Len(foresporsel[l].dok) : foresporsel[l].dok[i].ref \in Dokumenter
      BY <1>3, Foresporselen
    <3> QED
      BY <3>1, <3>2, SakenSkrives, PostenSkrives, DokumenteneSkrives
  <2> QED
    BY <2>1, <2>2
<1>6. Hoveddokument'
  <2> SUFFICES ASSUME NEW d \in Dokumenter, dokRad'[d] # Ingen, dokRad'[d].rekkefolge = 0,
                      SammeHoved(dokRad'[d].jp)
               PROVE  jpRad'[dokRad'[d].jp] # Ingen /\ jpRad'[dokRad'[d].jp].av = dokRad'[d].av
    BY <1>3 DEF Hoveddokument, SammeHoved
  <2>1. CASE dokRad[d] # Ingen
    <3>1. dokRad'[d] = dokRad[d]
      BY <2>1, DokumenteneSkrives
    <3>2. jpRad[dokRad[d].jp] # Ingen /\ jpRad[dokRad[d].jp].av = dokRad[d].av
      BY <2>1, <3>1 DEF Trygg, Rader, Hoveddokument
    <3>3. PICK l \in Kommandoer :
             Post(l) /\ \E i : dokRad[d] = Planlagt(l, i) \/ dokRad[d] = Rendret(l, i)
      BY <2>1 DEF Trygg, Rader, DokRader
    <3>4. dokRad[d].jp = foresporsel[l].ref
      BY <3>3, DokFelter DEF Planlagt, Rendret
    <3>5. dokRad[d].jp \in Journalposter
      BY <3>3, <3>4, <1>3, Foresporselen
    <3> QED
      BY <3>1, <3>2, <3>5, PostenSkrives
  <2>2. CASE dokRad[d] = Ingen
    <3>1. PICK i \in 1..Len(foresporsel[k].dok) :
             foresporsel[k].dok[i].ref = d /\ dokRad'[d] = Planlagt(k, i)
      BY <2>2, DokumenteneSkrives
    <3>2. dokRad'[d].jp = foresporsel[k].ref /\ dokRad'[d].rekkefolge = i - 1 /\ dokRad'[d].av = k
      BY <3>1, DokFelter DEF Planlagt
    <3>3. i = 1 /\ Post(k) /\ foresporsel[k].ref \in Journalposter
      BY <3>1, <3>2, <1>3, Foresporselen
    <3>4. jpRad[foresporsel[k].ref] = Ingen
      <4> SUFFICES ASSUME jpRad[foresporsel[k].ref] # Ingen
                   PROVE  FALSE
        OBVIOUS
      <4>1. PICK l \in Kommandoer : /\ steg[l] = "dekomponert" /\ Post(l)
                                    /\ foresporsel[l].ref = foresporsel[k].ref
        BY <3>3 DEF Trygg, Rader, JpRader
      <4>2. foresporsel[l].dok[1].ref = d
        BY <4>1, <3>1, <3>2, <3>3 DEF SammeHoved
      <4>3. 1 \in 1..Len(foresporsel[l].dok)
        BY <4>1, <1>3, Foresporselen
      <4>4. dokRad[foresporsel[l].dok[1].ref] # Ingen
        BY <4>1, <4>3 DEF Trygg, Rader, Fullstendig
      <4> QED
        BY <4>2, <4>4, <2>2
    <3> QED
      BY <3>2, <3>3, <3>4, PostenSkrives
  <2> QED
    BY <2>1, <2>2
<1>7. Rader'
  BY <1>5, <1>6, SakenSkrives, PostenSkrives, DokumenteneSkrives DEF Rader
<1>8. RaderStaar
  BY SakenSkrives, PostenSkrives, DokumenteneSkrives DEF RaderStaar
<1>9. HarRad' /\ ArkivertErSendt'
  BY <1>8, ArkivetStaar DEF Skrevet
<1> QED
  BY <1>1, <1>2, <1>7, <1>9 DEF Trygg

----------------------------------------------------------------------------
(* What is sent                                                            *)

\* Both columns of the access, or none, are read back as they were written.
LEMMA Tilgangen ==
    ASSUME NEW t, NEW r, r.kode = Kode(t), r.hjemmel = Hjemmel(t),
           t # Ingen => /\ t = [kode |-> t.kode, hjemmel |-> t.hjemmel]
                        /\ t.kode # Ingen /\ t.hjemmel # Ingen
    PROVE  LesTilgang(r) = t
BY DEF LesTilgang, Kode, Hjemmel, Skjermet

\* The row of a case that is created: of a request to create it.
LEMMA SakenSomSendes ==
    ASSUME Trygg, NEW s \in Saker, sakRad[s] # Ingen, sakRad[s].ny
    PROVE  LET w == foresporsel[sakRad[s].av] IN
           /\ w.type = "opprett_sak"
           /\ LesTilgang(sakRad[s]) = w.tilgang /\ sakRad[s].ansvarlig = w.ansvarlig
<1>1. foresporsel \in Foresporsler
  BY DEF Trygg, Typet
<1>2. PICK k \in Kommandoer, o \in Oenskelige : sakRad[s] = Sakrad(k, o)
  BY DEF Trygg, Rader, SakRader
<1>3. ErForespurt(foresporsel[k])
  BY <1>1, Foresporselen
<1>4. foresporsel[k].type = "opprett_sak"
  <2>1. Sakrad(k, o).ny = (Kommandotype(foresporsel[k].type) = "opprett_sak")
    BY SakFelter
  <2>2. Kommandotype(foresporsel[k].type) = "opprett_sak"
    BY <1>2, <2>1, Zenon
  <2> QED
    BY <2>2 DEF Kommandotype
<1>5. /\ sakRad[s].av = k /\ sakRad[s].ansvarlig = foresporsel[k].ansvarlig
      /\ sakRad[s].kode = Kode(foresporsel[k].tilgang)
      /\ sakRad[s].hjemmel = Hjemmel(foresporsel[k].tilgang)
  BY <1>2, <1>4, SakFelter DEF Kommandotype
<1>7. LesTilgang(sakRad[s]) = foresporsel[k].tilgang
  <2> DEFINE t == foresporsel[k].tilgang
  <2>1. t # Ingen => /\ t = [kode |-> t.kode, hjemmel |-> t.hjemmel]
                     /\ t.kode # Ingen /\ t.hjemmel # Ingen
    BY <1>3 DEF ErForespurt
  <2>2. sakRad[s].kode = Kode(t) /\ sakRad[s].hjemmel = Hjemmel(t)
    BY <1>5
  <2> HIDE DEF t
  <2>3. LesTilgang(sakRad[s]) = t
    BY <2>1, <2>2, Tilgangen
  <2> QED
    BY <2>3 DEF t
<1> QED
  BY <1>4, <1>5, <1>7

\* A record as it is planned says what the request says.
LEMMA PartenesForm ==
    ASSUME foresporsel \in Foresporsler, NEW k \in Kommandoer, Post(k)
    PROVE  LET w == foresporsel[k]
               r == JournalpostPlan(k, App(k)) IN
           /\ Len(w.parter) \in Nat /\ DOMAIN w.parter = 1..Len(w.parter)
           /\ r.parter = [i \in 1..Len(w.parter) |->
                            [rolle |-> Rolle(w.type), navn |-> w.parter[i].navn,
                             slag |-> w.parter[i].slag]]
           /\ Len(w.parter) > 0 => Partsform(r) = Rolle(w.type)
           /\ LesParter(r) = r.parter
<1> DEFINE w == foresporsel[k]
           r == JournalpostPlan(k, App(k))
           n == Len(w.parter)
<1>1. ErForespurt(w) /\ ErListe(w.parter)
  BY Foresporselen DEF ErForespurt
<1>2. n \in Nat /\ DOMAIN w.parter = 1..n
  BY <1>1 DEF ErListe
<1>3. r.parter = Partsliste(App(k)) /\ App(k).variant = w.type /\ App(k).parter = w.parter
  BY Feltene DEF JournalpostPlan
<1> HIDE DEF w, r
<1>4. r.parter = [i \in 1..n |-> [rolle |-> Rolle(w.type), navn |-> w.parter[i].navn,
                                  slag |-> w.parter[i].slag]]
  BY <1>2, <1>3 DEF Partsliste
<1>5. ASSUME n > 0
      PROVE  r.parter # <<>> /\ r.parter[1].rolle = Rolle(w.type)
  <2>1. 1 \in 1..n /\ DOMAIN r.parter = 1..n
    BY <1>2, <1>4, <1>5
  <2>2. r.parter # <<>>
    BY <2>1
  <2> QED
    BY <2>1, <2>2, <1>4
<1>6. n > 0 => Partsform(r) = Rolle(w.type)
  BY <1>5 DEF Partsform
<1>7. LesParter(r) = r.parter
  <2>1. CASE w.type = "inn"
    <3>1. n = 1
      BY <2>1, <1>1 DEF ErForespurt
    <3>2. r.parter = <<r.parter[1]>>
      BY <3>1, <1>4
    <3>3. Partsform(r) = "avsender"
      BY <3>1, <1>6, <2>1 DEF Rolle
    <3> QED
      BY <3>2, <3>3 DEF LesParter
  <2>2. CASE w.type # "inn"
    <3>1. CASE n = 0
      <4>1. DOMAIN r.parter = {}
        BY <3>1, <1>4
      <4>2. r.parter = <<>>
        BY <3>1, <1>4
      <4> QED
        BY <4>2 DEF Partsform, LesParter
    <3>2. CASE n > 0
      <4>1. Rolle(w.type) # "avsender"
        BY <2>2, <1>1, <3>2, <1>2, MaterialiseringAntagelse DEF Rolle, ErForespurt, Post, w, Journalposttyper
      <4> QED
        BY <3>2, <4>1, <1>6 DEF LesParter
    <3> QED
      BY <3>1, <3>2, <1>2
  <2> QED
    BY <2>1, <2>2
<1> QED
  BY <1>2, <1>4, <1>6, <1>7 DEF w, r

LEMMA PosteneStemmer ==
    ASSUME foresporsel \in Foresporsler, NEW k \in Kommandoer, Post(k)
    PROVE  LET w == foresporsel[k]
               r == JournalpostPlan(k, App(k)) IN
           /\ r.av = k /\ r.sak = w.sak /\ r.type = Oensket(w).type
           /\ (IF r.type = "U" THEN "R" ELSE Ingen) = Oensket(w).status
           /\ LesTilgang(r) = w.tilgang
           /\ ArkivParter(r) = Oensket(w).parter
<1> DEFINE w == foresporsel[k]
           r == JournalpostPlan(k, App(k))
           n == Len(w.parter)
<1>1. ErForespurt(w) /\ w.type \in Journalposttyper
  BY Foresporselen DEF Post
<1>2. /\ r.av = k /\ r.sak = w.sak
      /\ r.type = CASE Kommandotype(w.type) = "inn" -> "I" [] Kommandotype(w.type) = "ut" -> "U"
                    [] OTHER -> "X"
      /\ r.utsending = (w.type = "ut_utsending")
      /\ r.kode = Kode(w.tilgang) /\ r.hjemmel = Hjemmel(w.tilgang)
  BY Feltene DEF JournalpostPlan
<1>3. /\ n \in Nat /\ DOMAIN w.parter = 1..n
      /\ r.parter = [i \in 1..n |-> [rolle |-> Rolle(w.type), navn |-> w.parter[i].navn,
                                     slag |-> w.parter[i].slag]]
      /\ n > 0 => Partsform(r) = Rolle(w.type)
      /\ LesParter(r) = r.parter
  BY PartenesForm
<1>4. /\ w.type = "inn" => n = 1
      /\ w.type = "notat" => n = 0
      /\ w.tilgang # Ingen => /\ w.tilgang = [kode |-> w.tilgang.kode, hjemmel |-> w.tilgang.hjemmel]
                              /\ w.tilgang.kode # Ingen /\ w.tilgang.hjemmel # Ingen
  BY <1>1 DEF ErForespurt
<1> HIDE DEF w, r, n
<1>5. r.type = Oensket(w).type
  BY <1>1, <1>2 DEF Oensket, Kommandotype, Journalposttyper
<1>6. (IF r.type = "U" THEN "R" ELSE Ingen) = Oensket(w).status
  BY <1>1, <1>2 DEF Oensket, Kommandotype, Journalposttyper
<1>7. LesTilgang(r) = w.tilgang
  BY <1>2, <1>4, Tilgangen
<1>8. /\ DOMAIN LesParter(r) = 1..n
      /\ \A i \in 1..n : /\ LesParter(r)[i].navn = w.parter[i].navn
                         /\ LesParter(r)[i].slag = w.parter[i].slag
  BY <1>3
<1>9. ASSUME n > 0
      PROVE  /\ (Partsform(r) # "avsender") = (w.type # "inn")
             /\ Metode(r) = CASE w.type = "inn" -> Ingen [] w.type = "ut" -> "DIG"
                              [] OTHER -> "GENERELL"
  <2>1. CASE w.type = "inn"
    BY <2>1, <1>3, <1>9 DEF Metode, Rolle
  <2>2. CASE w.type = "ut"
    <3>1. Partsform(r) = "mottaker" /\ ~r.utsending
      BY <2>2, <1>2, <1>3, <1>9 DEF Rolle
    <3> QED
      BY <2>2, <3>1 DEF Metode
  <2>3. CASE w.type = "ut_utsending"
    <3>1. Partsform(r) = "utsendingsmottaker"
      BY <2>3, <1>3, <1>9 DEF Rolle
    <3> QED
      BY <2>3, <3>1 DEF Metode
  <2> QED
    BY <2>1, <2>2, <2>3, <1>1, <1>4, <1>9 DEF Journalposttyper
<1>10. ASSUME NEW i \in 1..n
       PROVE  [mottaker |-> Partsform(r) # "avsender", navn |-> LesParter(r)[i].navn,
               person |-> LesParter(r)[i].slag = "person", metode |-> Metode(r),
               unntatt |-> Skjermet(LesTilgang(r))]
              = OensketPart(w, i)
  <2>1. n > 0
    BY <1>3
  <2> QED
    BY <2>1, <1>7, <1>8, <1>9 DEF OensketPart, Skjermet
<1>11. ArkivParter(r) = [i \in 1..n |-> OensketPart(w, i)]
  BY <1>8, <1>10, Zenon DEF ArkivParter
<1>12. Oensket(w).parter = [i \in 1..n |-> OensketPart(w, i)]
  BY <1>3 DEF Oensket
<1> QED
  BY <1>2, <1>5, <1>6, <1>7, <1>11, <1>12 DEF w, r

\* A main document that is ready is what the request said, or rendered from it.
LEMMA FilenStemmer ==
    ASSUME foresporsel \in Foresporsler, NEW k \in Kommandoer, NEW i \in 1..Len(foresporsel[k].dok),
           NEW r, \/ r = Planlagt(k, i)
                  \/ r = Rendret(k, i) /\ foresporsel[k].dok[i].form = "mal"
    PROVE  /\ r.tilstand = "klar" => Arkivfil(r) = OensketFil(foresporsel[k].dok[i])
           /\ r.mal = Ingen => r.dokument = foresporsel[k].dok[i].fil
           /\ r.tilstand = "avventer_rendring" => foresporsel[k].dok[i].form = "mal"
           /\ (r.dokument = Ingen) # (r.mal = Ingen)
           /\ r.rendret # Ingen => r.mal # Ingen
           /\ r.jp = foresporsel[k].ref /\ r.rekkefolge = i - 1 /\ r.av = k
<1> DEFINE x == foresporsel[k].dok[i]
<1>1. x.form \in {"bytes", "mal"} /\ x.fil # Ingen
  BY Foresporselen DEF ErForespurt
<1>2. /\ r.dokument = IF x.form = "bytes" THEN x.fil ELSE Ingen
      /\ r.mal = IF x.form = "mal" THEN x.fil ELSE Ingen
      /\ r.jp = foresporsel[k].ref /\ r.rekkefolge = i - 1 /\ r.av = k
  BY DokFelter DEF Planlagt, Rendret
<1>3. \/ /\ r.tilstand = (IF x.form = "bytes" THEN "klar" ELSE "avventer_rendring")
         /\ r.rendret = Ingen
      \/ r.tilstand = "klar" /\ r.rendret = <<"pdf", x.ref>> /\ x.form = "mal"
  BY DokFelter DEF Planlagt, Rendret
<1>4. r.tilstand = "klar" => Arkivfil(r) = OensketFil(x)
  BY <1>1, <1>2, <1>3 DEF Arkivfil, OensketFil
<1> QED
  BY <1>1, <1>2, <1>3, <1>4

\* The request of a document's row.
LEMMA DokumentetsForesporsel ==
    ASSUME Trygg, NEW d \in Dokumenter, dokRad[d] # Ingen
    PROVE  LET w == foresporsel[dokRad[d].av] IN
           /\ dokRad[d].av \in Kommandoer /\ Post(dokRad[d].av)
           /\ dokRad[d].rekkefolge + 1 \in 1..Len(w.dok)
           /\ w.dok[dokRad[d].rekkefolge + 1].ref = d /\ dokRad[d].jp = w.ref
           /\ dokRad[d].tilstand = "klar" =>
                 Arkivfil(dokRad[d]) = OensketFil(w.dok[dokRad[d].rekkefolge + 1])
           /\ dokRad[d].mal = Ingen => dokRad[d].dokument = w.dok[dokRad[d].rekkefolge + 1].fil
<1>1. foresporsel \in Foresporsler
  BY DEF Trygg, Typet
<1>2. PICK k \in Kommandoer :
         /\ Post(k)
         /\ \E i \in 1..Len(foresporsel[k].dok) :
               /\ foresporsel[k].dok[i].ref = d
               /\ \/ dokRad[d] = Planlagt(k, i)
                  \/ dokRad[d] = Rendret(k, i) /\ foresporsel[k].dok[i].form = "mal"
  BY DEF Trygg, Rader, DokRader
<1>3. PICK i \in 1..Len(foresporsel[k].dok) :
         /\ foresporsel[k].dok[i].ref = d
         /\ \/ dokRad[d] = Planlagt(k, i)
            \/ dokRad[d] = Rendret(k, i) /\ foresporsel[k].dok[i].form = "mal"
  BY <1>2
<1>4. /\ dokRad[d].tilstand = "klar" => Arkivfil(dokRad[d]) = OensketFil(foresporsel[k].dok[i])
      /\ dokRad[d].mal = Ingen => dokRad[d].dokument = foresporsel[k].dok[i].fil
      /\ dokRad[d].jp = foresporsel[k].ref /\ dokRad[d].rekkefolge = i - 1 /\ dokRad[d].av = k
  BY <1>1, <1>3, FilenStemmer
<1>5. dokRad[d].rekkefolge + 1 = i
  BY <1>4, <1>1, Foresporselen
<1> QED
  BY <1>2, <1>3, <1>4, <1>5

\* What is sent of a record is what its request says.
LEMMA PostenSomSendes ==
    ASSUME Trygg, NEW j \in Journalposter, NEW d \in Dokumenter, KlartForJournalpost(j, d),
           SammeHoved(j)
    PROVE  ArkivJournalpost(j, d) = Oensket(foresporsel[jpRad[j].av])
<1>1. foresporsel \in Foresporsler
  BY DEF Trygg, Typet
<1>2. /\ jpRad[j] # Ingen /\ dokRad[d] # Ingen /\ dokRad[d].jp = j
      /\ dokRad[d].rekkefolge = 0 /\ dokRad[d].tilstand = "klar"
  BY DEF KlartForJournalpost, Hoved
<1>3. PICK k \in Kommandoer : Post(k) /\ jpRad[j] = JournalpostPlan(k, App(k))
  BY <1>2 DEF Trygg, Rader, JpRader
<1> DEFINE w == foresporsel[k]
           r == jpRad[j]
<1>4. /\ r.av = k /\ r.sak = w.sak /\ r.type = Oensket(w).type
      /\ (IF r.type = "U" THEN "R" ELSE Ingen) = Oensket(w).status
      /\ LesTilgang(r) = w.tilgang
      /\ ArkivParter(r) = Oensket(w).parter
  BY <1>1, <1>3, PosteneStemmer
<1>5. dokRad[d].av = k
  BY <1>2, <1>4 DEF Trygg, Rader, Hoveddokument
<1>6. Arkivfil(dokRad[d]) = OensketFil(w.dok[1])
  BY <1>2, <1>5, DokumentetsForesporsel
<1> QED
  BY <1>4, <1>6 DEF ArkivJournalpost, Oensket

----------------------------------------------------------------------------
(* Every step keeps the invariant                                          *)

\* Steps that only move a message.
LEMMA MeldingBevarer ==
    ASSUME Trygg, NEW k \in Kommandoer, Motta(k) \/ Valider(k)
    PROVE  Trygg'
<1>1. /\ foresporsel \in Foresporsler /\ foresporsel' = foresporsel
      /\ UNCHANGED <<sakRad, jpRad, dokRad, arkiv>>
  BY DEF Trygg, Typet, Motta, Valider, rader
<1>2. Typet'
  BY DEF Trygg, Typet, Motta, Valider, rader
<1>3. \A l \in Kommandoer : steg'[l] = "dekomponert" <=> steg[l] = "dekomponert"
  BY DEF Trygg, Typet, Motta, Valider
<1>4. \A l : App(l)' = App(l) /\ Post(l)' = Post(l)
  BY <1>1 DEF App, Post
<1>5. Meldinger'
  <2>1. /\ \A l \in Kommandoer : l # k => /\ steg'[l] = steg[l] /\ melding'[l] = melding[l]
                                          /\ type'[l] = type[l] /\ emne'[l] = emne[l]
                                          /\ kontekst'[l] = kontekst[l]
    BY DEF Trygg, Typet, Motta, Valider
  <2>2. steg'[k] # "sendt"
    BY DEF Trygg, Typet, Motta, Valider
  <2>3. /\ Wiretype(App(k)) = foresporsel[k].type
        /\ TilApplikasjon(TilWire(App(k))) = App(k)
    BY <1>1, FremOgTilbake
  <2>4. /\ melding'[k] = TilWire(App(k)) /\ type'[k] = App(k).type
        /\ emne'[k] = WireToken(foresporsel[k].type)
        /\ kontekst'[k] = TidligKontekst(App(k))
    <3>1. CASE Motta(k)
      BY <3>1, <2>3 DEF Trygg, Typet, Motta, App
    <3>2. CASE Valider(k)
      <4>1. /\ melding[k] = TilWire(App(k)) /\ type[k] = App(k).type
            /\ emne[k] = WireToken(foresporsel[k].type)
            /\ kontekst[k] = TidligKontekst(App(k))
        BY <3>2 DEF Trygg, Meldinger, Valider
      <4>2. melding'[k] = TilWire(App(k))
        BY <3>2, <4>1, <2>3 DEF Trygg, Typet, Valider
      <4> QED
        BY <4>1, <4>2, <3>2 DEF Valider
    <3> QED
      BY <3>1, <3>2
  <2>5. \A a : TilWire(a)' = TilWire(a) /\ TidligKontekst(a)' = TidligKontekst(a)
    BY DEF TilWire, TidligKontekst, Wiretype
  <2>6. Meldinger
    BY DEF Trygg
  <2> QED
    BY <2>1, <2>2, <2>4, <2>5, <2>6, <1>1, <1>4 DEF Meldinger
<1>6. Rader'
  <2>1. Oenskelige' = Oenskelige /\ \A l, o : Sakrad(l, o)' = Sakrad(l, o)
    BY <1>1, <1>4 DEF Oenskelige, Sakrad
  <2>2. \A l : JournalpostPlan(l, App(l))' = JournalpostPlan(l, App(l))
    BY <1>4 DEF JournalpostPlan, Partsliste
  <2>3. \A l, i : Planlagt(l, i)' = Planlagt(l, i) /\ Rendret(l, i)' = Rendret(l, i)
    BY <1>1 DEF Planlagt, Rendret, Dokrad
  <2>4. SakRader'
    BY <1>1, <1>3, <2>1 DEF Trygg, Rader, SakRader
  <2>5. JpRader'
    BY <1>1, <1>3, <1>4, <2>2 DEF Trygg, Rader, JpRader
  <2>6. DokRader'
    BY <1>1, <1>3, <1>4, <2>3 DEF Trygg, Rader, DokRader
  <2>7. Fullstendig' /\ Hoveddokument'
    BY <1>1, <1>3, <1>4 DEF Trygg, Rader, Fullstendig, Hoveddokument, SammeHoved
  <2> QED
    BY <2>4, <2>5, <2>6, <2>7 DEF Rader
<1>7. HarRad' /\ ArkivertErSendt'
  BY <1>1, ArkivetStaar DEF RaderStaar
<1> QED
  BY <1>2, <1>5, <1>6, <1>7 DEF Trygg

\* Rows and messages stay when only the archive is written to.
LEMMA ArkivBevarer ==
    ASSUME Trygg, UNCHANGED <<foresporsel, flyt, rader>>,
           DOMAIN arkiv' = Saker \cup Journalposter \cup Dokumenter, HarRad', ArkivertErSendt'
    PROVE  Trygg'
<1>1. UNCHANGED <<foresporsel, steg, melding, type, emne, kontekst, sakRad, jpRad, dokRad>>
  BY DEF flyt, rader
<1>2. Typet'
  BY <1>1 DEF Trygg, Typet
<1>3. Meldinger'
  BY <1>1, MeldingeneStaar DEF Trygg
<1>4. /\ Oenskelige' = Oenskelige /\ \A l, o : Sakrad(l, o)' = Sakrad(l, o)
      /\ \A l : JournalpostPlan(l, App(l))' = JournalpostPlan(l, App(l)) /\ Post(l)' = Post(l)
      /\ \A l, i : Planlagt(l, i)' = Planlagt(l, i) /\ Rendret(l, i)' = Rendret(l, i)
  BY <1>1 DEF Oenskelige, Sakrad, App, JournalpostPlan, Partsliste, Planlagt, Rendret, Dokrad, Post
<1>5. Rader'
  BY <1>1, <1>4 DEF Trygg, Rader, SakRader, JpRader, DokRader, Fullstendig, Hoveddokument,
                    SammeHoved
<1> QED
  BY <1>2, <1>3, <1>5 DEF Trygg

\* What is sent of one thing leaves what was sent of the others.
LEMMA EttSendt ==
    ASSUME Trygg, UNCHANGED <<foresporsel, flyt, rader>>,
           NEW x \in Saker \cup Journalposter \cup Dokumenter, NEW v,
           arkiv' = [arkiv EXCEPT ![x] = v],
           x \in Saker => sakRad[x] # Ingen,
           x \in Journalposter => jpRad[x] # Ingen,
           x \in Dokumenter => dokRad[x] # Ingen,
           x \in Saker => LET w == foresporsel[sakRad[x].av]
                          IN /\ w.type = "opprett_sak"
                             /\ v = [tilgang |-> w.tilgang, ansvarlig |-> w.ansvarlig],
           x \in Journalposter /\ v # Avvist /\ SammeHoved(x) =>
               v = Oensket(foresporsel[jpRad[x].av]),
           x \in Dokumenter /\ v # Avvist =>
               LET w == foresporsel[dokRad[x].av]
               IN \E i \in 2..Len(w.dok) : w.dok[i].ref = x
                                           /\ v = [jp |-> w.ref, fil |-> w.dok[i].fil]
    PROVE  Trygg'
<1>1. /\ UNCHANGED <<foresporsel, sakRad, jpRad, dokRad>>
      /\ DOMAIN arkiv = Saker \cup Journalposter \cup Dokumenter
  BY DEF rader, Trygg, Typet
<1>2. arkiv'[x] = v /\ \A y \in Saker \cup Journalposter \cup Dokumenter :
                            y # x => arkiv'[y] = arkiv[y]
  BY <1>1
<1>3. HarRad'
  BY <1>1, <1>2 DEF Trygg, HarRad
<1>4. ASSUME NEW y \in Saker \cup Journalposter \cup Dokumenter, Sendt(y)'
      PROVE  \/ y = x /\ v # Avvist
             \/ y # x /\ Sendt(y)
  BY <1>2, <1>4 DEF Sendt
<1>5. \A j : SammeHoved(j)' = SammeHoved(j)
  BY <1>1 DEF SammeHoved
<1>6. \A w : Oensket(w)' = Oensket(w)
  BY DEF Oensket, OensketPart, OensketFil
<1>7. ArkivertErSendt
  BY DEF Trygg
<1>8. ASSUME NEW s \in Saker, Sendt(s)'
      PROVE  (LET w == foresporsel[sakRad[s].av]
              IN w.type = "opprett_sak" /\ arkiv[s] = [tilgang |-> w.tilgang,
                                                      ansvarlig |-> w.ansvarlig])'
  <2>1. LET w == foresporsel[sakRad[s].av]
        IN w.type = "opprett_sak" /\ arkiv'[s] = [tilgang |-> w.tilgang,
                                                 ansvarlig |-> w.ansvarlig]
    BY <1>2, <1>4, <1>7, <1>8 DEF ArkivertErSendt
  <2> QED
    BY <2>1, <1>1
<1>9. ASSUME NEW j \in Journalposter, Sendt(j)', SammeHoved(j)'
      PROVE  (arkiv[j] = Oensket(foresporsel[jpRad[j].av]))'
  <2>1. arkiv'[j] = Oensket(foresporsel[jpRad[j].av])
    BY <1>2, <1>4, <1>5, <1>7, <1>9 DEF ArkivertErSendt
  <2> QED
    BY <2>1, <1>1, <1>6
<1>10. ASSUME NEW d \in Dokumenter, Sendt(d)'
       PROVE  (LET w == foresporsel[dokRad[d].av]
               IN \E i \in 2..Len(w.dok) : /\ w.dok[i].ref = d
                                           /\ arkiv[d] = [jp |-> w.ref, fil |-> w.dok[i].fil])'
  <2>1. PICK i \in 2..Len(foresporsel[dokRad[d].av].dok) :
           /\ foresporsel[dokRad[d].av].dok[i].ref = d
           /\ arkiv'[d] = [jp |-> foresporsel[dokRad[d].av].ref,
                           fil |-> foresporsel[dokRad[d].av].dok[i].fil]
    BY <1>2, <1>4, <1>7, <1>10 DEF ArkivertErSendt
  <2> QED
    BY <2>1, <1>1
<1>11. ArkivertErSendt'
  BY <1>8, <1>9, <1>10 DEF ArkivertErSendt
<1>12. DOMAIN arkiv' = Saker \cup Journalposter \cup Dokumenter
  BY <1>1
<1> QED
  BY <1>3, <1>11, <1>12, ArkivBevarer

\* A main document is rendered: its row stays that of its request.
LEMMA RendringBevarer ==
    ASSUME Trygg, NEW d \in Dokumenter, RendrerDokument(d)
    PROVE  Trygg'
<1>1. /\ foresporsel \in Foresporsler /\ dokRad[d] # Ingen
      /\ dokRad[d].tilstand = "avventer_rendring"
      /\ UNCHANGED <<foresporsel, steg, melding, type, emne, kontekst, sakRad, jpRad, arkiv>>
  BY DEF RendrerDokument, Trygg, Typet, flyt
<1>2. PICK k \in Kommandoer :
         /\ steg[k] = "dekomponert" /\ Post(k)
         /\ \E i \in 1..Len(foresporsel[k].dok) :
               /\ foresporsel[k].dok[i].ref = d
               /\ \/ dokRad[d] = Planlagt(k, i)
                  \/ dokRad[d] = Rendret(k, i) /\ foresporsel[k].dok[i].form = "mal"
  BY <1>1 DEF Trygg, Rader, DokRader
<1>3. PICK i \in 1..Len(foresporsel[k].dok) :
         /\ foresporsel[k].dok[i].ref = d
         /\ \/ dokRad[d] = Planlagt(k, i)
            \/ dokRad[d] = Rendret(k, i) /\ foresporsel[k].dok[i].form = "mal"
  BY <1>2
<1>4. /\ foresporsel[k].dok[i].form = "mal"
      /\ dokRad[d].rekkefolge = i - 1 /\ dokRad[d].jp = foresporsel[k].ref /\ dokRad[d].av = k
  BY <1>1, <1>3, FilenStemmer
<1>5. Rendret(k, i).tilstand = "klar"
  BY DokFelter DEF Rendret
<1>6. dokRad[d] = Planlagt(k, i)
  BY <1>1, <1>3, <1>5
<1>7. /\ dokRad'[d] = [dokRad[d] EXCEPT !.tilstand = "klar", !.rendret = <<"pdf", d>>]
      /\ \A e \in Dokumenter : e # d => dokRad'[e] = dokRad[e]
      /\ DOMAIN dokRad' = Dokumenter
  BY DEF RendrerDokument, Trygg, Typet
<1>8. dokRad'[d] = Rendret(k, i)
  <2> DEFINE pdf == <<"pdf", d>>
  <2>1. Rendret(k, i) = Dokrad(k, i, "klar", pdf)
    BY <1>3 DEF Rendret
  <2> HIDE DEF pdf
  <2>2. [Planlagt(k, i) EXCEPT !.tilstand = "klar"] = Dokrad(k, i, "klar", Ingen)
    BY DEF Planlagt, Dokrad
  <2>3. [Dokrad(k, i, "klar", Ingen) EXCEPT !.rendret = pdf] = Rendret(k, i)
    BY <2>1 DEF Dokrad
  <2>4. dokRad'[d] = [dokRad[d] EXCEPT !.tilstand = "klar", !.rendret = pdf]
    BY <1>7 DEF pdf
  <2>5. dokRad'[d] = [[dokRad[d] EXCEPT !.tilstand = "klar"] EXCEPT !.rendret = pdf]
    BY <2>4
  <2> QED
    BY <2>2, <2>3, <2>5, <1>6
<1>9. /\ dokRad'[d] # Ingen /\ dokRad'[d].av = k
      /\ dokRad'[d].jp = dokRad[d].jp /\ dokRad'[d].rekkefolge = dokRad[d].rekkefolge
  <2>1. Rendret(k, i) # Ingen
    BY <1>1, EnRad
  <2>2. /\ Rendret(k, i).av = k /\ Rendret(k, i).jp = foresporsel[k].ref
        /\ Rendret(k, i).rekkefolge = i - 1
    BY DokFelter DEF Rendret
  <2> QED
    BY <2>1, <2>2, <1>4, <1>8
<1>10. Typet'
  BY <1>1, <1>7 DEF Trygg, Typet
<1>11. Meldinger'
  BY <1>1, MeldingeneStaar DEF Trygg
<1>12. /\ Oenskelige' = Oenskelige /\ \A l, o : Sakrad(l, o)' = Sakrad(l, o)
       /\ \A l : JournalpostPlan(l, App(l))' = JournalpostPlan(l, App(l)) /\ Post(l)' = Post(l)
       /\ \A l, n : Planlagt(l, n)' = Planlagt(l, n) /\ Rendret(l, n)' = Rendret(l, n)
  BY <1>1 DEF Oenskelige, Sakrad, App, JournalpostPlan, Partsliste, Planlagt, Rendret, Dokrad, Post
<1>13. SakRader' /\ JpRader'
  BY <1>1, <1>12 DEF Trygg, Rader, SakRader, JpRader
<1>14. DokRader'
  <2> SUFFICES ASSUME NEW e \in Dokumenter, dokRad'[e] # Ingen
               PROVE  \E l \in Kommandoer : \E n \in 1..Len(foresporsel[l].dok) :
                         /\ steg[l] = "dekomponert" /\ Post(l) /\ foresporsel[l].dok[n].ref = e
                         /\ \/ dokRad'[e] = Planlagt(l, n)
                            \/ dokRad'[e] = Rendret(l, n) /\ foresporsel[l].dok[n].form = "mal"
    BY <1>1, <1>12 DEF DokRader
  <2>1. CASE e = d
    BY <2>1, <1>2, <1>3, <1>4, <1>8
  <2>2. CASE e # d
    BY <2>2, <1>7 DEF Trygg, Rader, DokRader
  <2> QED
    BY <2>1, <2>2
<1>15. Fullstendig'
  <2> SUFFICES ASSUME NEW l \in Kommandoer, steg[l] = "dekomponert"
               PROVE  /\ sakRad[foresporsel[l].sak] # Ingen
                      /\ Post(l) => jpRad[foresporsel[l].ref] # Ingen
                      /\ \A n \in 1..Len(foresporsel[l].dok) :
                             dokRad'[foresporsel[l].dok[n].ref] # Ingen
    BY <1>1 DEF Fullstendig, Post
  <2>1. \A n \in 1..Len(foresporsel[l].dok) : foresporsel[l].dok[n].ref \in Dokumenter
    BY <1>1, Foresporselen
  <2> QED
    BY <2>1, <1>7, <1>9 DEF Trygg, Rader, Fullstendig
<1>16. Hoveddokument'
  <2> SUFFICES ASSUME NEW e \in Dokumenter, dokRad'[e] # Ingen, dokRad'[e].rekkefolge = 0,
                      SammeHoved(dokRad'[e].jp)
               PROVE  jpRad[dokRad'[e].jp] # Ingen /\ jpRad[dokRad'[e].jp].av = dokRad'[e].av
    BY <1>1 DEF Hoveddokument, SammeHoved
  <2>1. /\ dokRad[e] # Ingen /\ dokRad[e].rekkefolge = 0 /\ dokRad'[e].jp = dokRad[e].jp
        /\ dokRad'[e].av = dokRad[e].av
    BY <1>1, <1>4, <1>7, <1>9
  <2> QED
    BY <2>1 DEF Trygg, Rader, Hoveddokument
<1>17. RaderStaar
  BY <1>1, <1>4, <1>7, <1>9 DEF RaderStaar
<1> QED
  BY <1>1, <1>10, <1>11, <1>13, <1>14, <1>15, <1>16, <1>17, ArkivetStaar DEF Trygg, Rader

LEMMA TryggNeste == Trygg /\ [Next]_vars => Trygg'
<1> SUFFICES ASSUME Trygg, [Next]_vars PROVE Trygg'
  OBVIOUS
<1> USE DEF Trygg
<1>1. CASE \E k \in Kommandoer : Motta(k) \/ Valider(k)
  BY <1>1, MeldingBevarer
<1>2. ASSUME NEW k \in Kommandoer, Dekomponer(k)
      PROVE  Trygg'
  <2>1. TilApplikasjon(melding[k]) = App(k)
    <3>1. melding[k] = TilWire(App(k)) /\ foresporsel \in Foresporsler
      BY <1>2 DEF Meldinger, Typet, Dekomponer
    <3> QED
      BY <3>1, FremOgTilbake
  <2>2. CASE steg[k] = "dekomponert" \/ Kolliderer(k, App(k))
    <3>1. UNCHANGED <<foresporsel, flyt, rader>> /\ arkiv' = arkiv
      BY <2>1, <2>2, <1>2 DEF Dekomponer, flyt
    <3>2. RaderStaar
      BY <3>1 DEF RaderStaar, rader
    <3>3. HarRad' /\ ArkivertErSendt'
      BY <3>1, <3>2, ArkivetStaar
    <3> QED
      BY <3>1, <3>3, ArkivBevarer DEF Typet
  <2>3. CASE ~(steg[k] = "dekomponert" \/ Kolliderer(k, App(k)))
    <3>1. Skrevet(k)
      BY <2>1, <2>3, <1>2 DEF Dekomponer, Skrevet
    <3> QED
      BY <3>1, PlanBevarer
  <2> QED
    BY <2>2, <2>3
<1>3. ASSUME NEW s \in Saker, OpprettSak(s)
      PROVE  Trygg'
  <2> DEFINE v == [tilgang |-> LesTilgang(sakRad[s]), ansvarlig |-> sakRad[s].ansvarlig]
             w == foresporsel[sakRad[s].av]
  <2>1. /\ sakRad[s] # Ingen /\ sakRad[s].ny /\ arkiv' = [arkiv EXCEPT ![s] = v]
        /\ UNCHANGED <<foresporsel, flyt, rader>>
    BY <1>3 DEF OpprettSak
  <2>2. w.type = "opprett_sak" /\ v = [tilgang |-> w.tilgang, ansvarlig |-> w.ansvarlig]
    BY <2>1, SakenSomSendes
  <2>3. s \notin Journalposter /\ s \notin Dokumenter
    BY MaterialiseringAntagelse
  <2> HIDE DEF v
  <2> QED
    BY <2>1, <2>2, <2>3, EttSendt
<1>4. ASSUME NEW d \in Dokumenter, RendrerDokument(d)
      PROVE  Trygg'
  BY <1>4, RendringBevarer
<1>5. ASSUME NEW j \in Journalposter, OpprettJournalpost(j)
      PROVE  Trygg'
  <2>1. PICK d \in Dokumenter :
          /\ KlartForJournalpost(j, d)
          /\ arkiv' = [arkiv EXCEPT
               ![j] = IF LesTilgang(jpRad[j]) = Avvist THEN Avvist ELSE ArkivJournalpost(j, d)]
          /\ UNCHANGED <<foresporsel, flyt, rader>>
    BY <1>5 DEF OpprettJournalpost
  <2> DEFINE v == IF LesTilgang(jpRad[j]) = Avvist THEN Avvist ELSE ArkivJournalpost(j, d)
  <2>2. v # Avvist /\ SammeHoved(j) => v = Oensket(foresporsel[jpRad[j].av])
    BY <2>1, PostenSomSendes
  <2>3. jpRad[j] # Ingen /\ j \notin Saker /\ j \notin Dokumenter
    BY <2>1, MaterialiseringAntagelse DEF KlartForJournalpost
  <2>4. arkiv' = [arkiv EXCEPT ![j] = v]
    BY <2>1
  <2> HIDE DEF v
  <2> QED
    BY <2>1, <2>2, <2>3, <2>4, EttSendt
<1>6. ASSUME NEW d \in Dokumenter, LeggTilVedlegg(d)
      PROVE  Trygg'
  <2> DEFINE v == IF dokRad[d].mal # Ingen THEN Avvist
                  ELSE [jp |-> dokRad[d].jp, fil |-> Arkivfil(dokRad[d])]
             w == foresporsel[dokRad[d].av]
             i == dokRad[d].rekkefolge + 1
  <2>1. /\ dokRad[d] # Ingen /\ dokRad[d].rekkefolge > 0 /\ arkiv' = [arkiv EXCEPT ![d] = v]
        /\ UNCHANGED <<foresporsel, flyt, rader>>
    BY <1>6 DEF LeggTilVedlegg
  <2>2. /\ i \in 1..Len(w.dok) /\ w.dok[i].ref = d /\ dokRad[d].jp = w.ref
        /\ dokRad[d].mal = Ingen => dokRad[d].dokument = w.dok[i].fil
    BY <2>1, DokumentetsForesporsel
  <2>3. v # Avvist => v = [jp |-> w.ref, fil |-> w.dok[i].fil]
    BY <2>2 DEF Arkivfil
  <2>4. i \in 2..Len(w.dok)
    <3>1. foresporsel \in Foresporsler /\ dokRad[d].av \in Kommandoer
      BY <2>1, DokumentetsForesporsel DEF Typet
    <3>2. PICK n \in Nat : n = Len(w.dok)
      BY <3>1, Foresporselen
    <3>3. PICK m \in 1..n : m = i
      BY <2>2, <3>2
    <3>4. dokRad[d].rekkefolge \in Int
      <4>1. PICK k \in Kommandoer : \E a \in 1..Len(foresporsel[k].dok) :
              \/ dokRad[d] = Planlagt(k, a)
              \/ dokRad[d] = Rendret(k, a)
        BY <2>1 DEF Rader, DokRader
      <4>2. PICK a \in 1..Len(foresporsel[k].dok) : \/ dokRad[d] = Planlagt(k, a)
                                                   \/ dokRad[d] = Rendret(k, a)
        BY <4>1
      <4>3. dokRad[d].rekkefolge = a - 1
        BY <4>2, DokFelter DEF Planlagt, Rendret
      <4> QED
        BY <4>3
    <3> QED
      BY <2>1, <3>2, <3>3, <3>4
  <2>5. d \notin Saker /\ d \notin Journalposter
    BY MaterialiseringAntagelse
  <2> HIDE DEF v
  <2> QED
    BY <2>1, <2>2, <2>3, <2>4, <2>5, EttSendt
<1>7. CASE UNCHANGED vars
  <2>1. UNCHANGED <<foresporsel, flyt, rader>> /\ arkiv' = arkiv
    BY <1>7 DEF vars
  <2>2. RaderStaar
    BY <2>1 DEF RaderStaar, rader
  <2>3. HarRad' /\ ArkivertErSendt'
    BY <2>1, <2>2, ArkivetStaar
  <2> QED
    BY <2>1, <2>3, ArkivBevarer DEF Typet
<1> QED
  BY <1>1, <1>2, <1>3, <1>4, <1>5, <1>6, <1>7 DEF Next

THEOREM TryggHolder == Spec => []Trygg
<1> QED
  BY TryggInit, TryggNeste, PTL DEF Spec

\* What the archive gets of a case, a record and an attachment is what the
\* request said that their rows came from (wire_mapper.rs,
\* dekomponer_command.rs, postgres_fakta_repository.rs,
\* sikri_arkiv_gateway.rs).
THEOREM ArkivertErSendtHolder == Spec => []ArkivertErSendt
<1>1. Trygg => ArkivertErSendt
  BY DEF Trygg
<1> QED
  BY <1>1, TryggHolder, PTL

----------------------------------------------------------------------------
(* The wished responsible                                                  *)

\* The wished responsible of a case changes when a command that names one is
\* decomposed for the first time, and not when its message comes again
\* (lagre_dekomponering and skriv_sak in postgres_dekomponering.rs).
THEOREM OensketEndresEnGangHolder == Spec => OensketEndresEnGang
<1> DEFINE A == \A s \in Saker :
                   sakRad[s] # Ingen /\ sakRad'[s].oensket # sakRad[s].oensket =>
                      \E k \in Kommandoer :
                         /\ steg[k] = "klar" /\ steg'[k] = "dekomponert"
                         /\ foresporsel[k].ansvarlig = sakRad'[s].oensket
<1>1. Trygg /\ [Next]_vars => [A]_vars
  <2> SUFFICES ASSUME Trygg, Next
               PROVE  A
    OBVIOUS
  <2>1. CASE sakRad' = sakRad
    BY <2>1
  <2>2. CASE sakRad' # sakRad
    <3>1. PICK k \in Kommandoer : Dekomponer(k)
      BY <2>2 DEF Next, Motta, Valider, OpprettSak, RendrerDokument, OpprettJournalpost,
                  LeggTilVedlegg, rader
    <3>2. TilApplikasjon(melding[k]) = App(k)
      <4>1. melding[k] = TilWire(App(k)) /\ foresporsel \in Foresporsler
        BY <3>1 DEF Trygg, Meldinger, Typet, Dekomponer
      <4> QED
        BY <4>1, FremOgTilbake
    <3>3. Skrevet(k)
      BY <2>2, <3>1, <3>2 DEF Dekomponer, Skrevet, rader
    <3>4. steg[k] = "klar" /\ steg'[k] = "dekomponert"
      BY <3>3 DEF Skrevet, Trygg, Typet
    <3> QED
      BY <3>3, <3>4, SakenSkrives
  <2> QED
    BY <2>1, <2>2
<1> QED
  BY <1>1, TryggHolder, PTL DEF OensketEndresEnGang, Spec

----------------------------------------------------------------------------
(* One name                                                                *)

\* A set of natural numbers below a bound has a greatest member.
LEMMA Stoerste ==
    ASSUME NEW n \in Nat, NEW S \in SUBSET (1..n), S # {}
    PROVE  \E m \in S : \A x \in S : x <= m
<1> DEFINE T == {n - x : x \in S}
<1>1. T \in SUBSET Nat /\ T # {}
  <2>1. \A x \in S : x \in 1..n /\ n - x \in Nat
    OBVIOUS
  <2> QED
    BY <2>1
<1>2. PICK t \in T : \A y \in T : t <= y
  BY <1>1, Minste
<1>3. PICK m \in S : t = n - m
  OBVIOUS
<1>4. \A x \in S : n - x \in T
  OBVIOUS
<1>5. \A x \in S : n - m <= n - x
  BY <1>2, <1>3, <1>4
<1> QED
  BY <1>5

\* The only increasing numbering of 1..n is itself.
LEMMA Voksende ==
    ASSUME NEW n \in Nat, NEW h \in [1..n -> 1..n],
           \A i, j \in 1..n : i < j => h[i] < h[j]
    PROVE  \A i \in 1..n : h[i] = i
<1>1. \A i \in 1..n : h[i] >= i
  <2> DEFINE S == {i \in 1..n : h[i] < i}
  <2> SUFFICES ASSUME S # {} PROVE FALSE
    OBVIOUS
  <2>1. PICK m \in S : \A x \in S : m <= x
    <3>1. S \in SUBSET Nat
      OBVIOUS
    <3> QED
      BY <3>1, Minste
  <2>2. m > 1
    OBVIOUS
  <2>3. m - 1 \in 1..n /\ m - 1 \notin S
    BY <2>1, <2>2
  <2>4. h[m - 1] >= m - 1 /\ h[m - 1] < h[m]
    BY <2>3
  <2> QED
    BY <2>3, <2>4
<1>2. \A i \in 1..n : h[i] <= i
  <2> DEFINE S == {i \in 1..n : h[i] > i}
  <2> SUFFICES ASSUME S # {} PROVE FALSE
    OBVIOUS
  <2>1. PICK m \in S : \A x \in S : x <= m
    BY Stoerste
  <2>2. m < n
    OBVIOUS
  <2>3. m + 1 \in 1..n /\ m + 1 \notin S
    BY <2>1, <2>2
  <2>4. h[m + 1] <= m + 1 /\ h[m] < h[m + 1]
    BY <2>3
  <2> QED
    BY <2>3, <2>4
<1> QED
  BY <1>1, <1>2

\* The requests of two commands share no reference.
LEMMA EgneNavn ==
    ASSUME foresporsel \in Foresporsler, UliktNavngitt,
           NEW k \in Kommandoer, NEW l \in Kommandoer
    PROVE  /\ Post(k) /\ Post(l) /\ foresporsel[k].ref = foresporsel[l].ref => k = l
           /\ \A i \in 1..Len(foresporsel[k].dok) : \A j \in 1..Len(foresporsel[l].dok) :
                 foresporsel[k].dok[i].ref = foresporsel[l].dok[j].ref => k = l /\ i = j
<1>1. k # l => Navn(foresporsel[k]) \cap Navn(foresporsel[l]) \subseteq {Ingen}
  BY DEF UliktNavngitt
<1>2. k = l => \A i, j \in DOMAIN foresporsel[k].dok :
                  foresporsel[k].dok[i].ref = foresporsel[k].dok[j].ref => i = j
  BY DEF UliktNavngitt
<1>3. /\ Post(k) => foresporsel[k].ref # Ingen
      /\ \A i \in 1..Len(foresporsel[k].dok) : foresporsel[k].dok[i].ref # Ingen
      /\ DOMAIN foresporsel[k].dok = 1..Len(foresporsel[k].dok)
  BY Foresporselen, MaterialiseringAntagelse
<1>4. \A m \in {k, l} : /\ foresporsel[m].ref \in Navn(foresporsel[m])
                        /\ \A i \in 1..Len(foresporsel[m].dok) :
                              foresporsel[m].dok[i].ref \in Navn(foresporsel[m])
  BY DEF Navn
<1> QED
  BY <1>1, <1>2, <1>3, <1>4

\* With references of their own, a command's rows are those it names.
LEMMA EgneRader ==
    ASSUME Trygg, UliktNavngitt, NEW k \in Kommandoer, steg[k] = "dekomponert"
    PROVE  LET w == foresporsel[k] IN
           /\ \A j \in Journalposter : jpRad[j] # Ingen /\ jpRad[j].av = k <=> Post(k) /\ j = w.ref
           /\ DokumenterAv(k) = {w.dok[i].ref : i \in 1..Len(w.dok)}
           /\ \A i \in 1..Len(w.dok) : dokRad[w.dok[i].ref].rekkefolge = i - 1
<1> DEFINE w == foresporsel[k]
<1>1. foresporsel \in Foresporsler
  BY DEF Trygg, Typet
<1>2. ASSUME NEW j \in Journalposter, jpRad[j] # Ingen
      PROVE  jpRad[j].av \in Kommandoer /\ Post(jpRad[j].av) /\ foresporsel[jpRad[j].av].ref = j
  <2>1. PICK l \in Kommandoer : /\ Post(l) /\ foresporsel[l].ref = j
                                /\ jpRad[j] = JournalpostPlan(l, App(l))
    BY <1>2 DEF Trygg, Rader, JpRader
  <2>2. jpRad[j].av = l
    BY <2>1 DEF JournalpostPlan
  <2> QED
    BY <2>1, <2>2
<1>3. ASSUME NEW j \in Journalposter
      PROVE  jpRad[j] # Ingen /\ jpRad[j].av = k <=> Post(k) /\ j = w.ref
  <2>1. ASSUME Post(k), j = w.ref
        PROVE  jpRad[j] # Ingen /\ jpRad[j].av = k
    <3>1. jpRad[j] # Ingen
      BY <2>1 DEF Trygg, Rader, Fullstendig
    <3> QED
      BY <3>1, <2>1, <1>1, <1>2, EgneNavn
  <2> QED
    BY <2>1, <1>2
<1>4. \A i \in 1..Len(w.dok) : w.dok[i].ref \in Dokumenter
  BY <1>1, Foresporselen
<1>5. ASSUME NEW i \in 1..Len(w.dok)
      PROVE  /\ dokRad[w.dok[i].ref] # Ingen /\ dokRad[w.dok[i].ref].av = k
             /\ dokRad[w.dok[i].ref].rekkefolge = i - 1
  <2> DEFINE d == w.dok[i].ref
  <2>1. dokRad[d] # Ingen
    BY DEF Trygg, Rader, Fullstendig
  <2>2. PICK l \in Kommandoer :
           \E n \in 1..Len(foresporsel[l].dok) :
              /\ foresporsel[l].dok[n].ref = d
              /\ dokRad[d] = Planlagt(l, n) \/ dokRad[d] = Rendret(l, n)
    BY <1>4, <2>1 DEF Trygg, Rader, DokRader
  <2>3. PICK n \in 1..Len(foresporsel[l].dok) :
              /\ foresporsel[l].dok[n].ref = d
              /\ dokRad[d] = Planlagt(l, n) \/ dokRad[d] = Rendret(l, n)
    BY <2>2
  <2>4. l = k /\ n = i
    BY <2>3, <1>1, EgneNavn
  <2>5. dokRad[d].av = l /\ dokRad[d].rekkefolge = n - 1
    BY <2>3, DokFelter DEF Planlagt, Rendret
  <2> QED
    BY <2>1, <2>4, <2>5
<1>6. ASSUME NEW d \in Dokumenter, dokRad[d] # Ingen, dokRad[d].av = k
      PROVE  \E i \in 1..Len(w.dok) : w.dok[i].ref = d
  BY <1>6, DokumentetsForesporsel
<1>7. DokumenterAv(k) = {w.dok[i].ref : i \in 1..Len(w.dok)}
  BY <1>4, <1>5, <1>6 DEF DokumenterAv
<1> QED
  BY <1>3, <1>5, <1>7

\* Read back in the order they were numbered, the documents are those of the
\* request, in its order.
LEMMA RekkefolgenStemmer ==
    ASSUME Trygg, UliktNavngitt, NEW k \in Kommandoer, steg[k] = "dekomponert"
    PROVE  Ordnet(DokumenterAv(k))
             = [i \in 1..Len(foresporsel[k].dok) |-> foresporsel[k].dok[i].ref]
<1> DEFINE n == Len(foresporsel[k].dok)
           R == [i \in 1..n |-> foresporsel[k].dok[i].ref]
           D == DokumenterAv(k)
<1>1. foresporsel \in Foresporsler /\ n \in Nat
  BY Foresporselen DEF Trygg, Typet
<1>2. D = {R[i] : i \in 1..n} /\ \A i \in 1..n : dokRad[R[i]].rekkefolge = i - 1
  <2>1. \A i \in 1..n : R[i] = foresporsel[k].dok[i].ref
    OBVIOUS
  <2>2. D = {foresporsel[k].dok[i].ref : i \in 1..n}
    BY EgneRader
  <2>3. \A i \in 1..n : dokRad[foresporsel[k].dok[i].ref].rekkefolge = i - 1
    BY EgneRader
  <2> HIDE DEF R, D, n
  <2> QED
    BY <2>1, <2>2, <2>3
<1>3. \A i, j \in 1..n : R[i] = R[j] => i = j
  BY <1>1, EgneNavn
<1>4. R \in [1..n -> D]
  BY <1>2
<1> HIDE DEF R, D, n
<1>5. Cardinality(D) = n
  <2>1. R \in Bijection(1..n, D)
    BY <1>2, <1>3, <1>4 DEF Bijection, Injection, Surjection, IsInjective
  <2>2. IsFiniteSet(1..n) /\ Cardinality(1..n) = n
    BY <1>1, FS_Interval
  <2> QED
    BY <2>1, <2>2, FS_Bijection DEF ExistsBijection
<1> DEFINE Stigende(f) == \A i, j \in DOMAIN f : i < j => dokRad[f[i]].rekkefolge < dokRad[f[j]].rekkefolge
<1>6. Stigende(R)
  BY <1>2, <1>4, <1>1
<1>7. ASSUME NEW f \in [1..n -> D], Stigende(f)
      PROVE  f = R
  <2>1. \A i \in 1..n : \E m \in 1..n : f[i] = R[m]
    BY <1>2
  <2> DEFINE h == [i \in 1..n |-> CHOOSE m \in 1..n : f[i] = R[m]]
  <2>2. h \in [1..n -> 1..n] /\ \A i \in 1..n : f[i] = R[h[i]]
    BY <2>1
  <2>3. \A i \in 1..n : dokRad[f[i]].rekkefolge = h[i] - 1
    BY <1>2, <2>2
  <2> HIDE DEF h
  <2>4. \A i, j \in 1..n : i < j => h[i] < h[j]
    <3>1. \A i, j \in 1..n : i < j => dokRad[f[i]].rekkefolge < dokRad[f[j]].rekkefolge
      BY <1>7
    <3>2. \A i \in 1..n : h[i] \in Nat
      BY <1>1, <2>2
    <3> HIDE DEF Stigende
    <3> QED
      BY <2>3, <3>1, <3>2
  <2>5. \A i \in 1..n : h[i] = i
    BY <1>1, <2>2, <2>4, Voksende
  <2>6. \A i \in 1..n : f[i] = R[i]
    BY <2>2, <2>5
  <2>7. f = [i \in 1..n |-> f[i]] /\ R = [i \in 1..n |-> R[i]]
    BY <1>4, <1>7
  <2> QED
    BY <2>6, <2>7, Zenon
<1>8. \E f \in [1..n -> D] : Stigende(f)
  BY <1>4, <1>6
<1>9. Ordnet(D) = CHOOSE f \in [1..n -> D] : Stigende(f)
  BY <1>5 DEF Ordnet
<1>10. Ordnet(D) \in [1..n -> D] /\ Stigende(Ordnet(D))
  BY <1>8, <1>9
<1>11. Ordnet(D) = R
  BY <1>7, <1>10
<1> QED
  BY <1>11 DEF R, D, n

\* The context put together from the tables, once a command whose references
\* are its own has its rows.
LEMMA KontekstenStemmer == Trygg => KontekstStemmer
<1> SUFFICES ASSUME Trygg, NEW k \in Kommandoer, UliktNavngitt, steg[k] = "dekomponert"
             PROVE  LET tidlig == kontekst[k]
                        sen == SenKontekst(k)
                    IN /\ tidlig.sak = sen.sak /\ tidlig.journalpost = sen.journalpost
                       /\ tidlig.dok = sen.dok
                       /\ tidlig.saksnummer # Ingen => sen.saksnummer = tidlig.saksnummer
  BY DEF KontekstStemmer
<1> DEFINE w == foresporsel[k]
           egne == {j \in Journalposter : jpRad[j] # Ingen /\ jpRad[j].av = k}
<1>1. foresporsel \in Foresporsler
  BY DEF Trygg, Typet
<1>2. /\ kontekst[k].sak = IF w.nummer THEN Ingen ELSE w.sak
      /\ kontekst[k].saksnummer = IF w.nummer THEN w.sak ELSE Ingen
      /\ kontekst[k].journalpost = IF Post(k) THEN w.ref ELSE Ingen
      /\ kontekst[k].dok = [i \in 1..Len(w.dok) |-> w.dok[i].ref]
  <2>1. kontekst[k] = TidligKontekst(App(k))
    BY DEF Trygg, Meldinger
  <2>2. DOMAIN w.dok = 1..Len(w.dok)
    BY <1>1, Foresporselen
  <2> QED
    BY <2>1, <2>2, Feltene DEF TidligKontekst, Post
<1>3. sakRad[w.sak].nummer = w.nummer
  <2>1. sakRad[w.sak] # Ingen /\ w.sak \in Saker
    BY <1>1, Foresporselen DEF Trygg, Rader, Fullstendig
  <2>2. PICK l \in Kommandoer, o \in Oenskelige :
           foresporsel[l].sak = w.sak /\ sakRad[w.sak] = Sakrad(l, o)
    BY <2>1 DEF Trygg, Rader, SakRader
  <2>3. sakRad[w.sak].nummer = foresporsel[l].nummer
    BY <2>2, SakFelter
  <2> QED
    BY <2>2, <2>3, <1>1, MaterialiseringAntagelse
<1>4. /\ SenKontekst(k).sak = IF w.nummer THEN Ingen ELSE w.sak
      /\ w.nummer => SenKontekst(k).saksnummer = w.sak
      /\ SenKontekst(k).journalpost = IF egne = {} THEN Ingen ELSE CHOOSE j \in egne : TRUE
      /\ SenKontekst(k).dok = Ordnet(DokumenterAv(k))
  BY <1>3 DEF SenKontekst
<1>5. SenKontekst(k).journalpost = IF Post(k) THEN w.ref ELSE Ingen
  <2>1. egne = IF Post(k) THEN {w.ref} ELSE {}
    BY <1>1, EgneRader, Foresporselen
  <2> HIDE DEF egne
  <2> QED
    BY <2>1, <1>4
<1>6. SenKontekst(k).dok = [i \in 1..Len(w.dok) |-> w.dok[i].ref]
  BY <1>4, RekkefolgenStemmer
<1> QED
  BY <1>2, <1>4, <1>5, <1>6

\* Types, and what a row says of a document's bytes.
LEMMA TypeneStemmer == Trygg => TypeOK /\ OriginalFinnes
<1> SUFFICES ASSUME Trygg PROVE TypeOK /\ OriginalFinnes
  OBVIOUS
<1>1. foresporsel \in Foresporsler /\ DOMAIN foresporsel = Kommandoer
  BY MaterialiseringAntagelse DEF Trygg, Typet
<1>2. \A k \in Kommandoer : /\ steg[k] = "sendt" <=> type[k] = Ingen
                            /\ type[k] # Ingen => emne[k] = TypeToken(type[k])
  BY <1>1, SammeEmne DEF Trygg, Meldinger
<1>3. ASSUME NEW d \in Dokumenter, dokRad[d] # Ingen
      PROVE  /\ (dokRad[d].dokument = Ingen) # (dokRad[d].mal = Ingen)
             /\ dokRad[d].rendret # Ingen => dokRad[d].mal # Ingen
  <2>1. PICK k \in Kommandoer :
           \E i \in 1..Len(foresporsel[k].dok) :
              \/ dokRad[d] = Planlagt(k, i)
              \/ dokRad[d] = Rendret(k, i) /\ foresporsel[k].dok[i].form = "mal"
    BY <1>3 DEF Trygg, Rader, DokRader
  <2>2. PICK i \in 1..Len(foresporsel[k].dok) :
              \/ dokRad[d] = Planlagt(k, i)
              \/ dokRad[d] = Rendret(k, i) /\ foresporsel[k].dok[i].form = "mal"
    BY <2>1
  <2> QED
    BY <2>2, <1>1, FilenStemmer
<1>4. TypeOK
  BY <1>1, <1>2, <1>3 DEF TypeOK, Trygg, Typet
<1> QED
  BY <1>2, <1>4 DEF OriginalFinnes

\* What is written under one name is found under the same: an operator's retry
\* finds the original message (wire_routing_token.rs), and late events name what
\* the first event of a command named (hent_command_metadata in
\* postgres_operasjon_repository.rs), in the order of the request.
THEOREM EttNavnHolder == Spec => []EttNavn
<1>1. Trygg => EttNavn
  BY KontekstenStemmer, TypeneStemmer DEF EttNavn
<1> QED
  BY <1>1, TryggHolder, PTL
=============================================================================
