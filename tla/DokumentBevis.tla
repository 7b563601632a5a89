--------------------------- MODULE DokumentBevis ---------------------------
(***************************************************************************)
(* The document flow, for every set of sessions and documents and every    *)
(* number of failures: an "ok" stands, an upload repeated never meets a    *)
(* conflict with itself, and the archive gets what was referred to.        *)
(*                                                                         *)
(* Sessions look and write in two calls, so that any of them may write     *)
(* over what another has just stored; `delt` collects the ids where that   *)
(* happened.  Elsewhere what is stored stays (LagtStaar), and that is what *)
(* lets the executor read the store again at every attempt.                *)
(***************************************************************************)
EXTENDS Dokumentflyt, TLAPS

LEMMA Ulike ==
    /\ \A o \in Opplastinger : Innhold[o] # Ingen /\ Id[o] \in Nokler
    /\ \A o \in Opplastinger, d \in Dokumenter : Id[o] # Rendret(d)
    /\ \A d \in Dokumenter : Ref[d] # Rendret(d) /\ Ref[d] \in Nokler /\ Rendret(d) \in Nokler
    /\ \A d, e \in Dokumenter : Rendret(d) = Rendret(e) => d = e
    /\ \A d, e \in Dokumenter : Ref[d] # Rendret(e)
    /\ \A d \in Dokumenter : \E o \in Opplastinger : Ref[d] = Id[o]
<1>1. \A d, e \in Dokumenter : Rendret(d) = Rendret(e) => d = e
  BY DEF Rendret
<1>2. \A o \in Opplastinger : Innhold[o] # Ingen /\ \A d \in Dokumenter : Id[o] # Rendret(d)
  BY DokumentflytAntagelse
<1>3. \A d \in Dokumenter : \E o \in Opplastinger : Ref[d] = Id[o]
  BY DokumentflytAntagelse
<1>4. /\ \A o \in Opplastinger : Id[o] \in Nokler
      /\ \A d \in Dokumenter : Rendret(d) \in Nokler
  BY DEF Nokler
<1> QED
  BY <1>1, <1>2, <1>3, <1>4

----------------------------------------------------------------------------
(* The invariant *)

Grunn == TypeOK /\ DOMAIN mottatt = Dokumenter /\ DOMAIN arkiv = Dokumenter

\* What a session knows of its id, unless another overlapped it.
Okter == \A o \in Opplastinger :
    /\ opplasting[o] = "skriver" => lager[Id[o]] \in {Ingen, Innhold[o]} \/ Id[o] \in delt
    /\ opplasting[o] \in {"skrevet", "ok"} => lager[Id[o]] = Innhold[o] \/ Id[o] \in delt

\* What is under an id was uploaded under it; a conflict is with another's.
Opphav == \A o \in Opplastinger :
    /\ \/ lager[Id[o]] = Ingen
       \/ \E p \in Opplastinger : Id[p] = Id[o] /\ lager[Id[o]] = Innhold[p]
    /\ opplasting[o] = "skrevet" => lager[Id[o]] # Ingen
    /\ opplasting[o] = "konflikt" =>
           \E p \in Opplastinger : Id[p] = Id[o] /\ Innhold[p] # Innhold[o]

\* What an accepted document names is what it named when it came.
Navngitt == \A d \in Dokumenter :
    /\ dok[d] \in {"avventer", "klar", "arkivert"} /\ Ref[d] \notin delt =>
           mottatt[d] = lager[Ref[d]] /\ mottatt[d] # Ingen
    /\ dok[d] = "avventer" => Malform(d)

\* x is the PDF of what d named, and its fields and tokens match.
PdfAv(d, x, navngitt, unntatt) ==
    Ref[d] \in unntatt \/ /\ x.slag = "pdf" /\ x.av = navngitt
                          /\ Tokens(navngitt) = Navn(Felter[d])

\* At hand, stored and sent.
Underveis ==
    /\ steg # "ledig" => dok[hand] = "avventer" /\ PdfAv(hand, mal, mottatt[hand], delt)
    /\ steg = "lagret" => lager[Rendret(hand)] = mal
    /\ \A d \in Dokumenter : Malform(d) =>
           /\ dok[d] = "klar" => PdfAv(d, lager[Rendret(d)], mottatt[d], delt)
           /\ dok[d] = "arkivert" => PdfAv(d, arkiv[d], mottatt[d], delt)
    /\ \A d \in Dokumenter : ~Malform(d) /\ dok[d] = "arkivert" /\ Ref[d] \notin delt =>
           arkiv[d] = mottatt[d]

Opplastet == Grunn /\ Okter /\ Opphav
Invariant == Opplastet /\ Navngitt /\ Underveis

LEMMA DokInit == Init => Invariant
<1> SUFFICES ASSUME Init PROVE Invariant
  OBVIOUS
<1>1. Grunn
  <2>1. DOMAIN lager = Nokler /\ DOMAIN mottatt = Dokumenter /\ DOMAIN arkiv = Dokumenter
    BY DEF Init
  <2>2. /\ opplasting \in [Opplastinger ->
               {"klar", "ok", "konflikt", "utilgjengelig"} \cup Inne]
        /\ delt \subseteq Nokler /\ saksnummer \in BOOLEAN
        /\ dok \in [Dokumenter -> {"ny", "avvist", "avventer", "klar", "arkivert",
                                   "feilet"}]
    BY DEF Init
  <2>3. /\ hand \in Dokumenter \cup {Ingen} /\ steg \in {"ledig", "utfylt", "pdf", "lagret"}
        /\ hand = Ingen /\ steg = "ledig" /\ feil \in 0..MaksFeil
    BY DokumentflytAntagelse DEF Init
  <2> QED
    BY <2>1, <2>2, <2>3 DEF Grunn, TypeOK
<1>2. Okter /\ Opphav /\ Navngitt /\ Underveis
  BY Ulike DEF Init, Okter, Opphav, Navngitt, Underveis
<1> QED
  BY <1>1, <1>2 DEF Invariant, Opplastet

----------------------------------------------------------------------------
(* What a step leaves alone *)

\* What is stored under a document's reference stays, and so does every PDF.
LagtStaar ==
    /\ delt \subseteq delt'
    /\ \A d \in Dokumenter : lager'[Rendret(d)] = lager[Rendret(d)]
    /\ \A d \in Dokumenter : lager[Ref[d]] # Ingen /\ Ref[d] \notin delt' =>
           lager'[Ref[d]] = lager[Ref[d]]

LEMMA PdfAvVokser ==
    ASSUME NEW d \in Dokumenter, NEW x, NEW c, NEW S, NEW T, S \subseteq T,
           PdfAv(d, x, c, S)
    PROVE  PdfAv(d, x, c, T)
BY DEF PdfAv

LEMMA DokumenteneStaar ==
    ASSUME Navngitt, Underveis, LagtStaar, UNCHANGED <<dok, mottatt, arkiv>>,
           TypeOK,
           UNCHANGED arbeid \/ Slipp
    PROVE  Navngitt' /\ Underveis'
<1>1. Navngitt'
  BY DEF Navngitt, LagtStaar, Malform
<1>2. \A d \in Dokumenter : \A x, c : PdfAv(d, x, c, delt) => PdfAv(d, x, c, delt')
  BY PdfAvVokser DEF LagtStaar
<1>3. Underveis'
  BY <1>2 DEF Underveis, LagtStaar, Malform, arbeid, Slipp, TypeOK
<1> QED
  BY <1>1, <1>3

\* One session stores its bytes.
LEMMA LeggesVirker ==
    ASSUME Opplastet, NEW o \in Opplastinger, opplasting[o] = "skriver", Legges(o)
    PROVE  /\ DOMAIN lager' = Nokler /\ delt \subseteq delt' /\ delt' \subseteq Nokler
           /\ lager'[Id[o]] = Innhold[o]
           /\ \A k \in Nokler : k # Id[o] => lager'[k] = lager[k]
           /\ \A p \in Opplastinger :
                  opplasting[p] \in Inne /\ Id[p] = Id[o] /\ Innhold[p] # Innhold[o]
                      => Id[p] \in delt'
           /\ LagtStaar
<1>1. Id[o] \in Nokler /\ DOMAIN lager = Nokler
  BY Ulike DEF Opplastet, Grunn, TypeOK
<1>2. lager'[Id[o]] = Innhold[o] /\ \A k \in Nokler : k # Id[o] => lager'[k] = lager[k]
  BY <1>1 DEF Legges
<1>3. DOMAIN lager' = Nokler /\ delt \subseteq delt' /\ delt' \subseteq Nokler
  BY <1>1, Ulike DEF Legges, Opplastet, Grunn, TypeOK
<1>4. \A p \in Opplastinger : opplasting[p] \in Inne /\ Id[p] = Id[o]
                              /\ Innhold[p] # Innhold[o] => Id[p] \in delt'
  BY DEF Legges
<1>5. LagtStaar
  <2>1. \A d \in Dokumenter : lager'[Rendret(d)] = lager[Rendret(d)]
    BY <1>2, Ulike
  <2>2. ASSUME NEW d \in Dokumenter, lager[Ref[d]] # Ingen, Ref[d] \notin delt'
        PROVE  lager'[Ref[d]] = lager[Ref[d]]
    <3>1. CASE Ref[d] # Id[o]
      BY <1>2, <3>1, Ulike
    <3>2. CASE Ref[d] = Id[o]
      BY <1>2, <1>3, <2>2, <3>2 DEF Opplastet, Okter
    <3> QED
      BY <3>1, <3>2
  <2> QED
    BY <1>3, <2>1, <2>2 DEF LagtStaar
<1> QED
  BY <1>2, <1>3, <1>4, <1>5

\* The write, whether its answer arrives or not.
LEMMA SkrivingSteg ==
    ASSUME Invariant, NEW o \in Opplastinger, opplasting[o] = "skriver", Legges(o),
           NEW s \in {"skrevet", "utilgjengelig"},
           opplasting' = [opplasting EXCEPT ![o] = s],
           feil' \in 0..MaksFeil,
           UNCHANGED <<saksnummer, dok, arbeid, mottatt, arkiv>>
    PROVE  Invariant'
<1> USE DEF Invariant
<1>1. /\ DOMAIN lager' = Nokler /\ delt \subseteq delt' /\ delt' \subseteq Nokler
      /\ lager'[Id[o]] = Innhold[o]
      /\ \A k \in Nokler : k # Id[o] => lager'[k] = lager[k]
      /\ \A p \in Opplastinger :
             opplasting[p] \in Inne /\ Id[p] = Id[o] /\ Innhold[p] # Innhold[o]
                 => Id[p] \in delt'
      /\ LagtStaar
  BY LeggesVirker
<1>2. Grunn'
  BY <1>1 DEF Opplastet, Grunn, TypeOK, arbeid, Inne
<1>3. \A p \in Opplastinger : opplasting'[p] = IF p = o THEN s ELSE opplasting[p]
  BY DEF Opplastet, Grunn, TypeOK
<1>4. Okter'
  <2> SUFFICES ASSUME NEW p \in Opplastinger, opplasting'[p] \in {"skriver", "skrevet", "ok"}
               PROVE  \/ Id[p] \in delt'
                      \/ lager'[Id[p]] = Innhold[p]
                      \/ opplasting'[p] = "skriver" /\ lager'[Id[p]] = Ingen
    BY DEF Okter
  <2>1. CASE p = o
    BY <1>1, <2>1
  <2>2. CASE Id[p] # Id[o]
    BY <1>1, <1>3, <2>2, Ulike DEF Opplastet, Okter
  <2>3. CASE p # o /\ Id[p] = Id[o]
    <3>1. CASE opplasting[p] \in Inne
      BY <1>1, <2>3, <3>1
    <3>2. CASE opplasting[p] = "ok"
      BY <1>1, <2>3, <3>2, Ulike DEF Opplastet, Okter
    <3> QED
      BY <1>3, <2>3, <3>1, <3>2 DEF Inne
  <2> QED
    BY <2>1, <2>2, <2>3
<1>5. Opphav'
  <2> SUFFICES ASSUME NEW p \in Opplastinger
               PROVE  /\ \/ lager'[Id[p]] = Ingen
                         \/ \E q \in Opplastinger : Id[q] = Id[p] /\ lager'[Id[p]] = Innhold[q]
                      /\ opplasting'[p] = "skrevet" => lager'[Id[p]] # Ingen
                      /\ opplasting'[p] = "konflikt" =>
                           \E q \in Opplastinger : Id[q] = Id[p] /\ Innhold[q] # Innhold[p]
    BY DEF Opphav
  <2>1. CASE Id[p] = Id[o]
    BY <1>1, <1>3, <2>1, Ulike DEF Opplastet, Opphav
  <2>2. CASE Id[p] # Id[o]
    BY <1>1, <1>3, <2>2, Ulike DEF Opplastet, Opphav
  <2> QED
    BY <2>1, <2>2
<1>6. Navngitt' /\ Underveis'
  BY <1>1, DokumenteneStaar DEF Opplastet, Grunn
<1> QED
  BY <1>2, <1>4, <1>5, <1>6 DEF Opplastet

\* The steps of a session that only look, and the stop of the process.
LEMMA OktSteg ==
    ASSUME Invariant, NEW o \in Opplastinger,
           Inspiser(o) \/ Legg(o) \/ Bekreft(o) \/ OpplastingFeiler(o)
    PROVE  Invariant'
<1> USE DEF Invariant
<1>1. CASE Inspiser(o) \/ Bekreft(o)
  <2>1. LagtStaar /\ UNCHANGED <<lager, delt, dok, mottatt, arkiv, arbeid, saksnummer, feil>>
    BY <1>1 DEF Inspiser, Bekreft, LagtStaar
  <2>2. \A p \in Opplastinger : p # o => opplasting'[p] = opplasting[p]
    BY <1>1 DEF Inspiser, Bekreft, Opplastet, Grunn, TypeOK
  <2>3. \/ opplasting'[o] = "skriver" /\ lager[Id[o]] = Ingen
        \/ opplasting'[o] = "ok" /\ lager[Id[o]] = Innhold[o]
        \/ opplasting'[o] = "konflikt" /\ lager[Id[o]] \notin {Ingen, Innhold[o]}
    BY <1>1 DEF Inspiser, Bekreft, Funn, Opplastet, Grunn, TypeOK, Opphav
  <2>4. Grunn'
    <3>1. opplasting' \in [Opplastinger ->
             {"klar", "ok", "konflikt", "utilgjengelig"} \cup Inne]
      BY <1>1, <2>3 DEF Inspiser, Bekreft, Opplastet, Grunn, TypeOK, Inne
    <3> QED
      BY <2>1, <3>1 DEF Opplastet, Grunn, TypeOK, arbeid
  <2>5. Okter' /\ Opphav'
    BY <2>1, <2>2, <2>3 DEF Opplastet, Okter, Opphav
  <2>6. Navngitt' /\ Underveis'
    BY <2>1, DokumenteneStaar DEF Opplastet, Grunn
  <2> QED
    BY <2>4, <2>5, <2>6 DEF Opplastet
<1>2. CASE Legg(o)
  BY <1>2, SkrivingSteg DEF Legg, Opplastet, Grunn, TypeOK
<1>3. CASE OpplastingFeiler(o)
  <2>1. feil' \in 0..MaksFeil
    BY <1>3, DokumentflytAntagelse DEF OpplastingFeiler, Opplastet, Grunn, TypeOK
  <2>2. CASE opplasting[o] = "skriver" /\ Legges(o)
    BY <1>3, <2>1, <2>2, SkrivingSteg DEF OpplastingFeiler
  <2>3. CASE UNCHANGED <<lager, delt>>
    <3>1. LagtStaar /\ UNCHANGED <<lager, delt, dok, mottatt, arkiv, arbeid, saksnummer>>
      BY <1>3, <2>3 DEF OpplastingFeiler, LagtStaar
    <3>2. Grunn' /\ \A p \in Opplastinger :
              opplasting'[p] = IF p = o THEN "utilgjengelig" ELSE opplasting[p]
      BY <1>3, <2>1, <3>1 DEF OpplastingFeiler, Opplastet, Grunn, TypeOK, arbeid, Inne
    <3>3. Okter' /\ Opphav'
      BY <3>1, <3>2 DEF Opplastet, Okter, Opphav
    <3>4. Navngitt' /\ Underveis'
      BY <3>1, DokumenteneStaar DEF Opplastet, Grunn
    <3> QED
      BY <3>2, <3>3, <3>4 DEF Opplastet
  <2> QED
    BY <1>3, <2>2, <2>3 DEF OpplastingFeiler
<1> QED
  BY <1>1, <1>2, <1>3

LEMMA KrasjSteg == Invariant /\ Krasj => Invariant'
<1> SUFFICES ASSUME Invariant, Krasj PROVE Invariant'
  OBVIOUS
<1> USE DEF Invariant
<1>1. LagtStaar /\ UNCHANGED <<lager, delt, dok, mottatt, arkiv, saksnummer>> /\ Slipp
  BY DEF Krasj, LagtStaar
<1>2. Grunn'
  BY <1>1, DokumentflytAntagelse DEF Krasj, Slipp, Opplastet, Grunn, TypeOK, Inne
<1>3. \A p \in Opplastinger : opplasting'[p] = opplasting[p] \/ opplasting'[p] = "utilgjengelig"
  BY DEF Krasj
<1>4. Okter' /\ Opphav'
  BY <1>1, <1>3 DEF Opplastet, Okter, Opphav
<1>5. Navngitt' /\ Underveis'
  BY <1>1, DokumenteneStaar DEF Opplastet, Grunn
<1> QED
  BY <1>2, <1>4, <1>5 DEF Opplastet

----------------------------------------------------------------------------
(* The steps on documents leave the uploads alone *)

LEMMA OpplastetStaar ==
    ASSUME Opplastet, Grunn', UNCHANGED lagerVars,
           \A o \in Opplastinger : lager'[Id[o]] = lager[Id[o]]
    PROVE  Opplastet'
BY DEF Opplastet, Okter, Opphav, lagerVars

LEMMA MottaSteg ==
    ASSUME Invariant, NEW d \in Dokumenter, Motta(d) \/ MottakFeiler(d)
    PROVE  Invariant'
<1> USE DEF Invariant
<1>1. UNCHANGED <<lager, lagerVars, saksnummer, arbeid, arkiv>> /\ feil' \in 0..MaksFeil
  BY DokumentflytAntagelse DEF Motta, MottakFeiler, Opplastet, Grunn, TypeOK
<1>2. dok[d] = "ny" /\ \A e \in Dokumenter : e # d => dok'[e] = dok[e] /\ mottatt'[e] = mottatt[e]
  BY DEF Motta, MottakFeiler, Opplastet, Grunn, TypeOK
<1>3. /\ dok'[d] \in {"avvist", "avventer", "klar"}
      /\ dok'[d] # "avvist" => mottatt'[d] = lager[Ref[d]] /\ lager[Ref[d]] # Ingen
      /\ dok'[d] = "avventer" => Malform(d)
      /\ dok'[d] = "klar" => ~Malform(d)
  BY DEF Motta, MottakFeiler, Gyldig, Opplastet, Grunn, TypeOK
<1>4. DOMAIN mottatt' = Dokumenter /\ dok' \in [Dokumenter -> {"ny", "avvist", "avventer",
                                               "klar", "arkivert", "feilet"}]
  BY <1>3 DEF Motta, MottakFeiler, Opplastet, Grunn, TypeOK
<1>5. Grunn'
  BY <1>1, <1>4 DEF Opplastet, Grunn, TypeOK, lagerVars, arbeid
<1>6. Opplastet'
  BY <1>1, <1>5, OpplastetStaar
<1>7. Navngitt'
  BY <1>1, <1>2, <1>3 DEF Navngitt, Malform, lagerVars
<1>8. steg # "ledig" => hand \in Dokumenter /\ hand # d
  BY <1>2 DEF Underveis, Opplastet, Grunn, TypeOK
<1>10. Underveis'
  BY <1>1, <1>2, <1>3, <1>8 DEF Underveis, Malform, lagerVars, arbeid
<1> QED
  BY <1>6, <1>7, <1>10

LEMMA HentMalSteg ==
    ASSUME Invariant, NEW d \in Dokumenter, HentMal(d)
    PROVE  Invariant'
<1> USE DEF Invariant
<1>1. UNCHANGED <<lager, lagerVars, saksnummer, mottatt, arkiv, feil>> /\ dok[d] = "avventer"
      /\ hand = Ingen /\ steg = "ledig" /\ Malform(d)
  BY DEF HentMal, KanRendres, Opplastet, Grunn, TypeOK, Navngitt
<1>2. CASE dok' = [dok EXCEPT ![d] = "feilet"] /\ UNCHANGED arbeid
  <2>1. \A e \in Dokumenter : dok'[e] = dok[e] \/ dok'[e] = "feilet"
    BY <1>2 DEF Opplastet, Grunn, TypeOK
  <2>2. Grunn'
    BY <1>1, <1>2 DEF Opplastet, Grunn, TypeOK, lagerVars, arbeid
  <2>3. Opplastet'
    BY <1>1, <2>2, OpplastetStaar
  <2>4. Navngitt'
    BY <1>1, <2>1 DEF Navngitt, Malform, lagerVars
    <2>6. Underveis'
    BY <1>1, <1>2, <2>1 DEF Underveis, Malform, lagerVars, arbeid
  <2> QED
    BY <2>3, <2>4, <2>6
<1>3. CASE /\ hand' = d /\ steg' = "utfylt" /\ UNCHANGED dok
           /\ mal' = Pdf(lager[Ref[d]], Utfylt(lager[Ref[d]]))
           /\ Godtatt(lager[Ref[d]], Felter[d])
  <2>1. Grunn'
    BY <1>1, <1>3, DokumentflytAntagelse DEF Opplastet, Grunn, TypeOK, lagerVars
  <2>2. Opplastet'
    BY <1>1, <2>1, OpplastetStaar
  <2>3. Navngitt'
    BY <1>1, <1>3 DEF Navngitt, Malform, lagerVars
  <2>5. PdfAv(d, mal', mottatt[d], delt)
    BY <1>1, <1>3 DEF PdfAv, Pdf, Godtatt, Navngitt
  <2>6. Underveis'
    BY <1>1, <1>3, <2>5 DEF Underveis, Malform, lagerVars
  <2> QED
    BY <2>2, <2>3, <2>6
<1> QED
  BY <1>2, <1>3 DEF HentMal

LEMMA RendrerSteg == Invariant /\ Rendrer => Invariant'
<1> SUFFICES ASSUME Invariant, Rendrer PROVE Invariant'
  OBVIOUS
<1> USE DEF Invariant
<1>1. /\ UNCHANGED <<lager, lagerVars, saksnummer, mottatt, arkiv>> /\ feil' \in 0..MaksFeil
      /\ steg = "utfylt" /\ hand \in Dokumenter /\ dok[hand] = "avventer"
  BY DokumentflytAntagelse DEF Rendrer, Opplastet, Grunn, TypeOK, Underveis
<1>2. \/ steg' = "pdf" /\ UNCHANGED <<hand, mal, dok>>
      \/ Slipp /\ (dok' = dok \/ dok' = [dok EXCEPT ![hand] = "feilet"])
  BY DEF Rendrer, Varige
<1>3. \A e \in Dokumenter : dok'[e] = dok[e] \/ dok'[e] = "feilet"
  BY <1>2 DEF Opplastet, Grunn, TypeOK
<1>4. Grunn'
  BY <1>1, <1>2 DEF Opplastet, Grunn, TypeOK, lagerVars, Slipp
<1>5. Opplastet'
  BY <1>1, <1>4, OpplastetStaar
<1>6. Navngitt'
  BY <1>1, <1>3 DEF Navngitt, Malform, lagerVars
<1>8. Underveis'
  BY <1>1, <1>2, <1>3 DEF Underveis, Malform, lagerVars, Slipp
<1> QED
  BY <1>5, <1>6, <1>8

\* The PDF is stored, with an answer or without one.
LEMMA PdfSteg == Invariant /\ (LagrePdf \/ RenderingFeiler) => Invariant'
<1> SUFFICES ASSUME Invariant, LagrePdf \/ RenderingFeiler PROVE Invariant'
  OBVIOUS
<1> USE DEF Invariant
<1>1. /\ UNCHANGED <<lagerVars, saksnummer, dok, mottatt, arkiv>> /\ feil' \in 0..MaksFeil
      /\ steg \in {"pdf", "lagret"} /\ hand \in Dokumenter /\ dok[hand] = "avventer"
      /\ (steg' = "lagret" /\ UNCHANGED <<hand, mal>>) \/ Slipp
  BY DokumentflytAntagelse
     DEF LagrePdf, RenderingFeiler, Opplastet, Grunn, TypeOK, Underveis
<1>2. /\ lager' = lager \/ lager' = [lager EXCEPT ![Rendret(hand)] = mal]
      /\ steg' = "lagret" => lager' = [lager EXCEPT ![Rendret(hand)] = mal]
  BY DEF LagrePdf, RenderingFeiler, Slipp
<1>3. /\ DOMAIN lager' = Nokler
      /\ \A k \in Nokler : k # Rendret(hand) => lager'[k] = lager[k]
      /\ steg' = "lagret" => lager'[Rendret(hand)] = mal
  BY <1>1, <1>2, Ulike DEF Opplastet, Grunn, TypeOK
<1>4. Grunn'
  BY <1>1, <1>3 DEF Opplastet, Grunn, TypeOK, lagerVars, Slipp
<1>5. \A o \in Opplastinger : lager'[Id[o]] = lager[Id[o]]
  BY <1>1, <1>3, Ulike
<1>6. Opplastet'
  BY <1>1, <1>4, <1>5, OpplastetStaar
<1>7. \A e \in Dokumenter : lager'[Ref[e]] = lager[Ref[e]]
  BY <1>1, <1>3, Ulike
<1>8. \A e \in Dokumenter : e # hand => lager'[Rendret(e)] = lager[Rendret(e)]
  BY <1>1, <1>3, Ulike
<1>9. Navngitt'
  BY <1>1, <1>7 DEF Navngitt, Malform, lagerVars
<1>11. Underveis'
  <2>1. steg' # "ledig" => dok'[hand'] = "avventer" /\ PdfAv(hand, mal, mottatt'[hand], delt') /\ hand' = hand /\ mal' = mal
    BY <1>1 DEF Underveis, Slipp, lagerVars
  <2>2. steg' = "lagret" => lager'[Rendret(hand')] = mal'
    BY <1>1, <1>3, <2>1
  <2>3. ASSUME NEW e \in Dokumenter, Malform(e)
        PROVE  /\ dok'[e] = "klar" => PdfAv(e, lager'[Rendret(e)], mottatt'[e], delt')
               /\ dok'[e] = "arkivert" => PdfAv(e, arkiv'[e], mottatt'[e], delt')
    BY <1>1, <1>8, <2>3 DEF Underveis, lagerVars
  <2>4. \A e \in Dokumenter : ~Malform(e) /\ dok'[e] = "arkivert" /\ Ref[e] \notin delt' =>
           arkiv'[e] = mottatt'[e]
    BY <1>1 DEF Underveis, lagerVars
  <2> QED
    BY <2>1, <2>2, <2>3, <2>4 DEF Underveis, Malform
<1> QED
  BY <1>6, <1>9, <1>11

LEMMA FerdigSteg == Invariant /\ RendretFerdig => Invariant'
<1> SUFFICES ASSUME Invariant, RendretFerdig PROVE Invariant'
  OBVIOUS
<1> USE DEF Invariant
<1>1. /\ UNCHANGED <<lager, lagerVars, saksnummer, mottatt, arkiv, feil>>
      /\ steg = "lagret" /\ hand \in Dokumenter /\ dok[hand] = "avventer" /\ Slipp
      /\ dok' = [dok EXCEPT ![hand] = "klar"]
  BY DEF RendretFerdig, Opplastet, Grunn, TypeOK, Underveis
<1>2. \A e \in Dokumenter : dok'[e] = IF e = hand THEN "klar" ELSE dok[e]
  BY <1>1 DEF Opplastet, Grunn, TypeOK
<1>3. Grunn'
  BY <1>1 DEF Opplastet, Grunn, TypeOK, lagerVars, Slipp
<1>4. Opplastet'
  BY <1>1, <1>3, OpplastetStaar
<1>5. Navngitt'
  BY <1>1, <1>2 DEF Navngitt, Malform, lagerVars
<1>7. PdfAv(hand, lager[Rendret(hand)], mottatt[hand], delt) /\ Malform(hand)
  BY <1>1 DEF Underveis, Navngitt
<1>8. Underveis'
  BY <1>1, <1>2, <1>7 DEF Underveis, Malform, lagerVars, Slipp
<1> QED
  BY <1>4, <1>5, <1>8

LEMMA ArkiverSteg ==
    ASSUME Invariant, NEW d \in Dokumenter, Arkiver(d)
    PROVE  Invariant'
<1> USE DEF Invariant
<1>1. /\ UNCHANGED <<lager, lagerVars, saksnummer, arbeid, mottatt, feil>>
      /\ dok[d] = "klar" /\ hand = Ingen /\ steg = "ledig"
  BY DEF Arkiver, Opplastet, Grunn, TypeOK
<1>2. /\ dok'[d] \in {"feilet", "arkivert"} /\ arkiv'[d] = lager[Sendes(d)]
      /\ \A e \in Dokumenter : e # d => dok'[e] = dok[e] /\ arkiv'[e] = arkiv[e]
      /\ dok' \in [Dokumenter -> {"ny", "avvist", "avventer", "klar", "arkivert", "feilet"}]
      /\ DOMAIN arkiv' = Dokumenter
  BY DEF Arkiver, Opplastet, Grunn, TypeOK
<1>3. Grunn'
  BY <1>1, <1>2 DEF Opplastet, Grunn, TypeOK, lagerVars, arbeid
<1>4. Opplastet'
  BY <1>1, <1>3, OpplastetStaar
<1>5. Navngitt'
  BY <1>1, <1>2 DEF Navngitt, Malform, lagerVars
<1>7. /\ Malform(d) => PdfAv(d, arkiv'[d], mottatt[d], delt)
      /\ ~Malform(d) /\ Ref[d] \notin delt => arkiv'[d] = mottatt[d]
  BY <1>1, <1>2 DEF Underveis, Navngitt, Sendes
<1>8. Underveis'
  BY <1>1, <1>2, <1>7 DEF Underveis, Malform, lagerVars, arbeid
<1> QED
  BY <1>4, <1>5, <1>8

LEMMA UrortSteg == Invariant /\ (SakFaarNummer \/ UNCHANGED vars) => Invariant'
<1> SUFFICES ASSUME Invariant, SakFaarNummer \/ UNCHANGED vars PROVE Invariant'
  OBVIOUS
<1> USE DEF Invariant
<1>1. /\ UNCHANGED <<lager, lagerVars, dok, arbeid, mottatt, arkiv, feil>> /\ saksnummer' \in BOOLEAN
  BY DEF SakFaarNummer, vars, Opplastet, Grunn, TypeOK
<1>2. Grunn'
  BY <1>1 DEF Opplastet, Grunn, TypeOK, lagerVars, arbeid
<1>3. Opplastet'
  BY <1>1, <1>2, OpplastetStaar
<1>4. LagtStaar
  BY <1>1 DEF LagtStaar, lagerVars
<1> QED
  BY <1>1, <1>3, <1>4, DokumenteneStaar DEF Opplastet, Grunn

LEMMA DokSteg == Invariant /\ [Next]_vars => Invariant'
BY OktSteg, KrasjSteg, MottaSteg, HentMalSteg, RendrerSteg, PdfSteg, FerdigSteg,
   ArkiverSteg, UrortSteg DEF Next, Utforer

\* Every reachable state is well typed and keeps the invariant.
LEMMA DokHolder == Spec => []Invariant
BY DokInit, DokSteg, PTL DEF Spec

----------------------------------------------------------------------------
(* The properties *)

\* The variables keep their types.
THEOREM DokumentTyper == Spec => []TypeOK
<1>1. Invariant => TypeOK
  BY DEF Invariant, Opplastet, Grunn
<1> QED
  BY <1>1, DokHolder, PTL

\* Upload: the answer ok stands, whatever other sessions do that did not
\* overlap (UploadStore::store).
THEOREM OkErLagretHolder == Spec => []OkErLagret
<1>1. Invariant => OkErLagret
  BY DEF Invariant, Opplastet, Okter, OkErLagret
<1> QED
  BY <1>1, DokHolder, PTL

\* Upload repeated after a lost answer: a conflict is always with somebody
\* else's content (UploadStore::store, save).
THEOREM GjentattErIkkeKonfliktHolder == Spec => []GjentattErIkkeKonflikt
<1>1. Invariant => GjentattErIkkeKonflikt
  BY DEF Invariant, Opplastet, Opphav, GjentattErIkkeKonflikt
<1> QED
  BY <1>1, DokHolder, PTL

\* The archive gets what the reference named when the command was accepted,
\* or the PDF of it (MediaRenderOperasjon::render, hent_media_base64).
THEOREM ArkivertErMottattHolder == Spec => []ArkivertErMottatt
<1>1. Invariant => ArkivertErMottatt
  BY DEF Invariant, Underveis, PdfAv, ArkivertErMottatt
<1> QED
  BY <1>1, DokHolder, PTL

\* Declared fields and tokens of an archived template match (valider_tokens).
THEOREM FelterPasserHolder == Spec => []FelterPasser
<1>1. \A d \in Dokumenter : Malform(d) => (Navn(Felter[d]) = {}) = (Felter[d] = <<>>)
  <2> SUFFICES ASSUME NEW d \in Dokumenter, Malform(d)
               PROVE  (Navn(Felter[d]) = {}) = (Felter[d] = <<>>)
    OBVIOUS
  <2>1. Felter[d] \in Seq({"saksnummer"})
    BY DokumentflytAntagelse DEF Malform
  <2>2. CASE Felter[d] = <<>>
    BY <2>2 DEF Navn
  <2>3. CASE Felter[d] # <<>>
    <3>1. 1 \in DOMAIN Felter[d]
      BY <2>1, <2>3
    <3>2. Felter[d][1] \in Navn(Felter[d])
      BY <3>1 DEF Navn
    <3> QED
      BY <2>3, <3>2
  <2> QED
    BY <2>2, <2>3
<1>2. Invariant => FelterPasser
  BY <1>1 DEF Invariant, Underveis, PdfAv, FelterPasser, Tokens
<1> QED
  BY <1>2, DokHolder, PTL

\* What is uploaded and declared is what is stored and archived.
THEOREM DokumentetStaarHolder == Spec => []DokumentetStaar
BY DokumentTyper, OkErLagretHolder, GjentattErIkkeKonfliktHolder, ArkivertErMottattHolder,
   FelterPasserHolder, PTL DEF DokumentetStaar
=============================================================================
