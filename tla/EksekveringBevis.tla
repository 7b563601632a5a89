-------------------------- MODULE EksekveringBevis --------------------------
(***************************************************************************)
(* Types, at most once, the truth of the stream, the refinement of         *)
(* Virkninger, and the facts, for every value of the constants.            *)
(*                                                                         *)
(* TypeOK alone is not inductive: what an executor remembers is typed with *)
(* Ingen as a possible value, and the steps that use it are sound because  *)
(* of where the executor is.  MinneOK says what each place guarantees.     *)
(*                                                                         *)
(* Why at most once holds: the row of an operation says at every moment    *)
(* whether its effect may have been made.  While the executor decides, the *)
(* row says that nothing has been done; before it calls, the row says      *)
(* `sent`; after an interruption only a row in `kjorer` is tried again.    *)
(* This needs the executor to be alone (EnLeder) and its place and the row *)
(* of its operation to agree (Fase), which no single property says.        *)
(***************************************************************************)
EXTENDS Eksekvering, TLAPS


\* Where an executor has an operation in hand.
MedOperasjon ==
    {"varsle_kommando", "marker_varslet", "hentet", "les_sosken",
     "les_udekomponerte", "besluttet", "kjorer", "sendt", "svar", "publiser",
     "les_utfall", "publiser_kommando"}

\* Where it also has a snapshot of the case.
MedSak == {"les_sosken", "les_udekomponerte", "besluttet", "kjorer", "sendt",
           "svar"}

MinneOK ==
    \A e \in Executorer :
        /\ pc[e] \in MedOperasjon => minne[e].op \in Operasjoner
        /\ pc[e] \in MedSak => minne[e].sak \in SakFakta
        /\ pc[e] = "publiser_kommando" => minne[e].utfall \in KmdHendelser

TypeInv == TypeOK /\ MinneOK

----------------------------------------------------------------------------
(* Operations and decisions *)

\* What decomposition yields: every operation belongs to a command of the
\* instance, is of a known type, and polls only for a command that creates a
\* journal entry.
LEMMA OperasjonType ==
    ASSUME NEW o \in Operasjoner
    PROVE  /\ o.kommando \in Kommandoer
           /\ o.type \in Operasjonstyper
           /\ o.type = "avvent_journalfort" => o.kommando \in JournalpostKommandoer
           /\ SakTil(o) \in Saker
<1>1. PICK c \in Kommandoer : o \in Dekomponer(c)
  BY DEF Operasjoner
<1>2. ErPayload(Payload[c])
  BY PayloadAntagelse
<1>3. /\ o.kommando = c
      /\ o.type \in Operasjonstyper
      /\ o.type = "avvent_journalfort" => Payload[c].type = "opprett_journalpost"
  <2>1. CASE Payload[c].type = "opprett_journalpost"
    <3>1. Statuslop(Payload[c]) \subseteq Operasjonstyper
      BY <1>2 DEF Statuslop, ErPayload, Journalposttyper, Operasjonstyper
    <3>2. \E type \in Operasjonstyper : \E entitet : o = Operasjon(c, type, entitet)
      BY <1>1, <2>1, <3>1 DEF Dekomponer, DekomponerJournalpost, Operasjonstyper
    <3> QED
      BY <2>1, <3>2 DEF Operasjon
  <2>2. CASE Payload[c].type # "opprett_journalpost"
    <3>1. o = Operasjon(c, Payload[c].type, Payload[c].sak)
      BY <1>1, <2>2 DEF Dekomponer
    <3> QED
      BY <1>2, <3>1 DEF Operasjon, ErPayload, Kommandotyper, Operasjonstyper
  <2> QED
    BY <2>1, <2>2
<1> QED
  BY <1>3 DEF JournalpostKommandoer, SakTil, Saker

\* vurder always decides: no case of an operation's type and its journal
\* entry's status is left out.
LEMMA VurderType ==
    ASSUME NEW o \in Operasjoner, NEW s \in SakFakta,
           NEW j \in [Journalposter -> JpFakta], NEW d
    PROVE  Vurder(o, s, j, d, Ingen) \in Beslutninger
<1> DEFINE p == Payload[o.kommando]
           post == j[p.journalpost]
<1>1. o.type \in Operasjonstyper
  BY OperasjonType
<1>2. CASE o.type = "avvent_journalfort"
  <2>1. p.journalpost \in Journalposter
    BY <1>2, OperasjonType DEF Journalposter
  <2>2. post.tilstand \in JpTilstander
    BY <2>1 DEF JpFakta
  <2>3. VurderAvventJournalfort(post) \in Beslutninger
    BY <2>2 DEF VurderAvventJournalfort, Beslutninger, JpTilstander
  <2> QED
    BY <1>2, <2>3 DEF Vurder
<1>3. CASE o.type \in {"journalfor", "sett_ekspedert", "klargjor_for_ekspedering"}
  <2>1. VurderStatusovergang(o.type, p, post, d) \in Beslutninger
    BY DEF VurderStatusovergang, KrevDokumenterIArkiv, Beslutninger
  <2> QED
    BY <1>3, <2>1 DEF Vurder
<1>4. CASE o.type = "opprett_journalpost"
  <2>1. VurderOpprettJournalpost(p, s, post, d) \in Beslutninger
    BY DEF VurderOpprettJournalpost, Beslutninger
  <2> QED
    BY <1>4, <2>1 DEF Vurder
<1>5. CASE o.type = "legg_til_vedlegg"
  <2>1. VurderLeggTilVedlegg(p, o.entitet, post, d) \in Beslutninger
    BY DEF VurderLeggTilVedlegg, Beslutninger
  <2> QED
    BY <1>5, <2>1 DEF Vurder
<1>6. CASE o.type = "render_dokument"
  <2>1. VurderRenderDokument(p, o.entitet, s, d) \in Beslutninger
    BY DEF VurderRenderDokument, Beslutninger
  <2> QED
    BY <1>6, <2>1 DEF Vurder
<1>7. CASE o.type = "avskriv"
  <2>1. VurderAvskriv(p, post) \in Beslutninger
    BY DEF VurderAvskriv, Beslutninger
  <2> QED
    BY <1>7, <2>1 DEF Vurder
<1>8. CASE o.type \in {"opprett_sak", "sett_saksansvarlig", "avslutt_sak"}
  <2>1. /\ VurderOpprettSak(s) \in Beslutninger
        /\ VurderSettSaksansvarlig(s, Ingen) \in Beslutninger
        /\ "blokkert" \in Beslutninger
    BY DEF VurderOpprettSak, VurderSettSaksansvarlig, Beslutninger
  <2> QED
    BY <1>8, <2>1 DEF Vurder
<1> QED
  BY <1>1, <1>2, <1>3, <1>4, <1>5, <1>6, <1>7, <1>8 DEF Operasjonstyper

\* What an executor remembers keeps its type when one field is set.
LEMMA TomtMinneType == TomtMinne \in Minne
BY DEF TomtMinne, Minne, Beslutninger, Svar, OpHendelser, Utfall

\* ... and the operation, the case and the set field read back.
LEMMA MinneFelt ==
    ASSUME NEW m \in Minne
    PROVE  /\ \A x \in Operasjoner \cup {Ingen} : [m EXCEPT !.op = x] \in Minne
           /\ \A x \in SakFakta :
                 /\ [m EXCEPT !.sak = x] \in Minne
                 /\ [m EXCEPT !.sak = x].op = m.op
                 /\ [m EXCEPT !.sak = x].sak = x
           /\ \A x \in SUBSET [op : Operasjoner, status : Statuser] :
                 /\ [m EXCEPT !.sosken = x] \in Minne
                 /\ [m EXCEPT !.sosken = x].op = m.op
                 /\ [m EXCEPT !.sosken = x].sak = m.sak
           /\ \A x \in Beslutninger :
                 /\ [m EXCEPT !.beslutning = x] \in Minne
                 /\ [m EXCEPT !.beslutning = x].op = m.op
                 /\ [m EXCEPT !.beslutning = x].sak = m.sak
           /\ \A x \in Svar :
                 /\ [m EXCEPT !.svar = x] \in Minne
                 /\ [m EXCEPT !.svar = x].op = m.op
                 /\ [m EXCEPT !.svar = x].sak = m.sak
           /\ \A x \in OpHendelser :
                 /\ [m EXCEPT !.hendelse = x] \in Minne
                 /\ [m EXCEPT !.hendelse = x].op = m.op
           /\ \A x \in Utfall :
                 /\ [m EXCEPT !.utfall = x] \in Minne
                 /\ [m EXCEPT !.utfall = x].op = m.op
                 /\ [m EXCEPT !.utfall = x].utfall = x
           /\ \A x \in SUBSET Operasjoner : [m EXCEPT !.uvarslet = x] \in Minne
BY DEF Minne

----------------------------------------------------------------------------
(* The invariant *)

\* Init gives every variable its type.
LEMMA TypeInit == Init => TypeInv
<1> SUFFICES ASSUME Init PROVE TypeInv
  OBVIOUS
<1>1. TypeOK
  BY TomtMinneType, GrenseAntagelse
     DEF Init, TypeOK, Statuser, SakFakta, SakTilstander, Ansvarlige, JpFakta,
         JpTilstander, DokTilstander, OpHendelser, KmdHendelser, Steder
<1>2. MinneOK
  BY DEF Init, MinneOK, MedOperasjon, MedSak
<1> QED
  BY <1>1, <1>2 DEF TypeInv

\* What a decomposition makes of the facts of a case is facts again.
LEMMA SkrivSakType ==
    ASSUME NEW c \in Kommandoer, NEW s \in SakFakta
    PROVE  SkrivSak(c, s) \in SakFakta
<1>1. /\ Payload[c].kjentSaksnummer \in BOOLEAN
      /\ Payload[c].ansvarlig \in Ansvarlige
      /\ Ingen \in Ansvarlige
  BY PayloadAntagelse DEF ErPayload, Ansvarlige
<1>2. CASE s.rad
  BY <1>1, <1>2 DEF SkrivSak, SakFakta
<1>3. CASE ~s.rad
  BY <1>1, <1>3 DEF SkrivSak, SakFakta, SakTilstander
<1> QED
  BY <1>2, <1>3 DEF SakFakta

\* A step of the surroundings of the executors keeps the types.
LEMMA TypeOmgivelser ==
    ASSUME TypeInv, Omgivelser
    PROVE  TypeInv'
<1> USE DEF TypeInv, TypeOK, MinneOK
<1>1. CASE \E c \in Kommandoer : Motta(c)
  BY <1>1 DEF Motta, dbVars, arkivVars, stromVars, execVars, faktaVars
<1>2. ASSUME NEW c \in Kommandoer, LagreDekomponering(c)
      PROVE  TypeInv'
  <2>1. SkrivSak(c, sak[Payload[c].sak]) \in SakFakta
    <3>1. sak[Payload[c].sak] \in SakFakta
      BY DEF Saker
    <3> QED
      BY <3>1, SkrivSakType
  <2>2. SkrivDokumenter(c) \in [Dokumenter -> DokTilstander]
    BY DEF SkrivDokumenter, DokTilstander
  <2> QED
    BY <1>2, <2>1, <2>2
       DEF LagreDekomponering, arkivVars, stromVars, execVars
<1>3. ASSUME NEW K \in SUBSET dekomponert, Frigi(K)
      PROVE  TypeInv'
  <2>1. \A st \in Statuser : GjenopptattStatus(st) \in Statuser
    BY DEF GjenopptattStatus, Statuser
  <2> QED
    BY <1>3, <2>1 DEF Frigi, arkivVars, stromVars, execVars, faktaVars
<1>4. CASE \E K \in SUBSET mottatt : Forkast(K)
  BY <1>4 DEF Forkast, arkivVars, stromVars, execVars, faktaVars
<1>5. CASE \E j \in Journalposter : Rpa(j)
  BY <1>5 DEF Rpa, JpTilstander, dbVars, stromVars, execVars, faktaVars
<1> QED
  BY <1>1, <1>2, <1>3, <1>4, <1>5 DEF Omgivelser

\* A step of a new leader keeps the types.
LEMMA TypeLeder ==
    ASSUME TypeInv, NEW e \in Executorer, Leder(e) \/ Avbryt(e)
    PROVE  TypeInv'
<1> USE DEF TypeInv, TypeOK, MinneOK, Ga, Sett, MedOperasjon, MedSak, Steder
<1>1. CASE TaLederskap(e)
  BY <1>1 DEF TaLederskap, arkivVars, stromVars, faktaVars
<1>2. CASE Gjenopprett(e)
  <2>1. \A st \in Statuser : Gjenopprettet(st) \in Statuser
    BY DEF Gjenopprettet, Statuser
  <2> QED
    BY <1>2, <2>1 DEF Gjenopprett, arkivVars, stromVars, faktaVars
<1>3. CASE HentUvarslet(e)
  <2>1. minne' \in [Executorer -> Minne]
    BY <1>3, TomtMinneType DEF HentUvarslet, Minne, Rader
  <2> QED
    BY <1>3, <2>1 DEF HentUvarslet, dbVars, arkivVars, stromVars, faktaVars
<1>4. CASE VarsleOperasjon(e)
  <2>1. PICK o \in minne[e].uvarslet :
           /\ opStatus' = [opStatus EXCEPT ![o] = "krever_avklaring"]
           /\ minne' = [minne EXCEPT ![e] =
                          [minne[e] EXCEPT !.op = o, !.uvarslet = @ \ {o}]]
    BY <1>4 DEF VarsleOperasjon
  <2>2. o \in Operasjoner
    BY DEF Minne
  <2>3. minne' \in [Executorer -> Minne]
    <3>1. [minne[e] EXCEPT !.op = o] \in Minne
      BY <2>2, MinneFelt
    <3>2. [[minne[e] EXCEPT !.op = o] EXCEPT !.uvarslet = @ \ {o}] \in Minne
      BY <3>1, MinneFelt DEF Minne
    <3> QED
      BY <2>1, <3>2
  <2>4. opStatus' \in [Operasjoner -> OpHendelser]
    BY <2>1 DEF OpHendelser
  <2>5. MinneOK'
    BY <1>4, <2>1, <2>2 DEF VarsleOperasjon, Minne
  <2> QED
    BY <1>4, <2>3, <2>4, <2>5
       DEF VarsleOperasjon, dbVars, arkivVars, faktaVars
<1>5. CASE VarsleKommando(e)
  <2>1. kmdStatus' \in [Kommandoer -> KmdHendelser]
    BY <1>5 DEF VarsleKommando, KmdHendelser
  <2> QED
    BY <1>5, <2>1 DEF VarsleKommando, dbVars, arkivVars, faktaVars
<1>6. CASE MarkerVarslet(e)
  <2>1. minne' \in [Executorer -> Minne]
    BY <1>6, MinneFelt DEF MarkerVarslet
  <2> QED
    BY <1>6, <2>1 DEF MarkerVarslet, arkivVars, stromVars, faktaVars
<1>7. CASE StartArbeid(e)
  BY <1>7 DEF StartArbeid, dbVars, arkivVars, stromVars, faktaVars
<1>8. CASE Avbryt(e)
  BY <1>8, TomtMinneType, GrenseAntagelse DEF Avbryt, arkivVars, stromVars, faktaVars
<1> QED
  BY <1>1, <1>2, <1>3, <1>4, <1>5, <1>6, <1>7, <1>8 DEF Leder

\* Choosing, judging and marking an operation keeps the types.
LEMMA TypeBeslutt ==
    ASSUME TypeInv, NEW e \in Executorer,
           Beslutt(e) \/ \E o \in Operasjoner : Hent(e, o)
    PROVE  TypeInv'
<1> USE DEF TypeInv, TypeOK, MinneOK, Ga, Sett, MedOperasjon, MedSak, Steder,
            SkrivStatus
<1> DEFINE op == minne[e].op
<1>1. ASSUME NEW o \in Operasjoner, Hent(e, o)
      PROVE  TypeInv'
  <2>1. [TomtMinne EXCEPT !.op = o] \in Minne
    BY TomtMinneType, MinneFelt
  <2>2. [TomtMinne EXCEPT !.op = o].op = o
    BY DEF TomtMinne
  <2> QED
    BY <1>1, <2>1, <2>2 DEF Hent, dbVars, arkivVars, stromVars, faktaVars
<1>2. CASE LesFakta(e)
  <2>1. /\ op \in Operasjoner
        /\ sak[SakTil(op)] \in SakFakta
        /\ Vurder(op, sak[SakTil(op)], jp, dok, Ingen) \in Beslutninger
    BY <1>2, OperasjonType, VurderType DEF LesFakta
  <2> DEFINE m == [minne[e] EXCEPT !.sak = sak[SakTil(op)]]
             n == [minne[e] EXCEPT !.sak = sak[SakTil(op)],
                     !.beslutning = Vurder(op, sak[SakTil(op)], jp, dok, Ingen)]
  <2>2. /\ m \in Minne
        /\ m.op = op
        /\ m.sak = sak[SakTil(op)]
    BY <2>1, MinneFelt
  <2>3. n = [m EXCEPT !.beslutning = Vurder(op, sak[SakTil(op)], jp, dok, Ingen)]
    OBVIOUS
  <2>4. /\ n \in Minne
        /\ n.op = op
        /\ n.sak = sak[SakTil(op)]
    BY <2>1, <2>2, <2>3, MinneFelt DEF Minne
  <2>5. minne' = [minne EXCEPT ![e] = m] \/ minne' = [minne EXCEPT ![e] = n]
    BY <1>2 DEF LesFakta
  <2>6. /\ minne' \in [Executorer -> Minne]
        /\ minne'[e].op = op
        /\ minne'[e].sak = sak[SakTil(op)]
        /\ \A x \in Executorer \ {e} : minne'[x] = minne[x]
    BY <2>2, <2>4, <2>5
  <2>7. /\ pc' \in [Executorer -> Steder]
        /\ pc'[e] # "publiser_kommando"
        /\ \A x \in Executorer \ {e} : pc'[x] = pc[x]
    BY <1>2 DEF LesFakta
  <2> QED
    BY <1>2, <2>1, <2>6, <2>7 DEF LesFakta, dbVars, arkivVars, stromVars, faktaVars
<1>3. CASE LesSosken(e)
  <2> DEFINE rader == {o \in RaderPaa(SakTil(op)) : o.kommando \notin forkastet}
             sosken == {[op |-> o, status |-> status[o]] : o \in rader}
             m == [minne[e] EXCEPT !.sosken = sosken]
  <2>1. sosken \in SUBSET [op : Operasjoner, status : Statuser]
    BY DEF RaderPaa, OperasjonerPaa
  <2>2. minne' = [minne EXCEPT ![e] = m]
    BY <1>3 DEF LesSosken
  <2> HIDE DEF sosken
  <2>3. m \in Minne /\ m.op = op /\ m.sak = minne[e].sak
    BY <2>1, MinneFelt
  <2>4. /\ minne' \in [Executorer -> Minne]
        /\ minne'[e].op = op
        /\ minne'[e].sak = minne[e].sak
        /\ \A x \in Executorer \ {e} : minne'[x] = minne[x]
    BY <2>2, <2>3
  <2>5. /\ pc[e] = "les_sosken"
        /\ pc' = [pc EXCEPT ![e] = "les_udekomponerte"]
        /\ UNCHANGED <<dbVars, arkivVars, stromVars, avbrudd>>
    BY <1>3 DEF LesSosken
  <2> HIDE DEF m
  <2> QED
    BY <2>4, <2>5 DEF dbVars, arkivVars, stromVars, faktaVars
<1>4. CASE LesUdekomponerte(e)
  <2> DEFINE b == VurderAvsluttSak(op, minne[e].sak, minne[e].sosken,
                                   Udekomponerte(SakTil(op)))
             m == [minne[e] EXCEPT !.beslutning = b]
  <2>1. b \in Beslutninger
    BY DEF VurderAvsluttSak, Beslutninger
  <2>2. m \in Minne /\ m.op = op /\ m.sak = minne[e].sak
    BY <2>1, MinneFelt
  <2>3. minne' = [minne EXCEPT ![e] = m]
    BY <1>4 DEF LesUdekomponerte
  <2> QED
    BY <1>4, <2>2, <2>3 DEF LesUdekomponerte, dbVars, arkivVars, stromVars, faktaVars
<1>5. CASE MarkerBlokkert(e)
  BY <1>5, TomtMinneType
     DEF MarkerBlokkert, Statuser, arkivVars, stromVars, faktaVars
<1>6. CASE FullforAlleredeUtfort(e) \/ MarkerUgyldig(e)
  <2>1. PICK h \in {"ok", "feilet"} :
           minne' = [minne EXCEPT ![e] = [minne[e] EXCEPT !.hendelse = h]]
    BY <1>6 DEF FullforAlleredeUtfort, MarkerUgyldig
  <2>2. /\ [minne[e] EXCEPT !.hendelse = h] \in Minne
        /\ [minne[e] EXCEPT !.hendelse = h].op = op
    BY MinneFelt DEF OpHendelser
  <2>3. status' \in [Operasjoner -> Statuser]
    BY <1>6 DEF FullforAlleredeUtfort, MarkerUgyldig, Statuser
  <2>4. MinneOK'
    BY <1>6, <2>1, <2>2 DEF FullforAlleredeUtfort, MarkerUgyldig
  <2> QED
    BY <1>6, <2>1, <2>2, <2>3, <2>4
       DEF FullforAlleredeUtfort, MarkerUgyldig, arkivVars, stromVars, faktaVars
<1>7. CASE MarkerKjorer(e)
  BY <1>7 DEF MarkerKjorer, Statuser, arkivVars, stromVars, faktaVars
<1>8. CASE MarkerSendt(e)
  BY <1>8 DEF MarkerSendt, Statuser, arkivVars, stromVars, faktaVars
<1> QED
  BY <1>1, <1>2, <1>3, <1>4, <1>5, <1>6, <1>7, <1>8 DEF Beslutt

\* A call to the archive keeps the types: it is made with an operation and a
\* snapshot in hand, and its effects are counted within the bound.
LEMMA TypeKall ==
    ASSUME TypeInv, NEW e \in Executorer, Kall(e)
    PROVE  TypeInv'
<1> USE DEF TypeInv, TypeOK, MinneOK, MedOperasjon, MedSak, Steder
<1> DEFINE op == minne[e].op
<1>1. /\ pc[e] \in MedOperasjon \cap MedSak
      /\ op \in Operasjoner /\ minne[e].sak \in SakFakta
  BY DEF Kall, KallLykkes, Render, Poll, ManglerAttributter, KallAvvises,
         KallFeilerForVirkning, SvarTapt, KlarForKall
<1>2. PICK svar \in Svar : Svare(e, svar)
  <2>1. CASE Poll(e)
    BY <2>1 DEF Poll, Svar
  <2>2. CASE ~Poll(e)
    BY <2>2 DEF Kall, KallLykkes, Render, ManglerAttributter, KallAvvises,
                KallFeilerForVirkning, SvarTapt, Svar
  <2> QED
    BY <2>1, <2>2
<1>3. /\ pc' \in [Executorer -> Steder]
      /\ minne' \in [Executorer -> Minne]
      /\ MinneOK'
  <2>1. /\ [minne[e] EXCEPT !.svar = svar] \in Minne
        /\ [minne[e] EXCEPT !.svar = svar].op = op
        /\ [minne[e] EXCEPT !.svar = svar].sak = minne[e].sak
    BY MinneFelt
  <2> QED
    BY <1>1, <1>2, <2>1 DEF Svare, Ga, Sett
<1>4. CASE Virk(op, minne[e]) /\ tapte' \in {tapte, tapte \cup {op}}
  <2>1. arkivJp' \in [Journalposter -> JpTilstander]
    <3>1. op.type \in StatusTyper => NyJpTilstand(op.type) \in JpTilstander
      BY DEF StatusTyper, NyJpTilstand, JpTilstander
    <3> QED
      BY <1>4, <3>1 DEF Virk
  <2>2. arkivAnsvarlig' \in [Saker -> Ansvarlige]
    BY <1>1, <1>4 DEF Virk, SakFakta
  <2>3. virkning' \in [Operasjoner -> 0..MaksVirkning]
    <3>1. virkning[op] + 1 \in 0..MaksVirkning
      BY <1>1, <1>4, GrenseAntagelse DEF Virk
    <3> QED
      BY <1>4, <3>1 DEF Virk
  <2>4. tapte' \subseteq Operasjoner
    BY <1>1, <1>4
  <2>5. UNCHANGED <<dbVars, stromVars, avbrudd>>
    BY <1>4 DEF Kall, KallLykkes, Render, Poll, ManglerAttributter, KallAvvises,
                KallFeilerForVirkning, SvarTapt
  <2> QED
    BY <1>3, <2>1, <2>2, <2>3, <2>4, <2>5 DEF dbVars, stromVars, faktaVars
<1>5. CASE UNCHANGED <<dbVars, arkivVars, stromVars, avbrudd>>
  BY <1>3, <1>5 DEF dbVars, arkivVars, stromVars, faktaVars
<1> QED
  BY <1>4, <1>5 DEF Kall, KallLykkes, Render, Poll, ManglerAttributter,
                    KallAvvises, KallFeilerForVirkning, SvarTapt

\* Settling and telling an outcome keeps the types.
LEMMA TypeAvslutt ==
    ASSUME TypeInv, NEW e \in Executorer, Avslutt(e)
    PROVE  TypeInv'
<1> USE DEF TypeInv, TypeOK, MinneOK, Ga, Sett, MedOperasjon, MedSak, Steder,
            SkrivStatus
<1> DEFINE op == minne[e].op
           Med(h) == [minne[e] EXCEPT !.hendelse = h]
<1>1. \A h \in OpHendelser : Med(h) \in Minne /\ Med(h).op = op
  BY MinneFelt
<1>2. {"ok", "feilet", "forsok_feilet"} \subseteq OpHendelser
  BY DEF OpHendelser
<1>3. CASE FullforOk(e)
  <2>1. /\ op \in Operasjoner
        /\ minne[e].sak.oensket \in Ansvarlige
    BY <1>3 DEF FullforOk, SakFakta
  <2>2. sak' \in [Saker -> SakFakta]
    <3> DEFINE s == sak[SakTil(op)]
    <3>1. s \in SakFakta
      BY <2>1, OperasjonType
    <3>2. /\ [s EXCEPT !.arkivId = TRUE, !.tilstand = "opprettet"] \in SakFakta
          /\ [s EXCEPT !.tilstand = "avsluttet"] \in SakFakta
          /\ [s EXCEPT !.naa = minne[e].sak.oensket] \in SakFakta
      BY <2>1, <3>1 DEF SakFakta, SakTilstander
    <3> QED
      BY <1>3, <3>1, <3>2 DEF FullforOk, FaktaEtter
  <2>3. jp' \in [Journalposter -> JpFakta]
    <3>1. op.type \in StatusTyper => NyJpTilstand(op.type) \in JpTilstander
      BY DEF StatusTyper, NyJpTilstand, JpTilstander
    <3>2. jp' = CASE op.type \in StatusTyper ->
                       [jp EXCEPT ![op.entitet] =
                          [arkivId |-> @.arkivId \/ op.type = "opprett_journalpost",
                           tilstand |-> NyJpTilstand(op.type)]]
                  [] op.type = "avvent_journalfort" ->
                       [jp EXCEPT ![op.entitet].tilstand = "journalfoert"]
                  [] OTHER -> jp
      BY <1>3 DEF FullforOk, FaktaEtter
    <3>3. jp \in [Journalposter -> JpFakta]
      OBVIOUS
    <3> HIDE DEF TypeInv, TypeOK, MinneOK
    <3> QED
      BY <3>1, <3>2, <3>3 DEF JpFakta, JpTilstander
  <2>4. dok' \in [Dokumenter -> DokTilstander]
    BY <1>3 DEF FullforOk, FaktaEtter, DokTilstander
  <2>5. status' \in [Operasjoner -> Statuser]
    BY <1>3 DEF FullforOk, Statuser
  <2>6. MinneOK' /\ minne' \in [Executorer -> Minne] /\ pc' \in [Executorer -> Steder]
    BY <1>1, <1>2, <1>3, <2>1 DEF FullforOk
  <2> QED
    BY <1>3, <2>2, <2>3, <2>4, <2>5, <2>6 DEF FullforOk, arkivVars, stromVars
<1>4. CASE FullforPoll(e)
  <2>1. jp' \in [Journalposter -> JpFakta]
    <3>1. \/ jp' = [jp EXCEPT ![op.entitet].tilstand = "ekspedert"]
          \/ jp' = jp
      BY <1>4 DEF FullforPoll
    <3>2. jp \in [Journalposter -> JpFakta] /\ "ekspedert" \in JpTilstander
      BY DEF JpTilstander
    <3> HIDE DEF TypeInv, TypeOK, MinneOK, op
    <3>3. \A j \in Journalposter :
              [jp EXCEPT ![op.entitet].tilstand = "ekspedert"][j] \in JpFakta
      BY <3>2 DEF JpFakta
    <3> QED
      BY <3>1, <3>2, <3>3
  <2>2. status' \in [Operasjoner -> Statuser]
    <3>1. status' = [status EXCEPT ![op] = "retry_venter"]
      BY <1>4 DEF FullforPoll
    <3>2. "retry_venter" \in Statuser
      BY DEF Statuser
    <3> QED
      BY <3>1, <3>2
  <2>3. apneForsok' \subseteq Operasjoner
    BY <1>4 DEF FullforPoll
  <2>4. MinneOK' /\ minne' \in [Executorer -> Minne] /\ pc' \in [Executorer -> Steder]
    BY <1>4, TomtMinneType DEF FullforPoll
  <2> QED
    BY <1>4, <2>1, <2>2, <2>3, <2>4 DEF FullforPoll, arkivVars, stromVars
<1>5. CASE MarkerRetry(e)
  BY <1>1, <1>2, <1>5 DEF MarkerRetry, Statuser, arkivVars, stromVars, faktaVars
<1>6. CASE MarkerFeilet(e)
  BY <1>1, <1>2, <1>6 DEF MarkerFeilet, Statuser, arkivVars, stromVars, faktaVars
<1>7. CASE PubliserOperasjon(e)
  <2>1. opStatus' \in [Operasjoner -> OpHendelser]
    BY <1>7 DEF PubliserOperasjon, Minne
  <2> QED
    BY <1>7, <2>1, TomtMinneType DEF PubliserOperasjon, dbVars, arkivVars, faktaVars
<1>8. CASE LesUtfall(e)
  <2> DEFINE utfall == Fold(RaderFor(op.kommando), status)
             m == [minne[e] EXCEPT !.utfall = utfall]
  <2>1. utfall \in Utfall
    BY DEF Fold, Utfall
  <2>2. m \in Minne /\ m.op = op /\ m.utfall = utfall
    BY <2>1, MinneFelt
  <2>3. utfall # "uavklart" => utfall \in KmdHendelser
    BY <2>1 DEF Utfall, KmdHendelser
  <2>4. CASE pc'[e] = "ledig"
    BY <1>8, <2>4, TomtMinneType DEF LesUtfall, dbVars, arkivVars, stromVars, faktaVars
  <2>5. CASE pc'[e] # "ledig"
    <3>1. /\ minne' = [minne EXCEPT ![e] = m]
          /\ pc' = [pc EXCEPT ![e] = "publiser_kommando"]
          /\ utfall # "uavklart"
      BY <1>8, <2>5 DEF LesUtfall
    <3> QED
      BY <1>8, <2>2, <2>3, <3>1
         DEF LesUtfall, dbVars, arkivVars, stromVars, faktaVars
  <2> QED
    BY <2>4, <2>5
<1>9. CASE PubliserKommando(e)
  <2>1. kmdStatus' \in [Kommandoer -> KmdHendelser]
    BY <1>9 DEF PubliserKommando
  <2> QED
    BY <1>9, <2>1, TomtMinneType DEF PubliserKommando, dbVars, arkivVars, faktaVars
<1> QED
  BY <1>3, <1>4, <1>5, <1>6, <1>7, <1>8, <1>9 DEF Avslutt

LEMMA TypeSteg == TypeInv /\ [Next]_vars => TypeInv'
<1> SUFFICES ASSUME TypeInv, [Next]_vars PROVE TypeInv'
  OBVIOUS
<1>1. CASE Next
  BY <1>1, TypeOmgivelser, TypeLeder, TypeBeslutt, TypeKall, TypeAvslutt DEF Next
<1>2. CASE UNCHANGED vars
  BY <1>2 DEF vars, dbVars, arkivVars, stromVars, execVars, faktaVars, TypeInv,
              TypeOK, MinneOK
<1> QED
  BY <1>1, <1>2

\* Every variable keeps its type, and what an executor has in hand is what its
\* place promises.
THEOREM TypeInvariant == Spec => []TypeInv
BY TypeInit, TypeSteg, PTL DEF Spec

\* Type correctness, for every set of commands, payloads, executors and bounds.
THEOREM Typekorrekthet == Spec => []TypeOK
<1>1. TypeInv => TypeOK
  BY DEF TypeInv
<1> QED
  BY <1>1, TypeInvariant, PTL

----------------------------------------------------------------------------
(* At most once *)


\* The statuses of an operation that an executor may pick.
Ventende == {"klar", "retry_venter", "blokkert"}
Underveis == {"kjorer", "sendt"}

\* Only the holder of the advisory lock is at work.
EnLeder == \A e \in Executorer : pc[e] # "stoppet" => lease = e

\* The executor's place and the row of its operation agree.
Fase ==
    \A e \in Executorer :
        LET st == status[minne[e].op]
            sendes == MutererArkivet(minne[e].op.type)
        IN  /\ pc[e] \in {"hentet", "les_sosken", "les_udekomponerte", "besluttet"}
               => st \in Ventende
            /\ pc[e] = "kjorer" => st = "kjorer"
            /\ pc[e] = "sendt" => sendes /\ st = "sendt"
            /\ pc[e] = "svar" => st = IF sendes THEN "sendt" ELSE "kjorer"

\* No effect of the operation in hand before the call, nor after a refusal.
UtenVirkning ==
    \A e \in Executorer :
        LET o == minne[e].op
        IN  /\ pc[e] = "sendt" => o \in tapte \/ virkning[o] = 0
            /\ pc[e] = "svar" /\ minne[e].svar # "ferdig"
               => o \in tapte \/ virkning[o] = 0

\* The safety part; the types are proved beside it.
Trygg ==
    /\ EnLeder
    /\ Fase
    /\ UtenVirkning
    /\ IngenForeldrelose
    /\ HoystEnVirkning
    /\ VirkningErSkrevet

----------------------------------------------------------------------------

LEMMA TryggInit == Init => Trygg
BY GrenseAntagelse
   DEF Init, Trygg, EnLeder, Fase, UtenVirkning, IngenForeldrelose, HoystEnVirkning,
       VirkningErSkrevet, Ventende

\* While one executor works, every other one is stopped.
LEMMA Alene ==
    ASSUME EnLeder, NEW e \in Executorer, pc[e] # "stoppet"
    PROVE  \A x \in Executorer \ {e} : pc[x] = "stoppet"
BY DEF EnLeder

\* A row that may be written over by an executor's step: not a terminal one.
\* (This makes KanSkrive, the table's check, a guard that never fails.)
LEMMA RadTilOperasjon ==
    ASSUME TypeInv, Fase, NEW e \in Executorer,
           pc[e] \in {"hentet", "les_sosken", "les_udekomponerte", "besluttet",
                      "kjorer", "sendt", "svar"}
    PROVE  /\ minne[e].op \in Operasjoner
           /\ status[minne[e].op] \in Ventende \cup Underveis
BY DEF TypeInv, MinneOK, MedOperasjon, Fase, Ventende, Underveis

LEMMA TryggOmgivelser ==
    ASSUME TypeInv, Trygg, Omgivelser
    PROVE  Trygg'
<1> USE DEF Trygg, EnLeder, Fase, UtenVirkning, IngenForeldrelose,
            HoystEnVirkning, VirkningErSkrevet
<1>1. CASE UNCHANGED <<status, apneForsok, lease, virkning, tapte, pc, minne>>
  BY <1>1
<1>2. ASSUME NEW K \in SUBSET dekomponert, Frigi(K)
      PROVE  Trygg'
  <2>1. UNCHANGED <<apneForsok, lease, virkning, tapte, pc, minne>>
    BY <1>2 DEF Frigi, arkivVars, execVars
  <2>2. \A o \in Operasjoner :
           /\ status[o] # "feilet" => status'[o] = status[o]
           /\ status[o] = "feilet" => status'[o] \in {"feilet", "klar"}
    BY <1>2 DEF Frigi, GjenopptattStatus
  <2>3. EnLeder' /\ UtenVirkning' /\ HoystEnVirkning'
    BY <2>1
  <2>4. Fase'
    <3> SUFFICES ASSUME NEW e \in Executorer,
                        pc[e] \in {"hentet", "les_sosken", "les_udekomponerte",
                                   "besluttet", "kjorer", "sendt", "svar"}
                 PROVE  status'[minne[e].op] = status[minne[e].op]
      BY <2>1
    <3> QED
      BY <2>2, RadTilOperasjon DEF Ventende, Underveis
  <2>5. IngenForeldrelose' /\ VirkningErSkrevet'
    BY <2>1, <2>2
  <2> QED
    BY <2>3, <2>4, <2>5
<1>3. CASE \E c \in Kommandoer : Motta(c) \/ LagreDekomponering(c)
  BY <1>1, <1>3 DEF Motta, LagreDekomponering, arkivVars, execVars
<1>4. CASE \E K \in SUBSET mottatt : Forkast(K)
  BY <1>1, <1>4 DEF Forkast, arkivVars, execVars
<1>5. CASE \E j \in Journalposter : Rpa(j)
  BY <1>1, <1>5 DEF Rpa, dbVars, execVars
<1> QED
  BY <1>2, <1>3, <1>4, <1>5 DEF Omgivelser

LEMMA TryggLeder ==
    ASSUME TypeInv, Trygg, NEW e \in Executorer, Leder(e) \/ Avbryt(e)
    PROVE  Trygg'
<1> USE DEF Trygg, EnLeder, Fase, UtenVirkning, IngenForeldrelose,
            HoystEnVirkning, VirkningErSkrevet
<1>1. pc \in [Executorer -> Steder] /\ minne \in [Executorer -> Minne]
  BY DEF TypeInv, TypeOK
<1>2. CASE TaLederskap(e)
  <2>1. \A x \in Executorer : pc[x] = "stoppet"
    BY <1>2, GrenseAntagelse DEF TaLederskap
  <2>2. /\ UNCHANGED <<status, apneForsok, virkning, tapte, minne>>
        /\ lease' = e
        /\ pc' = [pc EXCEPT ![e] = "gjenopprett"]
    BY <1>2 DEF TaLederskap, arkivVars, Ga
  <2> QED
    BY <1>1, <2>1, <2>2
<1>3. CASE Gjenopprett(e)
  <2>1. \A x \in Executorer \ {e} : pc[x] = "stoppet"
    BY <1>3, Alene DEF Gjenopprett
  <2>2. /\ UNCHANGED <<lease, virkning, tapte, minne>>
        /\ apneForsok' = {}
        /\ pc' = [pc EXCEPT ![e] = "hent_uvarslet"]
    BY <1>3 DEF Gjenopprett, arkivVars, Ga
  <2>3. \A o \in Operasjoner :
           /\ status'[o] \notin {"kjorer", "sendt"}
           /\ status[o] \in {"sendt", "ok", "krever_avklaring"}
              => status'[o] \in {"ok", "krever_avklaring"}
    BY <1>3 DEF Gjenopprett, Gjenopprettet
  <2> QED
    BY <1>1, <1>3, <2>1, <2>2, <2>3 DEF Gjenopprett
<1>4. CASE \/ HentUvarslet(e) \/ VarsleOperasjon(e) \/ VarsleKommando(e)
           \/ MarkerVarslet(e) \/ StartArbeid(e)
  <2>1. /\ \A x \in Executorer \ {e} : pc[x] = "stoppet"
        /\ pc[e] \notin {"stoppet", "gjenopprett", "kjorer", "sendt", "svar"}
    BY <1>4, Alene
       DEF HentUvarslet, VarsleOperasjon, VarsleKommando, MarkerVarslet, StartArbeid
  <2>2. /\ UNCHANGED <<status, apneForsok, lease, virkning, tapte>>
        /\ \E sted \in {"varsle", "varsle_kommando", "marker_varslet", "ledig"} :
              pc' = [pc EXCEPT ![e] = sted]
    BY <1>4
       DEF HentUvarslet, VarsleOperasjon, VarsleKommando, MarkerVarslet,
           StartArbeid, dbVars, arkivVars, Ga
  <2> QED
    BY <1>1, <2>1, <2>2
<1>5. CASE Avbryt(e)
  <2>1. \A x \in Executorer \ {e} : pc[x] = "stoppet"
    BY <1>5, Alene DEF Avbryt
  <2>2. /\ UNCHANGED <<status, apneForsok, virkning, tapte>>
        /\ pc' = [pc EXCEPT ![e] = "stoppet"]
    BY <1>5 DEF Avbryt, arkivVars, Ga
  <2> QED
    BY <1>1, <2>1, <2>2
<1> QED
  BY <1>2, <1>3, <1>4, <1>5 DEF Leder
\* Reading facts, siblings and commands does not change the operation in hand.
LEMMA SammeOperasjon ==
    ASSUME NEW m \in Minne, NEW x, NEW y
    PROVE  /\ [m EXCEPT !.sak = x].op = m.op
           /\ [m EXCEPT !.sak = x, !.beslutning = y].op = m.op
           /\ [m EXCEPT !.sosken = x].op = m.op
           /\ [m EXCEPT !.beslutning = x].op = m.op
           /\ [m EXCEPT !.svar = x].op = m.op
           /\ [m EXCEPT !.svar = x].svar = x
BY DEF Minne

LEMMA TryggBeslutt ==
    ASSUME TypeInv, Trygg, NEW e \in Executorer,
           Beslutt(e) \/ \E o \in Operasjoner : Hent(e, o)
    PROVE  Trygg'
<1> USE DEF Trygg, EnLeder, Fase, UtenVirkning, IngenForeldrelose,
            HoystEnVirkning, VirkningErSkrevet, Ga, Sett
<1> DEFINE op == minne[e].op
<1>1. /\ pc \in [Executorer -> Steder] /\ minne \in [Executorer -> Minne]
      /\ status \in [Operasjoner -> Statuser] /\ apneForsok \subseteq Operasjoner
  BY DEF TypeInv, TypeOK
<1>2. lease = e /\ \A x \in Executorer \ {e} : pc[x] = "stoppet"
  BY Alene
     DEF Beslutt, LesFakta, LesSosken, LesUdekomponerte, MarkerBlokkert,
         FullforAlleredeUtfort, MarkerUgyldig, MarkerKjorer, MarkerSendt, Hent
<1>3. ASSUME NEW o \in Operasjoner, Hent(e, o)
      PROVE  Trygg'
  <2>1. /\ UNCHANGED <<status, apneForsok, lease, virkning, tapte>>
        /\ pc' = [pc EXCEPT ![e] = "hentet"]
        /\ minne'[e].op = o
        /\ status[o] \in Ventende
    BY <1>1, <1>3 DEF Hent, dbVars, arkivVars, TomtMinne, Kjorbar, Ventende
  <2> QED
    BY <1>1, <1>2, <1>3, <2>1 DEF Hent
<1>4. CASE LesFakta(e) \/ LesSosken(e) \/ LesUdekomponerte(e)
  <2>1. /\ UNCHANGED <<status, apneForsok, lease, virkning, tapte>>
        /\ \E sted \in {"les_sosken", "les_udekomponerte", "besluttet"} :
              pc' = [pc EXCEPT ![e] = sted]
        /\ pc[e] \in {"hentet", "les_sosken", "les_udekomponerte"}
    BY <1>4 DEF LesFakta, LesSosken, LesUdekomponerte, dbVars, arkivVars
  <2>2. minne'[e].op = op
    <3>1. minne[e] \in Minne
      BY <1>1
    <3>2. CASE LesFakta(e)
      <4> DEFINE s == sak[SakTil(op)]
                 b == Vurder(op, s, jp, dok, Ingen)
      <4>1. /\ [minne[e] EXCEPT !.sak = s].op = op
            /\ [minne[e] EXCEPT !.sak = s, !.beslutning = b].op = op
        BY <3>1, SammeOperasjon
      <4>2. \/ minne'[e] = [minne[e] EXCEPT !.sak = s]
            \/ minne'[e] = [minne[e] EXCEPT !.sak = s, !.beslutning = b]
        BY <1>1, <3>2 DEF LesFakta
      <4> QED
        BY <4>1, <4>2
    <3>3. CASE LesSosken(e)
      BY <1>1, <3>1, <3>3, SammeOperasjon DEF LesSosken
    <3>4. CASE LesUdekomponerte(e)
      BY <1>1, <3>1, <3>4, SammeOperasjon DEF LesUdekomponerte
    <3> QED
      BY <1>4, <3>2, <3>3, <3>4
  <2> QED
    BY <1>1, <1>2, <2>1, <2>2
<1>5. ASSUME pc[e] = "besluttet",
             MarkerBlokkert(e) \/ FullforAlleredeUtfort(e) \/ MarkerUgyldig(e)
      PROVE  Trygg'
  <2>1. /\ op \in Operasjoner
        /\ status[op] \in Ventende
        /\ apneForsok = {}
    BY <1>1, <1>5, RadTilOperasjon
  <2>2. /\ UNCHANGED <<apneForsok, lease, virkning, tapte>>
        /\ \E st \in {"blokkert", "ok", "feilet"} :
              status' = [status EXCEPT ![op] = st]
        /\ \E sted \in {"ledig", "publiser"} : pc' = [pc EXCEPT ![e] = sted]
    BY <1>5
       DEF MarkerBlokkert, FullforAlleredeUtfort, MarkerUgyldig, SkrivStatus,
           arkivVars
  <2>3. op \in tapte \/ virkning[op] = 0
    BY <2>1 DEF TypeInv, TypeOK, Ventende
  <2>4. EnLeder' /\ HoystEnVirkning'
    BY <1>1, <1>2, <2>1, <2>2, <2>3
  <2>5. Fase'
    BY <1>1, <1>2, <2>1, <2>2, <2>3
  <2>6. UtenVirkning'
    BY <1>1, <1>2, <2>1, <2>2, <2>3
  <2>7. IngenForeldrelose'
    BY <1>1, <1>2, <2>1, <2>2, <2>3
  <2>8. VirkningErSkrevet'
    BY <1>1, <1>2, <2>1, <2>2, <2>3
  <2> QED
    BY <2>4, <2>5, <2>6, <2>7, <2>8
<1>6. CASE MarkerKjorer(e)
  <2>1. /\ op \in Operasjoner
        /\ status[op] \in Ventende
        /\ apneForsok = {}
    BY <1>1, <1>6, RadTilOperasjon DEF MarkerKjorer
  <2>2. /\ UNCHANGED <<lease, virkning, tapte, minne>>
        /\ apneForsok' = apneForsok \cup {op}
        /\ status' = [status EXCEPT ![op] = "kjorer"]
        /\ pc' = [pc EXCEPT ![e] = "kjorer"]
    BY <1>6 DEF MarkerKjorer, SkrivStatus, arkivVars
  <2>3. op \in tapte \/ virkning[op] = 0
    BY <2>1 DEF TypeInv, TypeOK, Ventende
  <2>4. EnLeder' /\ HoystEnVirkning'
    BY <1>1, <1>2, <2>1, <2>2, <2>3
  <2>5. Fase'
    BY <1>1, <1>2, <2>1, <2>2, <2>3
  <2>6. UtenVirkning'
    BY <1>1, <1>2, <2>1, <2>2, <2>3
  <2>7. IngenForeldrelose'
    BY <1>1, <1>2, <2>1, <2>2, <2>3
  <2>8. VirkningErSkrevet'
    BY <1>1, <1>2, <2>1, <2>2, <2>3
  <2> QED
    BY <2>4, <2>5, <2>6, <2>7, <2>8
<1>7. CASE MarkerSendt(e)
  <2>1. /\ op \in Operasjoner
        /\ status[op] = "kjorer" /\ MutererArkivet(op.type)
        /\ apneForsok = {op}
    BY <1>1, <1>7, RadTilOperasjon DEF MarkerSendt
  <2>2. /\ UNCHANGED <<apneForsok, lease, virkning, tapte, minne>>
        /\ status' = [status EXCEPT ![op] = "sendt"]
        /\ pc' = [pc EXCEPT ![e] = "sendt"]
    BY <1>7 DEF MarkerSendt, SkrivStatus, arkivVars
  <2>3. op \in tapte \/ virkning[op] = 0
    BY <2>1 DEF TypeInv, TypeOK
  <2>4. EnLeder' /\ HoystEnVirkning'
    BY <1>1, <1>2, <2>1, <2>2, <2>3
  <2>5. Fase'
    BY <1>1, <1>2, <2>1, <2>2, <2>3
  <2>6. UtenVirkning'
    BY <1>1, <1>2, <2>1, <2>2, <2>3
  <2>7. IngenForeldrelose'
    BY <1>1, <1>2, <2>1, <2>2, <2>3
  <2>8. VirkningErSkrevet'
    BY <1>1, <1>2, <2>1, <2>2, <2>3
  <2> QED
    BY <2>4, <2>5, <2>6, <2>7, <2>8
<1> QED
  BY <1>3, <1>4, <1>5, <1>6, <1>7
     DEF Beslutt, MarkerBlokkert, FullforAlleredeUtfort, MarkerUgyldig

LEMMA TryggKall ==
    ASSUME TypeInv, Trygg, NEW e \in Executorer, Kall(e)
    PROVE  Trygg'
<1> USE DEF Trygg, EnLeder, Fase, UtenVirkning, IngenForeldrelose,
            HoystEnVirkning, VirkningErSkrevet
<1> DEFINE op == minne[e].op
<1>1. /\ pc \in [Executorer -> Steder] /\ minne \in [Executorer -> Minne]
      /\ virkning \in [Operasjoner -> 0..MaksVirkning]
  BY DEF TypeInv, TypeOK
<1>2. KlarForKall(e)
  BY DEF Kall, KallLykkes, Render, Poll, ManglerAttributter, KallAvvises,
         KallFeilerForVirkning, SvarTapt
<1>3. lease = e /\ \A x \in Executorer \ {e} : pc[x] = "stoppet"
  BY <1>2, Alene DEF KlarForKall
<1>4. /\ op \in Operasjoner
      /\ pc[e] \in {"kjorer", "sendt"}
      /\ status[op] = pc[e]
      /\ status[op] = IF MutererArkivet(op.type) THEN "sendt" ELSE "kjorer"
      /\ op \in tapte \/ virkning[op] = 0
      /\ apneForsok \subseteq {op}
  <2>1. CASE pc[e] = "sendt"
    BY <1>2, <2>1, RadTilOperasjon
  <2>2. CASE pc[e] = "kjorer"
    BY <1>1, <1>2, <2>2, RadTilOperasjon DEF KlarForKall
  <2> QED
    BY <1>2, <2>1, <2>2 DEF KlarForKall
<1>5. /\ UNCHANGED <<status, apneForsok, lease>>
      /\ pc' = [pc EXCEPT ![e] = "svar"]
      /\ minne'[e].op = op
  BY <1>1
     DEF Kall, KallLykkes, Render, Poll, ManglerAttributter, KallAvvises,
         KallFeilerForVirkning, SvarTapt, Svare, Ga, Sett, Minne, dbVars
<1>6. CASE KallLykkes(e)
  <2>1. /\ virkning' = [virkning EXCEPT ![op] = @ + 1]
        /\ tapte' = tapte
        /\ minne'[e].svar = "ferdig"
    BY <1>1, <1>6 DEF KallLykkes, Virk, Svare, Sett, Minne
  <2>2. EnLeder' /\ HoystEnVirkning'
    BY <1>1, <1>3, <1>4, <1>5, <1>6, <2>1 DEF KallLykkes
  <2>3. Fase'
    BY <1>1, <1>3, <1>4, <1>5, <1>6, <2>1 DEF KallLykkes
  <2>4. UtenVirkning'
    BY <1>1, <1>3, <1>4, <1>5, <1>6, <2>1 DEF KallLykkes
  <2>5. IngenForeldrelose'
    BY <1>1, <1>3, <1>4, <1>5, <1>6, <2>1 DEF KallLykkes
  <2>6. VirkningErSkrevet'
    BY <1>1, <1>3, <1>4, <1>5, <1>6, <2>1 DEF KallLykkes
  <2> QED
    BY <2>2, <2>3, <2>4, <2>5, <2>6
<1>7. CASE SvarTapt(e)
  <2>1. /\ virkning' = [virkning EXCEPT ![op] = @ + 1]
        /\ tapte' = tapte \cup {op}
    BY <1>7 DEF SvarTapt, Virk
  <2>2. EnLeder' /\ HoystEnVirkning'
    BY <1>1, <1>3, <1>4, <1>5, <2>1
  <2>3. Fase'
    BY <1>1, <1>3, <1>4, <1>5, <2>1
  <2>4. UtenVirkning'
    BY <1>1, <1>3, <1>4, <1>5, <2>1
  <2>5. IngenForeldrelose'
    BY <1>1, <1>3, <1>4, <1>5, <2>1
  <2>6. VirkningErSkrevet'
    BY <1>1, <1>3, <1>4, <1>5, <2>1
  <2> QED
    BY <2>2, <2>3, <2>4, <2>5, <2>6
<1>8. CASE UNCHANGED arkivVars
  <2>1. UNCHANGED <<virkning, tapte>>
    BY <1>8 DEF arkivVars
  <2>2. EnLeder' /\ HoystEnVirkning'
    BY <1>1, <1>3, <1>4, <1>5, <2>1
  <2>3. Fase'
    BY <1>1, <1>3, <1>4, <1>5, <2>1
  <2>4. UtenVirkning'
    BY <1>1, <1>3, <1>4, <1>5, <2>1
  <2>5. IngenForeldrelose'
    BY <1>1, <1>3, <1>4, <1>5, <2>1
  <2>6. VirkningErSkrevet'
    BY <1>1, <1>3, <1>4, <1>5, <2>1
  <2> QED
    BY <2>2, <2>3, <2>4, <2>5, <2>6
<1> QED
  BY <1>6, <1>7, <1>8 DEF Kall, Render, Poll, ManglerAttributter, KallAvvises,
                          KallFeilerForVirkning

LEMMA TryggAvslutt ==
    ASSUME TypeInv, Trygg, NEW e \in Executorer, Avslutt(e)
    PROVE  Trygg'
<1> USE DEF Trygg, EnLeder, Fase, UtenVirkning, IngenForeldrelose,
            HoystEnVirkning, VirkningErSkrevet, Ga
<1> DEFINE op == minne[e].op
<1>1. /\ pc \in [Executorer -> Steder] /\ minne \in [Executorer -> Minne]
      /\ status \in [Operasjoner -> Statuser] /\ apneForsok \subseteq Operasjoner
      /\ virkning \in [Operasjoner -> 0..MaksVirkning]
  BY DEF TypeInv, TypeOK
<1>2. /\ pc[e] \notin {"stoppet", "gjenopprett"}
      /\ lease = e
      /\ \A x \in Executorer \ {e} : pc[x] = "stoppet"
  BY Alene DEF Avslutt, FullforOk, FullforPoll, MarkerRetry, MarkerFeilet,
               PubliserOperasjon, LesUtfall, PubliserKommando
<1>3. CASE FullforOk(e)
  <2>1. op \in Operasjoner /\ apneForsok \subseteq {op}
    BY <1>1, <1>3, RadTilOperasjon DEF FullforOk
  <2>2. /\ UNCHANGED <<lease, virkning, tapte>>
        /\ apneForsok' = apneForsok \ {op}
        /\ status' = [status EXCEPT ![op] = "ok"]
        /\ pc' = [pc EXCEPT ![e] = "publiser"]
    BY <1>3 DEF FullforOk, SkrivStatus, arkivVars
  <2> QED
    BY <1>1, <1>2, <2>1, <2>2
<1>4. ASSUME pc[e] = "svar", minne[e].svar # "ferdig",
             FullforPoll(e) \/ MarkerRetry(e) \/ MarkerFeilet(e)
      PROVE  Trygg'
  <2>1. op \in Operasjoner /\ apneForsok \subseteq {op}
    BY <1>1, <1>4, RadTilOperasjon
  <2>2. /\ UNCHANGED <<lease, virkning, tapte>>
        /\ apneForsok' = apneForsok \ {op}
        /\ \E st \in {"retry_venter", "feilet"} :
              status' = [status EXCEPT ![op] = st]
        /\ \E sted \in {"publiser", "ledig"} : pc' = [pc EXCEPT ![e] = sted]
    BY <1>4 DEF FullforPoll, MarkerRetry, MarkerFeilet, SkrivStatus, arkivVars
  <2>3. op \in tapte \/ virkning[op] = 0
    BY <1>4
  <2> QED
    BY <1>1, <1>2, <2>1, <2>2, <2>3
<1>5. CASE PubliserOperasjon(e) \/ LesUtfall(e) \/ PubliserKommando(e)
  <2>1. /\ UNCHANGED <<status, apneForsok, lease, virkning, tapte>>
        /\ pc[e] \in {"publiser", "les_utfall", "publiser_kommando"}
        /\ \E sted \in {"les_utfall", "publiser_kommando", "ledig"} :
              pc' = [pc EXCEPT ![e] = sted]
    BY <1>5 DEF PubliserOperasjon, LesUtfall, PubliserKommando, dbVars, arkivVars
  <2> QED
    BY <1>1, <1>2, <2>1
<1> QED
  BY <1>3, <1>4, <1>5 DEF Avslutt, FullforPoll, MarkerRetry, MarkerFeilet

LEMMA TryggSteg == TypeInv /\ Trygg /\ [Next]_vars => Trygg'
<1> SUFFICES ASSUME TypeInv, Trygg, [Next]_vars PROVE Trygg'
  OBVIOUS
<1>1. CASE Next
  BY <1>1, TryggOmgivelser, TryggLeder, TryggBeslutt, TryggKall, TryggAvslutt DEF Next
<1>2. CASE UNCHANGED vars
  BY <1>2 DEF vars, dbVars, arkivVars, execVars, Trygg, EnLeder, Fase,
              UtenVirkning, IngenForeldrelose, HoystEnVirkning, VirkningErSkrevet
<1> QED
  BY <1>1, <1>2

----------------------------------------------------------------------------

LEMMA TryggInvariant == Spec => []Trygg
BY TypeInvariant, TryggInit, TryggSteg, PTL DEF Spec

\* Whatever is interrupted, recovered, retried or released, by whichever
\* executor: no operation whose answer arrived has its effect made twice.
THEOREM HoystEnVirkningHolder == Spec => []HoystEnVirkning
<1>1. Trygg => HoystEnVirkning
  BY DEF Trygg
<1> QED
  BY <1>1, TryggInvariant, PTL

\* An operation with an effect in the archive is never one that the executor
\* would pick or an operator could release.
THEOREM VirkningErSkrevetHolder == Spec => []VirkningErSkrevet
<1>1. Trygg => VirkningErSkrevet
  BY DEF Trygg
<1> QED
  BY <1>1, TryggInvariant, PTL

\* An operation under way is in the hands of the leader or will be found by
\* recovery, and its attempt is open exactly as long.
THEOREM IngenForeldreloseHolder == Spec => []IngenForeldrelose
<1>1. Trygg => IngenForeldrelose
  BY DEF Trygg
<1> QED
  BY <1>1, TryggInvariant, PTL
----------------------------------------------------------------------------
(* What is final stays so *)

\* The executor writes over waiting rows and rows under way only; recovery
\* touches the latter, and an operator's retry the failed ones.
LEMMA StatusSteg ==
    ASSUME TypeInv, Trygg, Next, NEW o \in Operasjoner, status'[o] # status[o]
    PROVE  \/ status[o] \in Ventende \cup Underveis
           \/ /\ status[o] = "feilet" /\ status'[o] = "klar"
              /\ ~SakSperrerGjenopptak(RaderPaa(SakTil(o)), status)
<1> USE DEF Trygg
<1>1. ASSUME NEW K \in SUBSET dekomponert, Frigi(K)
      PROVE  /\ status[o] = "feilet" /\ status'[o] = "klar"
             /\ ~SakSperrerGjenopptak(RaderPaa(SakTil(o)), status)
  BY <1>1 DEF Frigi, GjenopptattStatus, SakTil
<1>2. ASSUME NEW e \in Executorer, Gjenopprett(e)
      PROVE  status[o] \in Underveis
  BY <1>2 DEF Gjenopprett, Gjenopprettet, Underveis
<1>3. ASSUME NEW e \in Executorer, NEW st, pc[e] \in {"besluttet", "kjorer", "svar"},
             SkrivStatus(minne[e].op, st)
      PROVE  status[o] \in Ventende \cup Underveis
  <2>1. o = minne[e].op
    BY <1>3 DEF SkrivStatus, TypeInv, TypeOK
  <2> QED
    BY <1>3, <2>1, RadTilOperasjon
<1>4. CASE Omgivelser
  BY <1>1, <1>4 DEF Omgivelser, Motta, LagreDekomponering, Forkast, Rpa, dbVars
<1>5. ASSUME NEW e \in Executorer, Leder(e) \/ Avbryt(e)
      PROVE  status[o] \in Underveis
  BY <1>2, <1>5
     DEF Leder, TaLederskap, HentUvarslet, VarsleOperasjon, VarsleKommando,
         MarkerVarslet, StartArbeid, Avbryt, dbVars
<1>6. ASSUME NEW e \in Executorer,
             Beslutt(e) \/ \E p \in Operasjoner : Hent(e, p)
      PROVE  status[o] \in Ventende \cup Underveis
  <2>1. CASE \/ MarkerBlokkert(e) \/ FullforAlleredeUtfort(e) \/ MarkerUgyldig(e)
             \/ MarkerKjorer(e)
    <3>1. /\ pc[e] = "besluttet"
          /\ \E st \in Statuser : SkrivStatus(minne[e].op, st)
      BY <2>1 DEF MarkerBlokkert, FullforAlleredeUtfort, MarkerUgyldig,
                  MarkerKjorer, Statuser
    <3> QED
      BY <1>3, <3>1
  <2>2. CASE MarkerSendt(e)
    BY <1>3, <2>2 DEF MarkerSendt
  <2>3. CASE \/ LesFakta(e) \/ LesSosken(e) \/ LesUdekomponerte(e)
             \/ \E p \in Operasjoner : Hent(e, p)
    BY <2>3 DEF LesFakta, LesSosken, LesUdekomponerte, Hent, dbVars
  <2> QED
    BY <1>6, <2>1, <2>2, <2>3 DEF Beslutt
<1>7. ASSUME NEW e \in Executorer, Kall(e)
      PROVE  FALSE
  BY <1>7 DEF Kall, KallLykkes, Render, Poll, ManglerAttributter, KallAvvises,
              KallFeilerForVirkning, SvarTapt, dbVars
<1>8. ASSUME NEW e \in Executorer, Avslutt(e)
      PROVE  status[o] \in Ventende \cup Underveis
  BY <1>3, <1>8
     DEF Avslutt, FullforOk, FullforPoll, MarkerRetry, MarkerFeilet,
         PubliserOperasjon, LesUtfall, PubliserKommando, dbVars
<1> QED
  BY <1>4, <1>5, <1>6, <1>7, <1>8 DEF Next

\* Done and unresolved are final; a failure is reopened only by an operator,
\* for a case without an unresolved outcome.
THEOREM FerdigErEndeligHolder == Spec => FerdigErEndelig
<1> DEFINE Endelig ==
      \A o \in Operasjoner :
         /\ status[o] \in {"ok", "krever_avklaring"} => status'[o] = status[o]
         /\ status[o] = "feilet" /\ status'[o] # "feilet"
            => /\ status'[o] = "klar"
               /\ \A q \in RaderPaa(SakTil(o)) : status[q] # "krever_avklaring"
<1>1. TypeInv /\ Trygg /\ [Next]_vars => [Endelig]_vars
  <2> SUFFICES ASSUME TypeInv, Trygg, Next PROVE Endelig
    OBVIOUS
  <2> QED
    BY StatusSteg DEF Ventende, Underveis, SakSperrerGjenopptak
<1> QED
  BY <1>1, TypeInvariant, TryggInvariant, PTL DEF Spec, FerdigErEndelig
----------------------------------------------------------------------------
(* What is made of an outcome                                              *)
(*                                                                         *)
(* An executor tells what it read or wrote some steps before.  It may do   *)
(* so because done and unresolved rows never change (StatusSteg) and the   *)
(* operations of a command come all at once (Dekomponer).                  *)
(*                                                                         *)
(* The refinement of Virkninger, at the end, rests on Trygg: the row of an *)
(* operation with an effect is sent, done or unresolved                    *)
(* (VirkningErSkrevet), so the abstract outcome can be read off the row,   *)
(* and the place of the executor agrees with it (Fase, UtenVirkning), so   *)
(* that each write of a row is one of the abstract steps.                  *)

Uavklart(c) == \E o \in RaderFor(c) : status[o] = "krever_avklaring"

\* What an executor is about to tell is true.
Budskap ==
    \A e \in Executorer :
        LET m == minne[e]
        IN  /\ pc[e] = "publiser"
               => /\ m.hendelse \in {"ok", "feilet", "forsok_feilet"}
                  /\ m.hendelse = "ok" => status[m.op] = "ok"
                  /\ status[m.op] # "krever_avklaring"
            /\ pc[e] \in {"varsle", "varsle_kommando", "marker_varslet"}
               => \A o \in m.uvarslet : status[o] = "krever_avklaring"
            /\ pc[e] \in {"varsle_kommando", "marker_varslet"}
               => opStatus[m.op] = "krever_avklaring"
            /\ pc[e] = "publiser_kommando"
               => /\ m.utfall = "fullfort" => Fullfort(m.op.kommando)
                  /\ m.utfall = "krever_avklaring" => Uavklart(m.op.kommando)

Strom == Budskap /\ StromErSann /\ VarsletErMeldt

----------------------------------------------------------------------------

LEMMA KommandoTil ==
    ASSUME NEW c \in Kommandoer, NEW o \in Dekomponer(c)
    PROVE  o.kommando = c
<1>1. CASE Payload[c].type = "opprett_journalpost"
  <2>1. \E type, entitet : o = Operasjon(c, type, entitet)
    BY <1>1 DEF Dekomponer, DekomponerJournalpost
  <2> QED
    BY <2>1 DEF Operasjon
<1>2. CASE Payload[c].type # "opprett_journalpost"
  BY <1>2 DEF Dekomponer, Operasjon
<1> QED
  BY <1>1, <1>2

\* Only decomposition gives a command its rows ...
LEMMA DekomponertAv ==
    ASSUME Next
    PROVE  dekomponert' = dekomponert \/ \E c \in Kommandoer : LagreDekomponering(c)
<1>1. CASE Omgivelser
  BY <1>1 DEF Omgivelser, Motta, LagreDekomponering, Frigi, Forkast, Rpa, dbVars
<1>2. ASSUME NEW e \in Executorer, Leder(e) \/ Avbryt(e)
      PROVE  dekomponert' = dekomponert
  BY <1>2 DEF Leder, TaLederskap, Gjenopprett, HentUvarslet, VarsleOperasjon,
              VarsleKommando, MarkerVarslet, StartArbeid, Avbryt, dbVars
<1>3. ASSUME NEW e \in Executorer,
             Beslutt(e) \/ \E o \in Operasjoner : Hent(e, o)
      PROVE  dekomponert' = dekomponert
  BY <1>3 DEF Beslutt, Hent, LesFakta, LesSosken, LesUdekomponerte,
              MarkerBlokkert, FullforAlleredeUtfort, MarkerUgyldig,
              MarkerKjorer, MarkerSendt, dbVars
<1>4. ASSUME NEW e \in Executorer, Kall(e)
      PROVE  dekomponert' = dekomponert
  BY <1>4 DEF Kall, KallLykkes, Render, Poll, ManglerAttributter, KallAvvises,
              KallFeilerForVirkning, SvarTapt, dbVars
<1>5. ASSUME NEW e \in Executorer, Avslutt(e)
      PROVE  dekomponert' = dekomponert
  BY <1>5 DEF Avslutt, FullforOk, FullforPoll, MarkerRetry, MarkerFeilet,
              PubliserOperasjon, LesUtfall, PubliserKommando, dbVars
<1> QED
  BY <1>1, <1>2, <1>3, <1>4, <1>5 DEF Next

\* ... and it takes none away.
LEMMA DekomponertSteg == Next => dekomponert \subseteq dekomponert'
BY DekomponertAv DEF LagreDekomponering

\* A completed command stays completed and an unresolved one unresolved.
LEMMA UtfallSteg ==
    ASSUME TypeInv, Trygg, Next, NEW c \in Kommandoer
    PROVE  /\ Fullfort(c) => Fullfort(c)'
           /\ Uavklart(c) => Uavklart(c)'
<1>1. \A o \in Operasjoner :
         status[o] \in {"ok", "krever_avklaring"} => status'[o] = status[o]
  BY StatusSteg DEF Ventende, Underveis
<1>2. RaderFor(c) \subseteq RaderFor(c)' /\ RaderFor(c) \subseteq Operasjoner
  BY DekomponertSteg DEF RaderFor, Rader
<1>3. RaderFor(c) # {} => RaderFor(c)' = RaderFor(c)
  BY <1>2, KommandoTil DEF RaderFor, Rader
<1> QED
  BY <1>1, <1>2, <1>3 DEF Fullfort, Uavklart

\* What the fold over a command's rows says is so.
LEMMA FoldSant ==
    ASSUME NEW c
    PROVE  /\ Fold(RaderFor(c), status) = "fullfort" => Fullfort(c)
           /\ Fold(RaderFor(c), status) = "krever_avklaring" => Uavklart(c)
BY DEF Fold, Fullfort, Uavklart

----------------------------------------------------------------------------

LEMMA StromInit == Init => Strom
BY DEF Init, Strom, Budskap, StromErSann, VarsletErMeldt

\* A step that tells nothing leaves the stream true.
LEMMA StromStille ==
    ASSUME TypeInv, Trygg, Strom, Next, UNCHANGED <<opStatus, kmdStatus, varslet>>
    PROVE  StromErSann' /\ VarsletErMeldt'
<1>1. \A o \in Operasjoner :
         status[o] \in {"ok", "krever_avklaring"} => status'[o] = status[o]
  BY StatusSteg DEF Ventende, Underveis
<1>2. \A c \in Kommandoer : /\ Fullfort(c) => Fullfort(c)'
                            /\ Uavklart(c) => Uavklart(c)'
  BY UtfallSteg
<1> QED
  BY <1>1, <1>2 DEF Strom, StromErSann, VarsletErMeldt, Uavklart

LEMMA StromOmgivelser ==
    ASSUME TypeInv, Trygg, Strom, Next, Omgivelser
    PROVE  Strom'
<1>1. UNCHANGED <<opStatus, kmdStatus, varslet, pc, minne>>
  BY DEF Omgivelser, Motta, LagreDekomponering, Frigi, Forkast, Rpa, dbVars,
         stromVars, execVars
<1>2. \A o \in Operasjoner : status'[o] # status[o] => status'[o] = "klar"
  BY DEF Omgivelser, Motta, LagreDekomponering, Frigi, Forkast, Rpa, dbVars,
         GjenopptattStatus
<1>3. \A o \in Operasjoner :
         status[o] \in {"ok", "krever_avklaring"} => status'[o] = status[o]
  BY StatusSteg DEF Ventende, Underveis
<1>4. Budskap'
  <2> SUFFICES ASSUME NEW e \in Executorer
               PROVE  /\ pc[e] = "publiser"
                         => /\ minne[e].hendelse \in {"ok", "feilet", "forsok_feilet"}
                            /\ minne[e].hendelse = "ok" => status'[minne[e].op] = "ok"
                            /\ status'[minne[e].op] # "krever_avklaring"
                      /\ pc[e] \in {"varsle", "varsle_kommando", "marker_varslet"}
                         => \A o \in minne[e].uvarslet :
                               status'[o] = "krever_avklaring"
                      /\ pc[e] \in {"varsle_kommando", "marker_varslet"}
                         => opStatus[minne[e].op] = "krever_avklaring"
                      /\ pc[e] = "publiser_kommando"
                         => /\ minne[e].utfall = "fullfort"
                               => Fullfort(minne[e].op.kommando)'
                            /\ minne[e].utfall = "krever_avklaring"
                               => Uavklart(minne[e].op.kommando)'
    BY <1>1 DEF Budskap
  <2>1. /\ pc[e] \in {"publiser", "publiser_kommando"} => minne[e].op \in Operasjoner
        /\ minne[e].uvarslet \subseteq Operasjoner
    BY DEF TypeInv, TypeOK, MinneOK, MedOperasjon, Minne
  <2>2. pc[e] = "publiser_kommando" => minne[e].op.kommando \in Kommandoer
    BY <2>1, OperasjonType
  <2>3. CASE pc[e] = "publiser"
    BY <1>2, <1>3, <2>1, <2>3 DEF Strom, Budskap
  <2>4. CASE pc[e] \in {"varsle", "varsle_kommando", "marker_varslet"}
    BY <1>3, <2>1, <2>4 DEF Strom, Budskap
  <2>5. CASE pc[e] = "publiser_kommando"
    <3>1. PICK c \in Kommandoer : c = minne[e].op.kommando
      BY <2>2, <2>5
    <3>2. c = minne'[e].op.kommando
      BY <1>1, <3>1
    <3>3. /\ minne[e].utfall = "fullfort" => Fullfort(c)
          /\ minne[e].utfall = "krever_avklaring" => Uavklart(c)
      BY <2>5, <3>1 DEF Strom, Budskap
    <3>4. /\ Fullfort(c) => Fullfort(c)'
          /\ Uavklart(c) => Uavklart(c)'
      BY UtfallSteg
    <3> QED
      BY <2>5, <3>2, <3>3, <3>4
  <2> QED
    BY <2>3, <2>4, <2>5
<1> QED
  BY <1>1, <1>4, StromStille DEF Strom

\* A step of the executor into a place where it tells nothing from memory.
LEMMA StromTaus ==
    ASSUME TypeInv, Trygg, Strom, Next, NEW e \in Executorer, pc'[e] \notin
             {"publiser", "varsle", "varsle_kommando", "marker_varslet",
              "publiser_kommando"},
           \A x \in Executorer \ {e} : pc'[x] = "stoppet"
    PROVE  Budskap'
BY DEF Budskap
LEMMA StromLeder ==
    ASSUME TypeInv, Trygg, Strom, Next, NEW e \in Executorer, Leder(e) \/ Avbryt(e)
    PROVE  Strom'
<1> DEFINE op == minne[e].op
<1>1. /\ pc \in [Executorer -> Steder] /\ minne \in [Executorer -> Minne]
      /\ opStatus \in [Operasjoner -> OpHendelser]
      /\ kmdStatus \in [Kommandoer -> KmdHendelser]
      /\ lease \in Executorer \cup {Ingen}
  BY DEF TypeInv, TypeOK
<1>2. \A x \in Executorer \ {e} : pc[x] = "stoppet" /\ pc'[x] = "stoppet"
  <2>1. CASE TaLederskap(e)
    BY <1>1, <2>1, GrenseAntagelse DEF TaLederskap, Trygg, EnLeder, Ga
  <2>2. CASE ~TaLederskap(e)
    BY <1>1, <2>2, Alene
       DEF Trygg, Leder, Gjenopprett, HentUvarslet, VarsleOperasjon, VarsleKommando,
           MarkerVarslet, StartArbeid, Avbryt, Ga
  <2> QED
    BY <2>1, <2>2
<1>3. CASE TaLederskap(e) \/ Gjenopprett(e) \/ StartArbeid(e) \/ Avbryt(e)
  <2>1. /\ UNCHANGED <<opStatus, kmdStatus, varslet>>
        /\ pc'[e] \in {"gjenopprett", "hent_uvarslet", "ledig", "stoppet"}
    BY <1>1, <1>3
       DEF TaLederskap, Gjenopprett, StartArbeid, Avbryt, Ga, stromVars, dbVars
  <2> QED
    BY <1>2, <2>1, StromTaus, StromStille DEF Strom
<1>4. CASE HentUvarslet(e)
  <2>1. /\ UNCHANGED <<status, opStatus, kmdStatus, varslet>>
        /\ pc'[e] = "varsle"
        /\ \A o \in minne'[e].uvarslet : status[o] = "krever_avklaring"
    BY <1>1, <1>4 DEF HentUvarslet, Ga, Sett, TomtMinne, dbVars, stromVars
  <2>2. Budskap'
    BY <1>2, <2>1 DEF Budskap
  <2> QED
    BY <2>1, <2>2, StromStille DEF Strom
<1>5. CASE VarsleOperasjon(e)
  <2>1. PICK o \in minne[e].uvarslet :
           /\ opStatus' = [opStatus EXCEPT ![o] = "krever_avklaring"]
           /\ minne' = [minne EXCEPT ![e] =
                          [minne[e] EXCEPT !.op = o, !.uvarslet = @ \ {o}]]
    BY <1>5 DEF VarsleOperasjon, Sett
  <2>2. o \in Operasjoner /\ status[o] = "krever_avklaring"
    BY <1>1, <1>5 DEF VarsleOperasjon, Strom, Budskap, Minne
  <2>3. /\ minne'[e].op = o
        /\ minne'[e].uvarslet \subseteq minne[e].uvarslet
    <3>1. minne[e] \in Minne
      BY <1>1
    <3> QED
      BY <1>1, <2>1, <3>1 DEF Minne
  <2>4. /\ UNCHANGED <<dbVars, kmdStatus>>
        /\ pc[e] = "varsle" /\ pc'[e] = "varsle_kommando"
    BY <1>1, <1>5 DEF VarsleOperasjon, Ga
  <2>5. Budskap'
    <3>1. opStatus'[o] = "krever_avklaring"
      BY <1>1, <2>1, <2>2
    <3> QED
      BY <1>2, <2>3, <2>4, <3>1 DEF Strom, Budskap, dbVars
  <2>6. StromErSann' /\ VarsletErMeldt'
    BY <1>1, <2>1, <2>2, <2>4
       DEF Strom, StromErSann, VarsletErMeldt, Fullfort, RaderFor, Rader, dbVars
  <2> QED
    BY <2>5, <2>6 DEF Strom
<1>6. CASE VarsleKommando(e)
  <2>1. /\ UNCHANGED <<dbVars, opStatus, minne>>
        /\ pc[e] = "varsle_kommando" /\ pc'[e] = "marker_varslet"
    BY <1>1, <1>6 DEF VarsleKommando, Ga
  <2>2. Budskap'
    BY <1>2, <2>1 DEF Strom, Budskap, dbVars
  <2>3. \A c \in Kommandoer :
           \/ kmdStatus'[c] = kmdStatus[c]
           \/ kmdStatus'[c] = "krever_avklaring" /\ Uavklart(c)
    BY <1>1, <1>6, FoldSant DEF VarsleKommando
  <2>4. StromErSann' /\ VarsletErMeldt'
    BY <2>1, <2>3
       DEF Strom, StromErSann, VarsletErMeldt, Uavklart, Fullfort, RaderFor, Rader,
           dbVars
  <2> QED
    BY <2>2, <2>4 DEF Strom
<1>7. CASE MarkerVarslet(e)
  <2>1. /\ UNCHANGED <<status, opStatus, kmdStatus, dekomponert>>
        /\ varslet' = varslet \cup {op}
        /\ pc[e] = "marker_varslet" /\ pc'[e] = "varsle"
    BY <1>1, <1>7 DEF MarkerVarslet, Ga, stromVars
  <2>2. minne'[e].uvarslet = minne[e].uvarslet
    <3>1. minne[e] \in Minne
      BY <1>1
    <3> QED
      BY <1>1, <1>7, <3>1 DEF MarkerVarslet, Sett, Minne
  <2>3. Budskap'
    BY <1>2, <2>1, <2>2 DEF Strom, Budskap
  <2>4. StromErSann' /\ VarsletErMeldt'
    BY <2>1
       DEF Strom, Budskap, StromErSann, VarsletErMeldt, Fullfort, RaderFor, Rader
  <2> QED
    BY <2>3, <2>4 DEF Strom
<1> QED
  BY <1>3, <1>4, <1>5, <1>6, <1>7 DEF Leder

LEMMA StromBeslutt ==
    ASSUME TypeInv, Trygg, Strom, Next, NEW e \in Executorer,
           Beslutt(e) \/ (\E o \in Operasjoner : Hent(e, o)) \/ Kall(e)
    PROVE  Strom'
<1> DEFINE op == minne[e].op
<1>1. /\ pc \in [Executorer -> Steder] /\ minne \in [Executorer -> Minne]
      /\ status \in [Operasjoner -> Statuser]
  BY DEF TypeInv, TypeOK
<1>2. /\ UNCHANGED <<opStatus, kmdStatus, varslet>>
      /\ \A x \in Executorer \ {e} : pc'[x] = "stoppet"
  <2>1. CASE Kall(e)
    BY <1>1, <2>1, Alene
       DEF Trygg, Kall, KallLykkes, Render, Poll, ManglerAttributter, KallAvvises,
           KallFeilerForVirkning, SvarTapt, Svare, Ga, KlarForKall, dbVars, stromVars
  <2>2. CASE ~Kall(e)
    BY <1>1, <2>2, Alene
       DEF Trygg, Beslutt, Hent, LesFakta, LesSosken, LesUdekomponerte,
           MarkerBlokkert, FullforAlleredeUtfort, MarkerUgyldig, MarkerKjorer,
           MarkerSendt, Ga, dbVars, stromVars
  <2> QED
    BY <2>1, <2>2
<1>3. CASE pc'[e] # "publiser"
  <2>1. pc'[e] \in {"hentet", "les_sosken", "les_udekomponerte", "besluttet",
                    "kjorer", "sendt", "svar", "ledig"}
    BY <1>1, <1>3
       DEF Beslutt, Hent, LesFakta, LesSosken, LesUdekomponerte, MarkerBlokkert,
           FullforAlleredeUtfort, MarkerUgyldig, MarkerKjorer, MarkerSendt, Ga,
           Kall, KallLykkes, Render, Poll, ManglerAttributter, KallAvvises,
           KallFeilerForVirkning, SvarTapt, Svare
  <2> QED
    BY <1>2, <2>1, StromTaus, StromStille DEF Strom
<1>4. CASE FullforAlleredeUtfort(e) \/ MarkerUgyldig(e)
  <2>1. PICK h \in {"ok", "feilet"} :
           /\ status' = [status EXCEPT ![op] = h]
           /\ minne' = [minne EXCEPT ![e] = [minne[e] EXCEPT !.hendelse = h]]
    BY <1>4 DEF FullforAlleredeUtfort, MarkerUgyldig, SkrivStatus, Sett
  <2>2. op \in Operasjoner /\ pc'[e] = "publiser"
    BY <1>1, <1>4, RadTilOperasjon
       DEF Trygg, FullforAlleredeUtfort, MarkerUgyldig, Ga
  <2>3. minne'[e].op = op /\ minne'[e].hendelse = h
    <3>1. minne[e] \in Minne
      BY <1>1
    <3> QED
      BY <1>1, <2>1, <3>1 DEF Minne
  <2>4. Budskap'
    BY <1>1, <1>2, <2>1, <2>2, <2>3 DEF Budskap
  <2> QED
    BY <1>2, <2>4, StromStille DEF Strom
<1> QED
  BY <1>1, <1>3, <1>4
     DEF Beslutt, Hent, LesFakta, LesSosken, LesUdekomponerte, MarkerBlokkert,
         MarkerKjorer, MarkerSendt, Ga, Kall, KallLykkes, Render, Poll,
         ManglerAttributter, KallAvvises, KallFeilerForVirkning, SvarTapt, Svare

LEMMA StromAvslutt ==
    ASSUME TypeInv, Trygg, Strom, Next, NEW e \in Executorer, Avslutt(e)
    PROVE  Strom'
<1> DEFINE op == minne[e].op
<1>1. /\ pc \in [Executorer -> Steder] /\ minne \in [Executorer -> Minne]
      /\ status \in [Operasjoner -> Statuser]
      /\ opStatus \in [Operasjoner -> OpHendelser]
      /\ kmdStatus \in [Kommandoer -> KmdHendelser]
      /\ minne[e] \in Minne
  BY DEF TypeInv, TypeOK
<1>2. /\ varslet' = varslet
      /\ \A x \in Executorer \ {e} : pc'[x] = "stoppet"
  BY <1>1, Alene
     DEF Trygg, Avslutt, FullforOk, FullforPoll, MarkerRetry, MarkerFeilet,
         PubliserOperasjon, LesUtfall, PubliserKommando, Ga, dbVars
<1>3. CASE FullforOk(e) \/ MarkerRetry(e) \/ MarkerFeilet(e)
  <2>1. PICK st \in {"ok", "retry_venter", "feilet"},
             h \in {"ok", "forsok_feilet", "feilet"} :
           /\ h = "ok" => st = "ok"
           /\ status' = [status EXCEPT ![op] = st]
           /\ minne' = [minne EXCEPT ![e] = [minne[e] EXCEPT !.hendelse = h]]
    BY <1>3 DEF FullforOk, MarkerRetry, MarkerFeilet, SkrivStatus, Sett
  <2>2. /\ UNCHANGED <<opStatus, kmdStatus>>
        /\ op \in Operasjoner /\ pc'[e] = "publiser"
    BY <1>1, <1>3, RadTilOperasjon
       DEF Trygg, FullforOk, MarkerRetry, MarkerFeilet, Ga, stromVars
  <2>3. minne'[e].op = op /\ minne'[e].hendelse = h
    BY <1>1, <2>1 DEF Minne
  <2>4. Budskap'
    BY <1>1, <1>2, <2>1, <2>2, <2>3 DEF Budskap
  <2> QED
    BY <1>2, <2>2, <2>4, StromStille DEF Strom
<1>4. CASE FullforPoll(e)
  <2>1. UNCHANGED <<opStatus, kmdStatus>> /\ pc'[e] = "ledig"
    BY <1>1, <1>4 DEF FullforPoll, Ga, stromVars
  <2> QED
    BY <1>2, <2>1, StromTaus, StromStille DEF Strom
<1>5. CASE PubliserOperasjon(e)
  <2>1. /\ UNCHANGED <<dbVars, kmdStatus>>
        /\ opStatus' = [opStatus EXCEPT ![op] = minne[e].hendelse]
        /\ pc[e] = "publiser" /\ pc'[e] \in {"les_utfall", "ledig"}
    BY <1>1, <1>5 DEF PubliserOperasjon, Ga
  <2>2. StromErSann' /\ VarsletErMeldt'
    BY <1>1, <2>1
       DEF Strom, Budskap, StromErSann, VarsletErMeldt, Fullfort, RaderFor, Rader,
           dbVars, TypeInv, TypeOK
  <2> QED
    BY <1>2, <2>1, <2>2, StromTaus DEF Strom
<1>6. CASE LesUtfall(e)
  <2> DEFINE utfall == Fold(RaderFor(op.kommando), status)
  <2>1. UNCHANGED <<dbVars, opStatus, kmdStatus>>
    BY <1>6 DEF LesUtfall, stromVars
  <2>2. \/ pc'[e] = "ledig"
        \/ /\ pc'[e] = "publiser_kommando"
           /\ minne' = [minne EXCEPT ![e] = [minne[e] EXCEPT !.utfall = utfall]]
    BY <1>1, <1>6 DEF LesUtfall, Ga, Sett
  <2>3. CASE pc'[e] = "ledig"
    BY <1>2, <2>1, <2>3, StromTaus, StromStille DEF Strom
  <2>4. CASE pc'[e] # "ledig"
    <3>1. minne'[e].op = op /\ minne'[e].utfall = utfall
      BY <1>1, <2>2, <2>4 DEF Minne
    <3>2. UNCHANGED <<dekomponert, status>>
      BY <2>1 DEF dbVars
    <3>3. /\ utfall = "fullfort" => Fullfort(op.kommando)'
          /\ utfall = "krever_avklaring" => Uavklart(op.kommando)'
      <4>1. /\ utfall = "fullfort" => Fullfort(op.kommando)
            /\ utfall = "krever_avklaring" => Uavklart(op.kommando)
        BY FoldSant
      <4> QED
        BY <3>1, <3>2, <4>1 DEF Fullfort, Uavklart, RaderFor, Rader
    <3>4. Budskap'
      BY <1>2, <2>2, <2>4, <3>1, <3>3 DEF Budskap
    <3> QED
      BY <1>2, <2>1, <3>4, StromStille DEF Strom
  <2> QED
    BY <2>3, <2>4
<1>7. CASE PubliserKommando(e)
  <2>1. /\ UNCHANGED <<dbVars, opStatus>>
        /\ kmdStatus' = [kmdStatus EXCEPT ![op.kommando] = minne[e].utfall]
        /\ pc[e] = "publiser_kommando" /\ pc'[e] = "ledig"
    BY <1>1, <1>7 DEF PubliserKommando, Ga
  <2>2. StromErSann' /\ VarsletErMeldt'
    BY <1>1, <2>1
       DEF Strom, Budskap, StromErSann, VarsletErMeldt, Fullfort, Uavklart,
           RaderFor, Rader, dbVars
  <2> QED
    BY <1>2, <2>1, <2>2, StromTaus DEF Strom
<1> QED
  BY <1>3, <1>4, <1>5, <1>6, <1>7 DEF Avslutt

LEMMA StromSteg == TypeInv /\ Trygg /\ Strom /\ [Next]_vars => Strom'
<1> SUFFICES ASSUME TypeInv, Trygg, Strom, [Next]_vars PROVE Strom'
  OBVIOUS
<1>1. CASE Next
  BY <1>1, StromOmgivelser, StromLeder, StromBeslutt, StromAvslutt DEF Next
<1>2. CASE UNCHANGED vars
  BY <1>2 DEF vars, dbVars, stromVars, execVars, Strom, Budskap, StromErSann,
              VarsletErMeldt, Fullfort, Uavklart, RaderFor, Rader
<1> QED
  BY <1>1, <1>2

LEMMA StromInvariant == Spec => []Strom
BY TypeInvariant, TryggInvariant, StromInit, StromSteg, PTL DEF Spec

\* Whoever was interrupted where, a client that has been told done or
\* unresolved has been told what the database says, now and later.
THEOREM StromErSannHolder == Spec => []StromErSann
<1>1. Strom => StromErSann
  BY DEF Strom
<1> QED
  BY <1>1, StromInvariant, PTL

\* No unresolved outcome is marked as told without having been told.
THEOREM VarsletErMeldtHolder == Spec => []VarsletErMeldt
<1>1. Strom => VarsletErMeldt
  BY DEF Strom
<1> QED
  BY <1>1, StromInvariant, PTL

----------------------------------------------------------------------------
(* The refinement of Virkninger *)


Oversatt == [o \in Virkende |-> Utfallet(o)]

\* One operation goes an abstract step or stands still.
Gaar(o) == \/ Utfallet(o)' = Utfallet(o)
           \/ <<Utfallet(o), Utfallet(o)'>> \in Abstrakt!Overganger

LEMMA UtfalletType ==
    ASSUME NEW o \in Virkende
    PROVE  Utfallet(o) \in Abstrakt!Utfallene
BY DEF Utfallet, Abstrakt!Utfallene

\* A step that leaves the row and the archive's effect alone is a stutter.
LEMMA UroertStille ==
    ASSUME NEW o \in Virkende,
           status'[o] = status[o], virkning'[o] = virkning[o],
           o \in tapte' <=> o \in tapte
    PROVE  Gaar(o)
BY DEF Gaar, Utfallet

LEMMA GaarOmgivelser ==
    ASSUME TypeInv, Trygg, Omgivelser, NEW o \in Virkende
    PROVE  Gaar(o)
<1>1. ASSUME NEW K \in SUBSET dekomponert, Frigi(K)
      PROVE  Gaar(o)
  <2>1. /\ o \in Operasjoner
        /\ UNCHANGED <<virkning, tapte>>
        /\ \/ status'[o] = status[o]
           \/ status[o] = "feilet" /\ status'[o] = "klar"
    BY <1>1 DEF Frigi, GjenopptattStatus, arkivVars, Virkende
  <2> QED
    BY <2>1 DEF Gaar, Utfallet, Abstrakt!Overganger
<1>2. CASE UNCHANGED <<status, virkning, tapte>>
  BY <1>2, UroertStille
<1> QED
  BY <1>1, <1>2 DEF Omgivelser, Motta, LagreDekomponering, Forkast, Rpa,
                    dbVars, arkivVars

LEMMA GaarLeder ==
    ASSUME TypeInv, Trygg, NEW e \in Executorer, Leder(e) \/ Avbryt(e),
           NEW o \in Virkende
    PROVE  Gaar(o)
<1>1. CASE Gjenopprett(e)
  <2>1. /\ o \in Operasjoner
        /\ UNCHANGED <<virkning, tapte>>
        /\ status'[o] = Gjenopprettet(status[o])
    BY <1>1 DEF Gjenopprett, arkivVars, Virkende
  <2> QED
    BY <2>1 DEF Gaar, Utfallet, Abstrakt!Overganger, Gjenopprettet
<1>2. CASE UNCHANGED <<status, virkning, tapte>>
  BY <1>2, UroertStille
<1> QED
  BY <1>1, <1>2
     DEF Leder, TaLederskap, HentUvarslet, VarsleOperasjon, VarsleKommando,
         MarkerVarslet, StartArbeid, Avbryt, dbVars, arkivVars

LEMMA GaarBeslutt ==
    ASSUME TypeInv, Trygg, NEW e \in Executorer,
           Beslutt(e) \/ \E p \in Operasjoner : Hent(e, p), NEW o \in Virkende
    PROVE  Gaar(o)
<1> DEFINE op == minne[e].op
<1>0. o \in Operasjoner /\ status \in [Operasjoner -> Statuser]
  BY DEF Virkende, TypeInv, TypeOK
<1>1. ASSUME pc[e] = "besluttet",
             NEW st \in {"blokkert", "ok", "feilet", "kjorer"},
             SkrivStatus(op, st), UNCHANGED <<virkning, tapte>>
      PROVE  Gaar(o)
  <2>1. status[op] \in Ventende
    BY <1>1 DEF Trygg, Fase
  <2>2. CASE o = op
    <3>1. status'[o] = st /\ status[o] \in Ventende
      BY <1>0, <1>1, <2>1, <2>2 DEF SkrivStatus
    <3> QED
      BY <1>1, <3>1 DEF Gaar, Utfallet, Abstrakt!Overganger, Ventende
  <2>3. CASE o # op
    BY <1>0, <1>1, <2>3, UroertStille DEF SkrivStatus
  <2> QED
    BY <2>2, <2>3
<1>2. CASE MarkerSendt(e)
  <2>1. /\ status[op] = "kjorer"
        /\ status' = [status EXCEPT ![op] = "sendt"]
        /\ UNCHANGED <<virkning, tapte>>
    BY <1>2 DEF MarkerSendt, SkrivStatus, arkivVars, Trygg, Fase
  <2>2. CASE o = op
    <3>1. o \in tapte \/ ~(virkning[o] > 0)
      BY <1>0, <2>1, <2>2 DEF Trygg, VirkningErSkrevet
    <3> QED
      BY <1>0, <2>1, <2>2, <3>1 DEF Gaar, Utfallet, Abstrakt!Overganger
  <2>3. CASE o # op
    BY <1>0, <2>1, <2>3, UroertStille
  <2> QED
    BY <2>2, <2>3
<1>3. CASE \/ MarkerBlokkert(e) \/ FullforAlleredeUtfort(e) \/ MarkerUgyldig(e)
           \/ MarkerKjorer(e)
  BY <1>1, <1>3 DEF MarkerBlokkert, FullforAlleredeUtfort, MarkerUgyldig,
                    MarkerKjorer, arkivVars
<1>4. CASE UNCHANGED <<status, virkning, tapte>>
  BY <1>4, UroertStille
<1> QED
  BY <1>2, <1>3, <1>4
     DEF Beslutt, LesFakta, LesSosken, LesUdekomponerte, Hent, dbVars, arkivVars

LEMMA GaarKall ==
    ASSUME TypeInv, Trygg, NEW e \in Executorer, Kall(e), NEW o \in Virkende
    PROVE  Gaar(o)
<1> DEFINE op == minne[e].op
<1>0. /\ o \in Operasjoner
      /\ virkning \in [Operasjoner -> 0..MaksVirkning]
  BY DEF Virkende, TypeInv, TypeOK
<1>1. ASSUME KlarForKall(e), MutererArkivet(op.type), UNCHANGED status,
             virkning' = [virkning EXCEPT ![op] = @ + 1],
             tapte' = tapte \/ tapte' = tapte \cup {op}
      PROVE  Gaar(o)
  <2>1. CASE o = op
    <3>1. /\ status[o] = "sendt"
          /\ o \in tapte \/ virkning[o] = 0
      BY <1>1, <2>1 DEF KlarForKall, Trygg, Fase, UtenVirkning
    <3>2. virkning'[o] > 0
      BY <1>0, <1>1, <2>1
    <3> QED
      BY <1>1, <2>1, <3>1, <3>2 DEF Gaar, Utfallet, Abstrakt!Overganger
  <2>2. CASE o # op
    BY <1>0, <1>1, <2>2, UroertStille
  <2> QED
    BY <2>1, <2>2
<1>2. CASE KallLykkes(e) \/ SvarTapt(e)
  BY <1>1, <1>2 DEF KallLykkes, SvarTapt, Virk, dbVars
<1>3. CASE UNCHANGED <<status, virkning, tapte>>
  BY <1>3, UroertStille
<1> QED
  BY <1>2, <1>3
     DEF Kall, Render, Poll, ManglerAttributter, KallAvvises,
         KallFeilerForVirkning, dbVars, arkivVars

\* A successful answer has an effect behind it.
SvarHarVirkning ==
    \A e \in Executorer :
        /\ pc[e] = "svar" /\ minne[e].svar = "ferdig"
        /\ MutererArkivet(minne[e].op.type)
        => virkning[minne[e].op] > 0

\* Effects are never undone.
LEMMA VirkningVokser ==
    ASSUME TypeInv, Next, NEW o \in Operasjoner, virkning[o] > 0
    PROVE  virkning'[o] > 0
<1>1. virkning \in [Operasjoner -> 0..MaksVirkning]
  BY DEF TypeInv, TypeOK
<1>2. CASE UNCHANGED virkning
  BY <1>2
<1>3. ASSUME NEW e \in Executorer, KallLykkes(e) \/ SvarTapt(e)
      PROVE  virkning'[o] > 0
  BY <1>1, <1>3 DEF KallLykkes, SvarTapt, Virk
<1>4. CASE Omgivelser
  BY <1>2, <1>4 DEF Omgivelser, Motta, LagreDekomponering, Frigi, Forkast, Rpa, arkivVars
<1>5. ASSUME NEW e \in Executorer, Leder(e) \/ Avbryt(e)
      PROVE  virkning'[o] > 0
  BY <1>2, <1>5
     DEF Leder, TaLederskap, Gjenopprett, HentUvarslet, VarsleOperasjon,
         VarsleKommando, MarkerVarslet, StartArbeid, Avbryt, arkivVars
<1>6. ASSUME NEW e \in Executorer,
             Beslutt(e) \/ \E p \in Operasjoner : Hent(e, p)
      PROVE  virkning'[o] > 0
  BY <1>2, <1>6
     DEF Beslutt, LesFakta, LesSosken, LesUdekomponerte, MarkerBlokkert,
         FullforAlleredeUtfort, MarkerUgyldig, MarkerKjorer, MarkerSendt, Hent,
         arkivVars
<1>7. ASSUME NEW e \in Executorer, Kall(e)
      PROVE  virkning'[o] > 0
  BY <1>2, <1>3, <1>7
     DEF Kall, Render, Poll, ManglerAttributter, KallAvvises,
         KallFeilerForVirkning, arkivVars
<1>8. ASSUME NEW e \in Executorer, Avslutt(e)
      PROVE  virkning'[o] > 0
  BY <1>2, <1>8
     DEF Avslutt, FullforOk, FullforPoll, MarkerRetry, MarkerFeilet,
         PubliserOperasjon, LesUtfall, PubliserKommando, arkivVars
<1> QED
  BY <1>4, <1>5, <1>6, <1>7, <1>8 DEF Next

\* An executor comes to an answer only by its own call; while it holds the
\* answer, nobody changes what it remembers.
LEMMA SvarSteg ==
    ASSUME TypeInv, Next, NEW x \in Executorer, pc'[x] = "svar"
    PROVE  \/ pc[x] = "svar" /\ minne'[x] = minne[x]
           \/ Kall(x)
<1>1. /\ pc \in [Executorer -> Steder]
      /\ minne \in [Executorer -> Minne]
  BY DEF TypeInv, TypeOK
<1>2. CASE Omgivelser
  BY <1>2 DEF Omgivelser, Motta, LagreDekomponering, Frigi, Forkast, Rpa, execVars
<1>3. ASSUME NEW e \in Executorer, Leder(e) \/ Avbryt(e)
      PROVE  pc[x] = "svar" /\ minne'[x] = minne[x]
  BY <1>1, <1>3
     DEF Leder, TaLederskap, Gjenopprett, HentUvarslet, VarsleOperasjon,
         VarsleKommando, MarkerVarslet, StartArbeid, Avbryt, Ga, Sett
<1>4. ASSUME NEW e \in Executorer,
             Beslutt(e) \/ \E p \in Operasjoner : Hent(e, p)
      PROVE  pc[x] = "svar" /\ minne'[x] = minne[x]
  BY <1>1, <1>4
     DEF Beslutt, LesFakta, LesSosken, LesUdekomponerte, MarkerBlokkert,
         FullforAlleredeUtfort, MarkerUgyldig, MarkerKjorer, MarkerSendt, Hent,
         Ga, Sett
<1>5. ASSUME NEW e \in Executorer, Kall(e), e # x
      PROVE  pc[x] = "svar" /\ minne'[x] = minne[x]
  BY <1>1, <1>5
     DEF Kall, KallLykkes, Render, Poll, ManglerAttributter, KallAvvises,
         KallFeilerForVirkning, SvarTapt, Svare, Ga, Sett
<1>6. ASSUME NEW e \in Executorer, Avslutt(e)
      PROVE  pc[x] = "svar" /\ minne'[x] = minne[x]
  BY <1>1, <1>6
     DEF Avslutt, FullforOk, FullforPoll, MarkerRetry, MarkerFeilet,
         PubliserOperasjon, LesUtfall, PubliserKommando, Ga, Sett
<1> QED
  BY <1>2, <1>3, <1>4, <1>5, <1>6 DEF Next

LEMMA SvarHarVirkningSteg ==
    TypeInv /\ Trygg /\ SvarHarVirkning /\ [Next]_vars => SvarHarVirkning'
<1> SUFFICES ASSUME TypeInv, Trygg, SvarHarVirkning, [Next]_vars,
                    NEW x \in Executorer, pc'[x] = "svar",
                    minne'[x].svar = "ferdig",
                    MutererArkivet(minne'[x].op.type)
             PROVE  virkning'[minne'[x].op] > 0
  BY DEF SvarHarVirkning
<1> DEFINE op == minne[x].op
<1>1. CASE UNCHANGED vars
  BY <1>1 DEF vars, execVars, arkivVars, SvarHarVirkning
<1>2. ASSUME Next, pc[x] = "svar", minne'[x] = minne[x]
      PROVE  virkning'[minne'[x].op] > 0
  <2>1. op \in Operasjoner
    BY <1>2, RadTilOperasjon DEF Trygg
  <2> QED
    BY <1>2, <2>1, VirkningVokser DEF SvarHarVirkning
<1>3. CASE Kall(x)
  <2>1. /\ minne[x] \in Minne
        /\ minne \in [Executorer -> Minne]
        /\ virkning \in [Operasjoner -> 0..MaksVirkning]
        /\ KlarForKall(x)
    BY <1>3 DEF TypeInv, TypeOK, Kall, KallLykkes, Render, Poll,
                ManglerAttributter, KallAvvises, KallFeilerForVirkning, SvarTapt
  <2>2. op \in Operasjoner
    BY <2>1, RadTilOperasjon DEF Trygg, KlarForKall
  <2>3. minne'[x].op = op
    BY <1>3, <2>1
       DEF Kall, KallLykkes, Render, Poll, ManglerAttributter, KallAvvises,
           KallFeilerForVirkning, SvarTapt, Svare, Sett, Minne
  <2>4. CASE KallLykkes(x) \/ SvarTapt(x)
    BY <2>1, <2>2, <2>3, <2>4 DEF KallLykkes, SvarTapt, Virk
  <2>5. CASE Render(x) \/ Poll(x)
    BY <2>3, <2>5 DEF Render, Poll, MutererArkivet, IdempotenteTyper
  <2>6. CASE ManglerAttributter(x) \/ KallAvvises(x) \/ KallFeilerForVirkning(x)
    <3>1. minne'[x].svar \in {"irrecoverable", "recoverable"}
      BY <2>1, <2>6
         DEF ManglerAttributter, KallAvvises, KallFeilerForVirkning, Svare, Sett,
             Minne
    <3> QED
      BY <3>1
  <2> QED
    BY <1>3, <2>4, <2>5, <2>6 DEF Kall
<1> QED
  BY <1>1, <1>2, <1>3, SvarSteg

LEMMA SvarHarVirkningHolder == Spec => []SvarHarVirkning
<1>1. Init => SvarHarVirkning
  BY DEF Init, SvarHarVirkning
<1> QED
  BY <1>1, TypeInvariant, TryggInvariant, SvarHarVirkningSteg, PTL DEF Spec

LEMMA GaarAvslutt ==
    ASSUME TypeInv, Trygg, SvarHarVirkning,
           NEW e \in Executorer, Avslutt(e), NEW o \in Virkende
    PROVE  Gaar(o)
<1> DEFINE op == minne[e].op
<1>0. /\ o \in Operasjoner
      /\ status \in [Operasjoner -> Statuser]
      /\ MutererArkivet(o.type)
  BY DEF Virkende, TypeInv, TypeOK
<1>1. ASSUME pc[e] = "svar", NEW st \in {"ok", "retry_venter", "feilet"},
             st = "ok" <=> minne[e].svar = "ferdig",
             SkrivStatus(op, st), UNCHANGED <<virkning, tapte>>
      PROVE  Gaar(o)
  <2>1. CASE o = op
    <3>1. status[o] = "sendt" /\ status'[o] = st
      BY <1>0, <1>1, <2>1 DEF Trygg, Fase, SkrivStatus
    <3>2. st # "ok" => o \in tapte \/ ~(virkning[o] > 0)
      BY <1>1, <2>1 DEF Trygg, UtenVirkning
    <3>3. st = "ok" => virkning[o] > 0
      BY <1>0, <1>1, <2>1 DEF SvarHarVirkning
    <3> QED
      BY <1>1, <3>1, <3>2, <3>3 DEF Gaar, Utfallet, Abstrakt!Overganger
  <2>2. CASE o # op
    BY <1>0, <1>1, <2>2, UroertStille DEF SkrivStatus
  <2> QED
    BY <2>1, <2>2
<1>2. CASE FullforOk(e)
  BY <1>1, <1>2 DEF FullforOk, arkivVars
<1>3. CASE FullforPoll(e) \/ MarkerRetry(e)
  BY <1>1, <1>3 DEF FullforPoll, MarkerRetry, arkivVars
<1>4. CASE MarkerFeilet(e)
  BY <1>1, <1>4 DEF MarkerFeilet, arkivVars
<1>5. CASE PubliserOperasjon(e) \/ LesUtfall(e) \/ PubliserKommando(e)
  BY <1>5, UroertStille
     DEF PubliserOperasjon, LesUtfall, PubliserKommando, dbVars, arkivVars
<1> QED
  BY <1>2, <1>3, <1>4, <1>5 DEF Avslutt

LEMMA GaarAlle ==
    ASSUME TypeInv, Trygg, SvarHarVirkning, Next, NEW o \in Virkende
    PROVE  Gaar(o)
BY GaarOmgivelser, GaarLeder, GaarBeslutt, GaarKall, GaarAvslutt DEF Next

LEMMA LoefteStart == Init => Abstrakt!LoefteInit
BY DEF Init, Abstrakt!LoefteInit, Utfallet, Virkende

LEMMA LoefteSteg ==
    TypeInv /\ Trygg /\ SvarHarVirkning /\ [Next]_vars
    => [Abstrakt!LoefteNext]_(Oversatt)
<1> SUFFICES ASSUME TypeInv, Trygg, SvarHarVirkning, [Next]_vars
             PROVE  Abstrakt!LoefteNext \/ Oversatt' = Oversatt
  OBVIOUS
<1>1. CASE Next
  <2>1. \A o \in Virkende : Utfallet(o)' \in Abstrakt!Utfallene
    BY DEF Utfallet, Abstrakt!Utfallene
  <2>2. Oversatt' \in [Virkende -> Abstrakt!Utfallene]
    BY <2>1 DEF Oversatt
  <2>3. \A o \in Virkende :
           \/ Oversatt'[o] = Oversatt[o]
           \/ <<Oversatt[o], Oversatt'[o]>> \in Abstrakt!Overganger
    BY <1>1, GaarAlle DEF Gaar, Oversatt
  <2> QED
    BY <2>2, <2>3 DEF Abstrakt!LoefteNext, Oversatt
<1>2. CASE UNCHANGED vars
  BY <1>2 DEF vars, dbVars, arkivVars, Oversatt, Utfallet
<1> QED
  BY <1>1, <1>2

\* Refinement: with the outcome read off the rows and the archive, every
\* behaviour of the executor, its environment and their crashes is one that
\* Virkninger allows.
THEOREM LoefteHolder == Spec => Loefte
<1>1. TypeInv /\ Trygg /\ SvarHarVirkning /\ [Next]_vars
      => [Abstrakt!LoefteNext]_([o \in Virkende |-> Utfallet(o)])
  BY LoefteSteg DEF Oversatt
<1> QED
  BY <1>1, LoefteStart, TypeInvariant, TryggInvariant, SvarHarVirkningHolder, PTL
     DEF Spec, Loefte, Abstrakt!LoefteSpec
----------------------------------------------------------------------------
(* The facts, and the archive they speak of                                *)
(*                                                                         *)
(* What the executor's decisions rest on still holds when their effect is  *)
(* made and when it is recorded.  The journal entry and its documents are  *)
(* written by the executor alone, so a decision's basis (Grunnlag) stands  *)
(* from the snapshot to the commit.  The wanted officer is not: a          *)
(* decomposition may change it while the executor works, and then there is *)
(* a row that is not done (Ansvar).                                        *)

\* Where a decision has been made, and where an operation is in hand at all.
Utforer == {"besluttet", "kjorer", "sendt", "svar"}
IArbeid == {"hentet", "les_sosken", "les_udekomponerte"} \cup Utforer

----------------------------------------------------------------------------
(* What an operation of each type is about *)

\* Only a command that creates a journal entry has operations on it, and which
\* ones follows from the entry's type; the other operations are on the case.
LEMMA Gjelder ==
    ASSUME NEW o \in Operasjoner
    PROVE  /\ o.type \in StatusTyper \cup {"avvent_journalfort"}
              => /\ o.kommando \in JournalpostKommandoer
                 /\ o.entitet = Payload[o.kommando].journalpost
                 /\ o.entitet \in Journalposter
           /\ o.type = "avskriv" => Payload[o.kommando].journalposttype = "I"
           /\ o.type \in {"sett_ekspedert", "klargjor_for_ekspedering"}
              => Payload[o.kommando].journalposttype = "U"
           /\ o.type = "legg_til_vedlegg"
              => /\ o.kommando \in JournalpostKommandoer
                 /\ o.entitet \in DokumenterI(o.kommando)
           /\ o.type \in {"opprett_sak", "avslutt_sak", "sett_saksansvarlig"}
              => /\ o.entitet = SakTil(o)
                 /\ o.type = Payload[o.kommando].type
<1>1. PICK c \in Kommandoer : o \in Dekomponer(c)
  BY DEF Operasjoner
<1>2. ErPayload(Payload[c])
  BY PayloadAntagelse
<1>3. CASE Payload[c].type = "opprett_journalpost"
  <2>1. c \in JournalpostKommandoer
    BY <1>3 DEF JournalpostKommandoer
  <2>2. o \in DekomponerJournalpost(c)
    BY <1>1, <1>3 DEF Dekomponer
  <2>3. \/ o.kommando = c /\ o.type = "render_dokument"
        \/ /\ o.kommando = c /\ o.type = "opprett_journalpost"
           /\ o.entitet = Payload[c].journalpost
        \/ /\ o.kommando = c /\ o.type = "legg_til_vedlegg"
           /\ o.entitet \in DokumenterI(c)
        \/ /\ o.kommando = c /\ o.type \in Statuslop(Payload[c])
           /\ o.entitet = Payload[c].journalpost
    BY <2>2 DEF DekomponerJournalpost, Operasjon, DokumenterI
  <2>4. /\ Statuslop(Payload[c]) \subseteq
             {"journalfor", "avskriv", "sett_ekspedert",
              "klargjor_for_ekspedering", "avvent_journalfort"}
        /\ "avskriv" \in Statuslop(Payload[c])
           => Payload[c].journalposttype = "I"
        /\ \A t \in {"sett_ekspedert", "klargjor_for_ekspedering"} :
              t \in Statuslop(Payload[c]) => Payload[c].journalposttype = "U"
    BY <1>2 DEF Statuslop, ErPayload, Journalposttyper
  <2> QED
    BY <2>1, <2>3, <2>4 DEF StatusTyper, Journalposter
<1>4. CASE Payload[c].type # "opprett_journalpost"
  <2>1. o = Operasjon(c, Payload[c].type, Payload[c].sak)
    BY <1>1, <1>4 DEF Dekomponer
  <2>2. Payload[c].type \in {"opprett_sak", "sett_saksansvarlig", "avslutt_sak"}
    BY <1>2, <1>4 DEF ErPayload, Kommandotyper
  <2> QED
    BY <2>1, <2>2 DEF Operasjon, SakTil, StatusTyper
<1> QED
  BY <1>3, <1>4

\* A journal entry has one command, and so has a document.
LEMMA EnKommando ==
    ASSUME NEW c \in JournalpostKommandoer, NEW d \in JournalpostKommandoer
    PROVE  /\ Payload[c].journalpost = Payload[d].journalpost => c = d
           /\ DokumenterI(c) \cap DokumenterI(d) # {} => c = d
BY PayloadAntagelse, DokumentAntagelse DEF JournalpostKommandoer

\* The main document of an entry that has one is among its documents.
LEMMA HovedErMed ==
    ASSUME NEW c \in JournalpostKommandoer, HarHoveddokument(Payload[c])
    PROVE  Hoveddokument(Payload[c]) \in DokumenterI(c)
<1>1. ErPayload(Payload[c])
  BY PayloadAntagelse DEF JournalpostKommandoer
<1> DEFINE docs == Payload[c].dokumenter
<1>2. docs \in Seq({docs[i] : i \in DOMAIN docs})
  BY <1>1 DEF ErPayload
<1>3. 1 \in DOMAIN docs
  BY <1>2 DEF HarHoveddokument
<1> QED
  BY <1>3 DEF Hoveddokument, DokumenterI

\* The course of a journal entry is counted.
LEMMA TrinnType ==
    ASSUME NEW t \in JpTilstander
    PROVE  Trinn(t) \in 0..5
BY DEF Trinn, JpTilstander

LEMMA NyTilstand ==
    ASSUME NEW type \in StatusTyper
    PROVE  NyJpTilstand(type) \in JpTilstander
BY DEF StatusTyper, NyJpTilstand, JpTilstander

LEMMA TrinnVerdier ==
    /\ Trinn("ikke_opprettet") = 0 /\ Trinn("opprettet") = 1
    /\ Trinn("klar_for_ekspedering") = 2 /\ Trinn("ekspedert") = 3
    /\ Trinn("journalfoert") = 4 /\ Trinn("avskrevet") = 5
BY DEF Trinn

LEMMA NyttTrinn ==
    /\ NyJpTilstand("opprett_journalpost") = "opprettet"
    /\ NyJpTilstand("journalfor") = "journalfoert"
    /\ NyJpTilstand("sett_ekspedert") = "ekspedert"
    /\ NyJpTilstand("klargjor_for_ekspedering") = "klar_for_ekspedering"
    /\ NyJpTilstand("avskriv") = "avskrevet"
BY DEF NyJpTilstand

----------------------------------------------------------------------------
(* Who writes what *)

\* Facts and the archive are changed by five kinds of steps.
LEMMA Skrivere ==
    ASSUME Next
    PROVE  \/ \E c \in Kommandoer : LagreDekomponering(c)
           \/ \E j \in Journalposter : Rpa(j)
           \/ \E e \in Executorer : KallLykkes(e) \/ SvarTapt(e)
           \/ \E e \in Executorer : FullforOk(e) \/ FullforPoll(e)
           \/ UNCHANGED <<faktaVars, arkivVars>>
<1>1. CASE Omgivelser
  BY <1>1 DEF Omgivelser, Motta, Frigi, Forkast
<1>2. ASSUME NEW e \in Executorer, Leder(e) \/ Avbryt(e)
      PROVE  UNCHANGED <<faktaVars, arkivVars>>
  BY <1>2 DEF Leder, TaLederskap, Gjenopprett, HentUvarslet, VarsleOperasjon,
              VarsleKommando, MarkerVarslet, StartArbeid, Avbryt, dbVars, faktaVars
<1>3. ASSUME NEW e \in Executorer,
             Beslutt(e) \/ \E o \in Operasjoner : Hent(e, o)
      PROVE  UNCHANGED <<faktaVars, arkivVars>>
  BY <1>3 DEF Beslutt, Hent, LesFakta, LesSosken, LesUdekomponerte,
              MarkerBlokkert, FullforAlleredeUtfort, MarkerUgyldig,
              MarkerKjorer, MarkerSendt, dbVars, faktaVars
<1>4. ASSUME NEW e \in Executorer, Kall(e)
      PROVE  \/ KallLykkes(e) \/ SvarTapt(e)
             \/ UNCHANGED <<faktaVars, arkivVars>>
  BY <1>4 DEF Kall, Render, Poll, ManglerAttributter, KallAvvises,
              KallFeilerForVirkning, dbVars, faktaVars
<1>5. ASSUME NEW e \in Executorer, Avslutt(e)
      PROVE  \/ FullforOk(e) \/ FullforPoll(e)
             \/ UNCHANGED <<faktaVars, arkivVars>>
  BY <1>5 DEF Avslutt, MarkerRetry, MarkerFeilet, PubliserOperasjon, LesUtfall,
              PubliserKommando, dbVars, faktaVars
<1> QED
  BY <1>1, <1>2, <1>3, <1>4, <1>5 DEF Next

\* What the executor has in hand while it carries out a decision.
SammeHand(x) ==
    /\ minne'[x].op = minne[x].op
    /\ minne'[x].sak = minne[x].sak
    /\ minne'[x].sosken = minne[x].sosken
    /\ minne'[x].beslutning = minne[x].beslutning

Uroert(x) == pc'[x] = pc[x] /\ minne'[x] = minne[x]

\* An executor gets an operation by choosing it, a decision by reading, and
\* keeps both until it settles the outcome.
LEMMA HandSteg ==
    ASSUME TypeInv, Next, NEW x \in Executorer, pc'[x] \in IArbeid
    PROVE  \/ Uroert(x)
           \/ \E o \in Operasjoner : Hent(x, o)
           \/ LesFakta(x) \/ LesSosken(x) \/ LesUdekomponerte(x)
           \/ /\ MarkerKjorer(x) \/ MarkerSendt(x) \/ Kall(x)
              /\ pc[x] \in Utforer /\ pc'[x] \in {"kjorer", "sendt", "svar"}
              /\ SammeHand(x)
<1> USE DEF IArbeid, Utforer, Ga, Sett, Uroert
<1>1. pc \in [Executorer -> Steder] /\ minne \in [Executorer -> Minne]
  BY DEF TypeInv, TypeOK
<1>2. CASE Omgivelser
  BY <1>2 DEF Omgivelser, Motta, LagreDekomponering, Frigi, Forkast, Rpa, execVars
<1>3. ASSUME NEW e \in Executorer, Leder(e) \/ Avbryt(e)
      PROVE  Uroert(x)
  BY <1>1, <1>3
     DEF Leder, TaLederskap, Gjenopprett, HentUvarslet, VarsleOperasjon,
         VarsleKommando, MarkerVarslet, StartArbeid, Avbryt
<1>4. ASSUME NEW e \in Executorer, e # x,
             Beslutt(e) \/ \E p \in Operasjoner : Hent(e, p)
      PROVE  Uroert(x)
  BY <1>1, <1>4
     DEF Beslutt, LesFakta, LesSosken, LesUdekomponerte, MarkerBlokkert,
         FullforAlleredeUtfort, MarkerUgyldig, MarkerKjorer, MarkerSendt, Hent
<1>5. ASSUME Beslutt(x)
      PROVE  \/ LesFakta(x) \/ LesSosken(x) \/ LesUdekomponerte(x)
             \/ /\ MarkerKjorer(x) \/ MarkerSendt(x)
                /\ pc[x] \in Utforer /\ pc'[x] \in {"kjorer", "sendt", "svar"}
                /\ SammeHand(x)
  BY <1>1, <1>5
     DEF Beslutt, MarkerBlokkert, FullforAlleredeUtfort, MarkerUgyldig,
         MarkerKjorer, MarkerSendt, SammeHand
<1>6. ASSUME NEW e \in Executorer, Kall(e)
      PROVE  \/ Uroert(x)
             \/ /\ Kall(x)
                /\ pc[x] \in Utforer /\ pc'[x] \in {"kjorer", "sendt", "svar"}
                /\ SammeHand(x)
  <2>1. KlarForKall(e) /\ \E svar : Svare(e, svar)
    BY <1>6 DEF Kall, KallLykkes, Render, Poll, ManglerAttributter, KallAvvises,
                KallFeilerForVirkning, SvarTapt
  <2>2. CASE e # x
    BY <1>1, <2>1, <2>2 DEF Svare
  <2>3. CASE e = x
    BY <1>1, <1>6, <2>1, <2>3 DEF Svare, KlarForKall, SammeHand, Minne
  <2> QED
    BY <2>2, <2>3
<1>7. ASSUME NEW e \in Executorer, Avslutt(e)
      PROVE  Uroert(x)
  BY <1>1, <1>7
     DEF Avslutt, FullforOk, FullforPoll, MarkerRetry, MarkerFeilet,
         PubliserOperasjon, LesUtfall, PubliserKommando
<1> QED
  BY <1>2, <1>3, <1>4, <1>5, <1>6, <1>7 DEF Next

LEMMA Kallsted ==
    ASSUME NEW e \in Executorer, Kall(e)
    PROVE  pc[e] \in {"kjorer", "sendt"}
BY DEF Kall, KallLykkes, Render, Poll, ManglerAttributter, KallAvvises,
       KallFeilerForVirkning, SvarTapt, KlarForKall

\* What each read leaves in hand.
LEMMA Lest ==
    ASSUME TypeInv, NEW x \in Executorer
    PROVE  LET o == minne[x].op IN
           /\ LesFakta(x)
              => /\ minne'[x].op = o
                 /\ minne'[x].sak = sak[SakTil(o)]
                 /\ minne'[x].sosken = minne[x].sosken
                 /\ o.type = "avslutt_sak" => pc'[x] = "les_sosken"
                 /\ o.type # "avslutt_sak"
                    => /\ pc'[x] = "besluttet"
                       /\ minne'[x].beslutning =
                             Vurder(o, sak[SakTil(o)], jp, dok, Ingen)
           /\ LesSosken(x)
              => /\ minne'[x].op = o
                 /\ minne'[x].sak = minne[x].sak
                 /\ minne'[x].sosken =
                       {[op |-> q, status |-> status[q]] :
                          q \in {r \in RaderPaa(SakTil(o)) : r.kommando \notin forkastet}}
                 /\ pc'[x] = "les_udekomponerte"
           /\ LesUdekomponerte(x)
              => /\ minne'[x].op = o
                 /\ minne'[x].sak = minne[x].sak
                 /\ minne'[x].sosken = minne[x].sosken
                 /\ minne'[x].beslutning =
                       VurderAvsluttSak(o, minne[x].sak, minne[x].sosken,
                                        Udekomponerte(SakTil(o)))
                 /\ pc'[x] = "besluttet"
<1>1. pc \in [Executorer -> Steder] /\ minne \in [Executorer -> Minne]
  BY DEF TypeInv, TypeOK
<1> DEFINE o == minne[x].op
<1>2. ASSUME LesFakta(x)
      PROVE  /\ minne'[x].op = o
             /\ minne'[x].sak = sak[SakTil(o)]
             /\ minne'[x].sosken = minne[x].sosken
             /\ o.type = "avslutt_sak" => pc'[x] = "les_sosken"
             /\ o.type # "avslutt_sak"
                => /\ pc'[x] = "besluttet"
                   /\ minne'[x].beslutning =
                         Vurder(o, sak[SakTil(o)], jp, dok, Ingen)
  <2> DEFINE b == Vurder(o, sak[SakTil(o)], jp, dok, Ingen)
             m == [minne[x] EXCEPT !.sak = sak[SakTil(o)]]
             n == [minne[x] EXCEPT !.sak = sak[SakTil(o)], !.beslutning = b]
  <2> HIDE DEF b
  <2>1. /\ m.op = o /\ m.sak = sak[SakTil(o)] /\ m.sosken = minne[x].sosken
        /\ n.op = o /\ n.sak = sak[SakTil(o)] /\ n.sosken = minne[x].sosken
        /\ n.beslutning = b
    BY <1>1 DEF Minne
  <2>2. /\ o.type = "avslutt_sak" => minne'[x] = m /\ pc'[x] = "les_sosken"
        /\ o.type # "avslutt_sak" => minne'[x] = n /\ pc'[x] = "besluttet"
    BY <1>1, <1>2 DEF LesFakta, Ga, Sett, b
  <2> QED
    BY <2>1, <2>2 DEF b
<1>3. ASSUME LesSosken(x)
      PROVE  /\ minne'[x].op = o
             /\ minne'[x].sak = minne[x].sak
             /\ minne'[x].sosken =
                   {[op |-> q, status |-> status[q]] :
                      q \in {r \in RaderPaa(SakTil(o)) : r.kommando \notin forkastet}}
             /\ pc'[x] = "les_udekomponerte"
  <2> DEFINE S == {[op |-> q, status |-> status[q]] :
                      q \in {r \in RaderPaa(SakTil(o)) : r.kommando \notin forkastet}}
  <2>1. minne'[x] = [minne[x] EXCEPT !.sosken = S] /\ pc'[x] = "les_udekomponerte"
    BY <1>1, <1>3 DEF LesSosken, Ga, Sett
  <2> HIDE DEF S
  <2>2. /\ minne'[x].op = o /\ minne'[x].sak = minne[x].sak
        /\ minne'[x].sosken = S
    BY <1>1, <2>1 DEF Minne
  <2> QED
    BY <2>1, <2>2 DEF S
<1>4. ASSUME LesUdekomponerte(x)
      PROVE  /\ minne'[x].op = o
             /\ minne'[x].sak = minne[x].sak
             /\ minne'[x].sosken = minne[x].sosken
             /\ minne'[x].beslutning =
                   VurderAvsluttSak(o, minne[x].sak, minne[x].sosken,
                                    Udekomponerte(SakTil(o)))
             /\ pc'[x] = "besluttet"
  <2> DEFINE b == VurderAvsluttSak(o, minne[x].sak, minne[x].sosken,
                                   Udekomponerte(SakTil(o)))
  <2> HIDE DEF b
  <2>1. minne'[x] = [minne[x] EXCEPT !.beslutning = b] /\ pc'[x] = "besluttet"
    BY <1>1, <1>4 DEF LesUdekomponerte, Ga, Sett, b
  <2>2. /\ minne'[x].op = o /\ minne'[x].sak = minne[x].sak
        /\ minne'[x].sosken = minne[x].sosken /\ minne'[x].beslutning = b
    BY <1>1, <2>1 DEF Minne
  <2> QED
    BY <2>1, <2>2 DEF b
<1> QED
  BY <1>2, <1>3, <1>4

LEMMA Hentet ==
    ASSUME TypeInv, NEW x \in Executorer, NEW o \in Operasjoner, Hent(x, o)
    PROVE  /\ o \in Rader
           /\ pc'[x] = "hentet"
           /\ minne'[x] = [TomtMinne EXCEPT !.op = o]
           /\ minne'[x].op = o
           /\ minne'[x].sosken = {}
<1>1. pc \in [Executorer -> Steder] /\ minne \in [Executorer -> Minne]
  BY DEF TypeInv, TypeOK
<1> QED
  BY <1>1 DEF Hent, Kjorbar, Ga, Sett, TomtMinne

----------------------------------------------------------------------------
(* What is in hand *)

\* The operation in hand has a row; only a closing reads its siblings; only a
\* decision to carry out is carried out.
IHanden ==
    \A e \in Executorer :
        /\ pc[e] \in IArbeid => minne[e].op \in Rader
        /\ pc[e] \in {"les_sosken", "les_udekomponerte"}
           => minne[e].op.type = "avslutt_sak"
        /\ pc[e] \in {"kjorer", "sendt", "svar"} => minne[e].beslutning = "utfor"

LEMMA IHandenSteg == TypeInv /\ IHanden /\ [Next]_vars => IHanden'
<1> SUFFICES ASSUME TypeInv, IHanden, [Next]_vars PROVE IHanden'
  OBVIOUS
<1>1. CASE UNCHANGED vars
  BY <1>1 DEF vars, execVars, dbVars, IHanden, Rader
<1>2. CASE Next
  <2> SUFFICES ASSUME NEW x \in Executorer, pc'[x] \in IArbeid
               PROVE  /\ minne'[x].op \in Rader'
                      /\ pc'[x] \in {"les_sosken", "les_udekomponerte"}
                         => minne'[x].op.type = "avslutt_sak"
                      /\ pc'[x] \in {"kjorer", "sendt", "svar"}
                         => minne'[x].beslutning = "utfor"
    BY DEF IHanden, IArbeid, Utforer
  <2>1. Rader \subseteq Rader'
    BY <1>2, DekomponertSteg DEF Rader
  <2>2. CASE Uroert(x)
    BY <2>1, <2>2 DEF Uroert, IHanden
  <2>3. CASE \E o \in Operasjoner : Hent(x, o)
    BY <2>1, <2>3, Hentet
  <2>4. CASE LesFakta(x) \/ LesSosken(x) \/ LesUdekomponerte(x)
    <3>1. pc[x] \in IArbeid
      BY <2>4 DEF LesFakta, LesSosken, LesUdekomponerte, IArbeid
    <3> QED
      BY <2>1, <2>4, <3>1, Lest DEF IHanden, LesSosken
  <2>5. CASE /\ MarkerKjorer(x) \/ MarkerSendt(x) \/ Kall(x)
             /\ pc[x] \in Utforer /\ pc'[x] \in {"kjorer", "sendt", "svar"}
             /\ SammeHand(x)
    <3>1. minne[x].beslutning = "utfor"
      BY <2>5, Kallsted DEF MarkerKjorer, MarkerSendt, IHanden
    <3> QED
      BY <2>1, <2>5, <3>1 DEF SammeHand, IHanden, IArbeid, Utforer
  <2> QED
    BY <1>2, <2>2, <2>3, <2>4, <2>5, HandSteg
<1> QED
  BY <1>1, <1>2

LEMMA IHandenHolder == Spec => []IHanden
<1>1. Init => IHanden
  BY DEF Init, IHanden, IArbeid, Utforer
<1> QED
  BY <1>1, TypeInvariant, IHandenSteg, PTL DEF Spec

----------------------------------------------------------------------------
(* A closing and its siblings *)

\* What was read as done is done; a closing is carried out only when every
\* other sibling was read so, and no other operation has read any.
SoskenSett ==
    \A e \in Executorer :
        LET m == minne[e]
        IN  /\ pc[e] \in {"hentet", "les_sosken"} => m.sosken = {}
            /\ pc[e] \in {"les_udekomponerte"} \cup Utforer
               => \A x \in m.sosken : x.status = "ok" => status[x.op] = "ok"
            /\ pc[e] \in Utforer /\ m.beslutning = "utfor"
               => \A x \in m.sosken : x.op # m.op => x.status = "ok"

LEMMA SoskenSteg == TypeInv /\ Trygg /\ SoskenSett /\ [Next]_vars => SoskenSett'
<1> SUFFICES ASSUME TypeInv, Trygg, SoskenSett, [Next]_vars PROVE SoskenSett'
  OBVIOUS
<1>1. CASE UNCHANGED vars
  BY <1>1 DEF vars, execVars, dbVars, SoskenSett
<1>2. CASE Next
  <2> SUFFICES ASSUME NEW x \in Executorer, pc'[x] \in IArbeid
               PROVE  LET m == minne'[x] IN
                      /\ pc'[x] \in {"hentet", "les_sosken"} => m.sosken = {}
                      /\ pc'[x] \in {"les_udekomponerte"} \cup Utforer
                         => \A y \in m.sosken : y.status = "ok" => status'[y.op] = "ok"
                      /\ pc'[x] \in Utforer /\ m.beslutning = "utfor"
                         => \A y \in m.sosken : y.op # m.op => y.status = "ok"
    BY DEF SoskenSett, IArbeid
  <2>1. \A q \in Operasjoner : status[q] = "ok" => status'[q] = "ok"
    BY <1>2, StatusSteg DEF Ventende, Underveis
  <2>2. minne[x].sosken \subseteq [op : Operasjoner, status : Statuser]
    BY DEF TypeInv, TypeOK, Minne
  <2>3. CASE Uroert(x)
    BY <2>1, <2>2, <2>3 DEF Uroert, SoskenSett
  <2>4. CASE \E o \in Operasjoner : Hent(x, o)
    BY <2>4, Hentet DEF Utforer
  <2>5. CASE LesFakta(x)
    <3>1. minne'[x].sosken = {}
      BY <2>5, Lest DEF LesFakta, SoskenSett
    <3> QED
      BY <2>5, <3>1
  <2>6. CASE LesSosken(x)
    <3>1. \A y \in minne'[x].sosken : y.op \in Operasjoner /\ y.status = status[y.op]
      BY <2>6, Lest DEF RaderPaa, OperasjonerPaa
    <3> QED
      BY <2>1, <2>6, <3>1, Lest DEF Utforer
  <2>7. CASE LesUdekomponerte(x)
    <3>1. /\ minne'[x].op = minne[x].op
          /\ minne'[x].sosken = minne[x].sosken
          /\ pc'[x] = "besluttet"
          /\ minne'[x].beslutning = "utfor"
             => \A y \in minne[x].sosken : y.op # minne[x].op => y.status = "ok"
      BY <2>7, Lest DEF VurderAvsluttSak
    <3>2. \A y \in minne[x].sosken : y.status = "ok" => status[y.op] = "ok"
      BY <2>7 DEF LesUdekomponerte, SoskenSett
    <3> QED
      BY <2>1, <2>2, <3>1, <3>2
  <2>8. CASE pc[x] \in Utforer /\ pc'[x] \in {"kjorer", "sendt", "svar"} /\ SammeHand(x)
    BY <2>1, <2>2, <2>8 DEF SammeHand, SoskenSett
  <2> QED
    BY <1>2, <2>3, <2>4, <2>5, <2>6, <2>7, <2>8, HandSteg
<1> QED
  BY <1>1, <1>2

\* From the decision to close until its effect is recorded, every sibling that
\* was read is done, whoever decomposes or reopens beside it.
THEOREM AvslutterEtterSoskenHolder == Spec => []AvslutterEtterSosken
<1>1. Init => SoskenSett
  BY DEF Init, SoskenSett, Utforer
<1>2. SoskenSett => AvslutterEtterSosken
  BY DEF SoskenSett, AvslutterEtterSosken, Utforer
<1> QED
  BY <1>1, <1>2, TypeInvariant, TryggInvariant, SoskenSteg, PTL DEF Spec

----------------------------------------------------------------------------
(* Facts, decisions and the archive *)

Komplett(c) == \A d \in DokumenterI(c) : IArkivet(c, d)

\* What a decision to carry out an operation rests on.
GrunnlagFor(o) ==
    /\ o.type \in StatusTyper
       => Trinn(jp[o.entitet].tilstand) <= Trinn(NyJpTilstand(o.type))
    /\ o.type \in StatusTyper \ {"opprett_journalpost"} => Komplett(o.kommando)
    /\ o.type = "opprett_journalpost" => HarHoveddokument(Payload[o.kommando])
    /\ o.type = "legg_til_vedlegg" => o.entitet # Hoveddokument(Payload[o.kommando])

\* It stands until the outcome is settled.
Grunnlag ==
    \A e \in Executorer :
        pc[e] \in Utforer /\ minne[e].beslutning = "utfor"
        => GrunnlagFor(minne[e].op)

\* What an answer says of the journal entry is so, or the robot has gone on.
SvarSant ==
    \A e \in Executorer :
        LET m == minne[e]
            o == m.op
        IN  pc[e] = "svar"
            => /\ m.svar = "ferdig" /\ o.type \in StatusTyper
                  => Trinn(NyJpTilstand(o.type)) <= Trinn(arkivJp[o.entitet])
               /\ m.svar = "ferdig" /\ o.type = "avvent_journalfort"
                  => 4 <= Trinn(arkivJp[o.entitet])
               /\ m.svar = "poll_ekspedert"
                  => /\ o.type = "avvent_journalfort"
                     /\ 3 <= Trinn(arkivJp[o.entitet])

\* Only an incoming entry is written off.
AvskrevetErInn ==
    \A c \in JournalpostKommandoer :
        jp[Payload[c].journalpost].tilstand = "avskrevet"
        => Payload[c].journalposttype = "I"

FaktaDel == FaktaHarDekning /\ KomplettForStatusovergang /\ AvskrevetErInn

Dekning == FaktaDel /\ Grunnlag /\ SvarSant

\* Effects are never undone, so what is in the archive stays there.
LEMMA VirketVokser ==
    ASSUME TypeInv, Next
    PROVE  /\ \A s, type, entitet :
                 Virket(s, type, entitet) => Virket(s, type, entitet)'
           /\ \A c, d : IArkivet(c, d) => IArkivet(c, d)'
           /\ \A c : Komplett(c) => Komplett(c)'
<1>1. \A o \in Operasjoner : virkning[o] > 0 => virkning'[o] > 0
  BY VirkningVokser
<1>2. \A s, type, entitet : Virket(s, type, entitet) => Virket(s, type, entitet)'
  BY <1>1 DEF Virket, OperasjonerPaa
<1>3. \A c, d : IArkivet(c, d) => IArkivet(c, d)'
  BY <1>2 DEF IArkivet
<1> QED
  BY <1>2, <1>3 DEF Komplett

\* A decomposition claims nothing of the archive but a known case number.
LEMMA SkrivSakFakta ==
    ASSUME NEW c \in Kommandoer, NEW s \in SakFakta
    PROVE  /\ SkrivSak(c, s).arkivId => s.arkivId \/ Payload[c].kjentSaksnummer
           /\ SkrivSak(c, s).tilstand = "avsluttet" => s.tilstand = "avsluttet"
<1>1. CASE s.rad
  BY <1>1 DEF SkrivSak, SakFakta
<1>2. CASE ~s.rad
  BY <1>2 DEF SkrivSak
<1> QED
  BY <1>1, <1>2 DEF SakFakta

LEMMA DelDekomponering ==
    ASSUME TypeInv, FaktaDel, Next, NEW c \in Kommandoer, LagreDekomponering(c)
    PROVE  FaktaDel'
<1> USE DEF FaktaDel
<1>1. /\ UNCHANGED <<jp, arkivJp>>
      /\ sak \in [Saker -> SakFakta]
      /\ sak' = [sak EXCEPT ![Payload[c].sak] = SkrivSak(c, @)]
  BY DEF LagreDekomponering, arkivVars, TypeInv, TypeOK
<1>2. \A d \in Dokumenter : dok'[d] = "ok" => dok[d] = "ok"
  BY DEF LagreDekomponering, SkrivDokumenter
<1>3. ASSUME NEW s \in Saker
      PROVE  /\ sak'[s].arkivId
                => \/ sak[s].arkivId
                   \/ \E k \in Kommandoer :
                         Payload[k].sak = s /\ Payload[k].kjentSaksnummer
             /\ sak'[s].tilstand = "avsluttet" => sak[s].tilstand = "avsluttet"
  <2>1. CASE s = Payload[c].sak
    BY <1>1, <2>1, SkrivSakFakta
  <2>2. CASE s # Payload[c].sak
    BY <1>1, <2>2
  <2> QED
    BY <2>1, <2>2
<1>4. FaktaHarDekning'
  BY <1>1, <1>2, <1>3, VirketVokser DEF FaktaHarDekning, Dokumenter
<1>5. KomplettForStatusovergang'
  BY <1>1, VirketVokser DEF KomplettForStatusovergang
<1> QED
  BY <1>1, <1>4, <1>5 DEF AvskrevetErInn

\* The robot only moves an entry on, and only one that has begun its course.
LEMMA RpaTrinn ==
    ASSUME TypeInv, NEW j \in Journalposter, Rpa(j), NEW i \in Journalposter
    PROVE  /\ Trinn(arkivJp[i]) <= Trinn(arkivJp'[i])
           /\ Trinn(arkivJp'[i]) > 1 => Trinn(arkivJp[i]) > 1
           /\ arkivJp'[i] = "ikke_opprettet" => arkivJp[i] = "ikke_opprettet"
           /\ Trinn(arkivJp[i]) \in 0..5 /\ Trinn(arkivJp'[i]) \in 0..5
<1>1. /\ arkivJp \in [Journalposter -> JpTilstander]
      /\ \/ /\ arkivJp[j] = "klar_for_ekspedering"
            /\ arkivJp' = [arkivJp EXCEPT ![j] = "ekspedert"]
         \/ /\ arkivJp[j] = "ekspedert"
            /\ arkivJp' = [arkivJp EXCEPT ![j] = "journalfoert"]
  BY DEF Rpa, TypeInv, TypeOK
<1>2. CASE arkivJp'[i] = arkivJp[i]
  BY <1>1, <1>2, TrinnType
<1>3. CASE \/ arkivJp[i] = "klar_for_ekspedering" /\ arkivJp'[i] = "ekspedert"
           \/ arkivJp[i] = "ekspedert" /\ arkivJp'[i] = "journalfoert"
  BY <1>3 DEF Trinn
<1> QED
  BY <1>1, <1>2, <1>3

LEMMA DelRpa ==
    ASSUME TypeInv, FaktaDel, Next, NEW j \in Journalposter, Rpa(j)
    PROVE  FaktaDel'
<1> USE DEF FaktaDel
<1>1. /\ UNCHANGED <<sak, jp, dok>>
      /\ jp \in [Journalposter -> JpFakta]
  BY DEF Rpa, dbVars, faktaVars, TypeInv, TypeOK
<1>2. \A i \in Journalposter :
         /\ Trinn(arkivJp[i]) <= Trinn(arkivJp'[i])
         /\ Trinn(arkivJp'[i]) > 1 => Trinn(arkivJp[i]) > 1
         /\ arkivJp'[i] = "ikke_opprettet" => arkivJp[i] = "ikke_opprettet"
         /\ Trinn(arkivJp[i]) \in 0..5 /\ Trinn(arkivJp'[i]) \in 0..5
  BY RpaTrinn
<1>3. \A i \in Journalposter : Trinn(jp[i].tilstand) \in 0..5
  BY <1>1, TrinnType DEF JpFakta, JpTilstander
<1>4. FaktaHarDekning'
  BY <1>1, <1>2, <1>3, VirketVokser DEF FaktaHarDekning
<1>5. KomplettForStatusovergang'
  BY <1>2, VirketVokser DEF KomplettForStatusovergang, Journalposter
<1> QED
  BY <1>1, <1>4, <1>5 DEF AvskrevetErInn

\* A call that has an effect moves the entry to where its decision allows.
LEMMA DelKall ==
    ASSUME TypeInv, IHanden, Dekning, Next,
           NEW e \in Executorer, KallLykkes(e) \/ SvarTapt(e)
    PROVE  FaktaDel'
<1> USE DEF FaktaDel, Dekning
<1> DEFINE o == minne[e].op
           ny == NyJpTilstand(o.type)
<1>1. pc[e] \in {"kjorer", "sendt"}
  BY Kallsted DEF Kall
<1>2. /\ o \in Operasjoner
      /\ minne[e].beslutning = "utfor"
      /\ pc[e] \in Utforer
  BY <1>1 DEF IHanden, IArbeid, Utforer, Rader
<1>3. /\ UNCHANGED <<sak, jp, dok>>
      /\ arkivJp \in [Journalposter -> JpTilstander]
      /\ jp \in [Journalposter -> JpFakta]
      /\ o.type \in StatusTyper => arkivJp' = [arkivJp EXCEPT ![o.entitet] = ny]
      /\ o.type \notin StatusTyper => arkivJp' = arkivJp
  BY DEF KallLykkes, SvarTapt, Virk, dbVars, faktaVars, TypeInv, TypeOK
<1>4. CASE o.type \notin StatusTyper
  <2>1. FaktaHarDekning'
    BY <1>3, <1>4, VirketVokser DEF FaktaHarDekning
  <2>2. KomplettForStatusovergang'
    BY <1>3, <1>4, VirketVokser DEF KomplettForStatusovergang
  <2> QED
    BY <1>3, <2>1, <2>2 DEF AvskrevetErInn
<1>5. CASE o.type \in StatusTyper
  <2>1. /\ o.kommando \in JournalpostKommandoer
        /\ o.entitet = Payload[o.kommando].journalpost
        /\ o.entitet \in Journalposter
    BY <1>2, <1>5, Gjelder
  <2>2. /\ Trinn(jp[o.entitet].tilstand) <= Trinn(ny)
        /\ o.type # "opprett_journalpost" => Komplett(o.kommando)
    BY <1>2, <1>5 DEF Grunnlag, GrunnlagFor
  <2>3. /\ ny # "ikke_opprettet"
        /\ o.type = "opprett_journalpost" => Trinn(ny) = 1
    BY <1>5 DEF StatusTyper, NyJpTilstand, Trinn
  <2>4. /\ arkivJp'[o.entitet] = ny
        /\ \A i \in Journalposter : i # o.entitet => arkivJp'[i] = arkivJp[i]
    BY <1>3, <1>5, <2>1
  <2>5. FaktaHarDekning'
    BY <1>3, <2>2, <2>3, <2>4, VirketVokser DEF FaktaHarDekning
  <2>6. ASSUME NEW c \in JournalpostKommandoer,
               Trinn(arkivJp'[Payload[c].journalpost]) > 1
        PROVE  Komplett(c)'
    <3>1. CASE c = o.kommando
      <4>1. Trinn(ny) > 1
        BY <2>1, <2>4, <2>6, <3>1
      <4>2. o.type # "opprett_journalpost"
        BY <2>3, <4>1
      <4>3. Komplett(c)
        BY <2>2, <3>1, <4>2
      <4> QED
        BY <4>3, VirketVokser
    <3>2. CASE c # o.kommando
      <4>1. /\ Payload[c].journalpost # o.entitet
            /\ Payload[c].journalpost \in Journalposter
        BY <2>1, <3>2, EnKommando DEF Journalposter
      <4> QED
        BY <2>4, <2>6, <4>1, VirketVokser DEF KomplettForStatusovergang, Komplett
    <3> QED
      BY <3>1, <3>2
  <2>7. KomplettForStatusovergang'
    BY <2>6 DEF KomplettForStatusovergang, Komplett
  <2> QED
    BY <1>3, <2>5, <2>7 DEF AvskrevetErInn
<1> QED
  BY <1>4, <1>5

\* The facts that a completed operation writes are those its effect earned.
LEMMA DelFerdig ==
    ASSUME TypeInv, IHanden, Dekning, SvarHarVirkning, Next,
           NEW e \in Executorer, FullforOk(e)
    PROVE  FaktaDel'
<1> USE DEF FaktaDel, Dekning
<1> DEFINE o == minne[e].op
           p == Payload[o.kommando]
           ny == NyJpTilstand(o.type)
<1>1. /\ pc[e] = "svar" /\ minne[e].svar = "ferdig"
      /\ FaktaEtter(o, minne[e])
      /\ UNCHANGED arkivVars
  BY DEF FullforOk
<1>2. /\ o \in Operasjoner
      /\ minne[e].beslutning = "utfor"
      /\ pc[e] \in Utforer
  BY <1>1 DEF IHanden, IArbeid, Utforer, Rader
<1>3. MutererArkivet(o.type) => Virket(SakTil(o), o.type, o.entitet)
  BY <1>1, <1>2 DEF SvarHarVirkning, Virket, OperasjonerPaa
<1>4. /\ sak \in [Saker -> SakFakta]
      /\ jp \in [Journalposter -> JpFakta]
      /\ dok \in [Dokumenter -> DokTilstander]
      /\ arkivJp' = arkivJp
      /\ arkivJp \in [Journalposter -> JpTilstander]
  BY <1>1 DEF TypeInv, TypeOK, arkivVars
<1>5. ASSUME NEW s \in Saker
      PROVE  /\ sak'[s].arkivId
                => \/ sak[s].arkivId
                   \/ o.type = "opprett_sak" /\ s = SakTil(o)
             /\ sak'[s].tilstand = "avsluttet"
                => \/ sak[s].tilstand = "avsluttet"
                   \/ o.type = "avslutt_sak" /\ s = SakTil(o)
  <2>1. CASE s # SakTil(o)
    BY <1>1, <1>4, <2>1 DEF FaktaEtter
  <2>2. CASE s = SakTil(o) /\ o.type = "opprett_sak"
    <3>1. sak'[s] = [sak[s] EXCEPT !.arkivId = TRUE, !.tilstand = "opprettet"]
      BY <1>1, <1>4, <2>2 DEF FaktaEtter
    <3>2. sak[s] \in SakFakta
      BY <1>4
    <3> QED
      BY <2>2, <3>1, <3>2 DEF SakFakta
  <2>3. CASE s = SakTil(o) /\ o.type = "avslutt_sak"
    <3>1. sak'[s] = [sak[s] EXCEPT !.tilstand = "avsluttet"]
      BY <1>1, <1>4, <2>3 DEF FaktaEtter
    <3>2. sak[s] \in SakFakta
      BY <1>4
    <3> QED
      BY <2>3, <3>1, <3>2 DEF SakFakta
  <2>4. CASE s = SakTil(o) /\ o.type = "sett_saksansvarlig"
    <3>1. sak'[s] = [sak[s] EXCEPT !.naa = minne[e].sak.oensket]
      BY <1>1, <1>4, <2>4 DEF FaktaEtter
    <3>2. sak[s] \in SakFakta
      BY <1>4
    <3> QED
      BY <2>4, <3>1, <3>2 DEF SakFakta
  <2>5. CASE /\ s = SakTil(o)
             /\ o.type \notin {"opprett_sak", "avslutt_sak", "sett_saksansvarlig"}
    BY <1>1, <1>4, <2>5 DEF FaktaEtter
  <2> QED
    BY <2>1, <2>2, <2>3, <2>4, <2>5
<1>6. \A s \in Saker :
         /\ sak'[s].arkivId
            => \/ Virket(s, "opprett_sak", s)'
               \/ \E k \in Kommandoer :
                     Payload[k].sak = s /\ Payload[k].kjentSaksnummer
         /\ sak'[s].tilstand = "avsluttet" => Virket(s, "avslutt_sak", s)'
  <2>1. /\ o.type = "opprett_sak" => Virket(SakTil(o), "opprett_sak", SakTil(o))
        /\ o.type = "avslutt_sak" => Virket(SakTil(o), "avslutt_sak", SakTil(o))
    BY <1>2, <1>3, Gjelder DEF MutererArkivet, IdempotenteTyper
  <2>2. \A s \in Saker :
           /\ sak'[s].arkivId
              => \/ Virket(s, "opprett_sak", s)
                 \/ \E k \in Kommandoer :
                       Payload[k].sak = s /\ Payload[k].kjentSaksnummer
           /\ sak'[s].tilstand = "avsluttet" => Virket(s, "avslutt_sak", s)
    BY <1>5, <2>1 DEF FaktaHarDekning
  <2> QED
    BY <2>2, VirketVokser
<1>7. ASSUME NEW j \in Journalposter
      PROVE  \/ jp'[j] = jp[j]
             \/ /\ o.type \in StatusTyper /\ j = o.entitet
                /\ jp'[j].tilstand = ny
                /\ Trinn(ny) <= Trinn(arkivJp[j]) /\ Trinn(ny) > 0
                /\ ny = "avskrevet" => o.type = "avskriv"
             \/ /\ o.type = "avvent_journalfort" /\ j = o.entitet
                /\ jp'[j].tilstand = "journalfoert"
                /\ 4 <= Trinn(arkivJp[j])
  <2>1. CASE o.type \in StatusTyper /\ j = o.entitet
    <3>1. jp'[j].tilstand = ny
      <4>1. jp' = CASE o.type \in StatusTyper ->
                         [jp EXCEPT ![o.entitet] =
                            [arkivId |-> @.arkivId \/ o.type = "opprett_journalpost",
                             tilstand |-> ny]]
                    [] o.type = "avvent_journalfort" ->
                         [jp EXCEPT ![o.entitet].tilstand = "journalfoert"]
                    [] OTHER -> jp
        BY <1>1 DEF FaktaEtter
      <4> DEFINE rad == [arkivId |-> jp[o.entitet].arkivId
                                     \/ o.type = "opprett_journalpost",
                         tilstand |-> ny]
      <4>2. rad.tilstand = ny
        OBVIOUS
      <4>3. jp' = [jp EXCEPT ![o.entitet] = rad]
        BY <2>1, <4>1 DEF StatusTyper
      <4> HIDE DEF rad
      <4> QED
        BY <1>4, <2>1, <4>2, <4>3
    <3>2. Trinn(ny) <= Trinn(arkivJp[j])
      BY <1>1, <2>1 DEF SvarSant
    <3>3. Trinn(ny) > 0 /\ (ny = "avskrevet" => o.type = "avskriv")
      BY <2>1, TrinnVerdier, NyttTrinn DEF StatusTyper
    <3> QED
      BY <2>1, <3>1, <3>2, <3>3
  <2>2. CASE o.type = "avvent_journalfort" /\ j = o.entitet
    <3>1. jp' = [jp EXCEPT ![j].tilstand = "journalfoert"]
      BY <1>1, <2>2 DEF FaktaEtter, StatusTyper
    <3>2. jp'[j].tilstand = "journalfoert"
      BY <1>4, <3>1 DEF JpFakta
    <3> QED
      BY <1>1, <2>2, <3>2 DEF SvarSant
  <2>3. CASE ~(o.type \in StatusTyper \cup {"avvent_journalfort"} /\ j = o.entitet)
    BY <1>1, <1>4, <2>3 DEF FaktaEtter
  <2> QED
    BY <2>1, <2>2, <2>3
<1>8. \A j \in Journalposter :
         /\ Trinn(jp'[j].tilstand) <= Trinn(arkivJp'[j])
         /\ jp'[j].arkivId => arkivJp'[j] # "ikke_opprettet"
  <2> SUFFICES ASSUME NEW j \in Journalposter
               PROVE  /\ Trinn(jp'[j].tilstand) <= Trinn(arkivJp[j])
                      /\ jp'[j].arkivId => arkivJp[j] # "ikke_opprettet"
    BY <1>4
  <2>1. Trinn(arkivJp[j]) \in 0..5
    BY <1>4, TrinnType
  <2>2. Trinn("ikke_opprettet") = 0 /\ Trinn("journalfoert") = 4
    BY DEF Trinn
  <2>3. CASE jp'[j] = jp[j]
    BY <2>3 DEF FaktaHarDekning
  <2>4. CASE /\ o.type \in StatusTyper
             /\ jp'[j].tilstand = ny
             /\ Trinn(ny) <= Trinn(arkivJp[j]) /\ Trinn(ny) > 0
    <3>1. Trinn(ny) \in 0..5
      BY <2>4, NyTilstand, TrinnType
    <3> QED
      BY <2>1, <2>2, <2>4, <3>1
  <2>5. CASE jp'[j].tilstand = "journalfoert" /\ 4 <= Trinn(arkivJp[j])
    BY <2>1, <2>2, <2>5
  <2> QED
    BY <1>7, <2>3, <2>4, <2>5
<1>9. AvskrevetErInn'
  <2> SUFFICES ASSUME NEW c \in JournalpostKommandoer,
                      jp'[Payload[c].journalpost].tilstand = "avskrevet"
               PROVE  Payload[c].journalposttype = "I"
    BY DEF AvskrevetErInn
  <2> DEFINE j == Payload[c].journalpost
  <2>1. j \in Journalposter
    BY DEF Journalposter
  <2>2. CASE jp'[j] = jp[j]
    BY <2>2 DEF AvskrevetErInn
  <2>3. CASE j = o.entitet /\ o.type = "avskriv"
    BY <1>2, <2>3, Gjelder, EnKommando DEF StatusTyper
  <2> QED
    BY <1>7, <2>1, <2>2, <2>3
<1>10. ASSUME NEW c \in JournalpostKommandoer, NEW d \in DokumenterI(c),
              dok'[d] = "ok"
       PROVE  IArkivet(c, d)
  <2>1. d \in Dokumenter
    BY DEF Dokumenter
  <2>2. CASE dok[d] = "ok"
    BY <2>2 DEF FaktaHarDekning
  <2>3. CASE o.type = "legg_til_vedlegg" /\ d = o.entitet
    <3>1. /\ o.kommando \in JournalpostKommandoer
          /\ d \in DokumenterI(o.kommando)
      BY <1>2, <2>3, Gjelder
    <3>2. c = o.kommando
      BY <3>1, EnKommando
    <3>3. d # Hoveddokument(Payload[c])
      BY <1>2, <2>3, <3>2 DEF Grunnlag, GrunnlagFor
    <3> QED
      BY <1>3, <2>3, <3>2, <3>3 DEF IArkivet, SakTil, MutererArkivet, IdempotenteTyper
  <2>4. CASE o.type = "opprett_journalpost" /\ d = Hoveddokument(p)
    <3>1. /\ o.kommando \in JournalpostKommandoer
          /\ o.entitet = p.journalpost
      BY <1>2, <2>4, Gjelder DEF StatusTyper
    <3>2. HarHoveddokument(p)
      BY <1>2, <2>4 DEF Grunnlag, GrunnlagFor
    <3>3. d \in DokumenterI(o.kommando)
      BY <2>4, <3>1, <3>2, HovedErMed
    <3>4. c = o.kommando
      BY <3>1, <3>3, EnKommando
    <3> QED
      BY <1>3, <2>4, <3>1, <3>4 DEF IArkivet, SakTil, MutererArkivet, IdempotenteTyper
  <2> QED
    BY <1>1, <1>4, <1>10, <2>1, <2>2, <2>3, <2>4 DEF FaktaEtter
<1>11. FaktaHarDekning'
  BY <1>6, <1>8, <1>10, VirketVokser DEF FaktaHarDekning
<1>12. KomplettForStatusovergang'
  BY <1>4, VirketVokser DEF KomplettForStatusovergang
<1> QED
  BY <1>9, <1>11, <1>12

\* A poll writes only what it saw.
LEMMA DelPoll ==
    ASSUME TypeInv, IHanden, Dekning, Next, NEW e \in Executorer, FullforPoll(e)
    PROVE  FaktaDel'
<1> USE DEF FaktaDel, Dekning
<1> DEFINE o == minne[e].op
<1>1. /\ UNCHANGED <<sak, dok, arkivJp>>
      /\ jp \in [Journalposter -> JpFakta]
      /\ arkivJp \in [Journalposter -> JpTilstander]
      /\ \/ jp' = jp
         \/ /\ minne[e].svar = "poll_ekspedert"
            /\ jp' = [jp EXCEPT ![o.entitet].tilstand = "ekspedert"]
  BY DEF FullforPoll, arkivVars, TypeInv, TypeOK
<1>2. ASSUME NEW j \in Journalposter
      PROVE  /\ jp'[j].arkivId = jp[j].arkivId
             /\ \/ jp'[j].tilstand = jp[j].tilstand
                \/ jp'[j].tilstand = "ekspedert" /\ 3 <= Trinn(arkivJp[j])
  <2>1. CASE jp'[j] = jp[j]
    BY <2>1
  <2>2. CASE minne[e].svar = "poll_ekspedert" /\ j = o.entitet
    <3>1. 3 <= Trinn(arkivJp[j])
      BY <2>2 DEF SvarSant, FullforPoll
    <3> QED
      BY <1>1, <2>2, <3>1 DEF JpFakta
  <2> QED
    BY <1>1, <2>1, <2>2
<1>3. \A j \in Journalposter : Trinn(arkivJp[j]) \in 0..5 /\ Trinn("ekspedert") = 3
  BY <1>1, TrinnType DEF Trinn
<1>4. FaktaHarDekning'
  BY <1>1, <1>2, <1>3, VirketVokser DEF FaktaHarDekning
<1>5. KomplettForStatusovergang'
  BY <1>1, VirketVokser DEF KomplettForStatusovergang
<1>6. AvskrevetErInn'
  BY <1>2 DEF AvskrevetErInn, Journalposter
<1> QED
  BY <1>4, <1>5, <1>6

\* Facts are written when they have been earned, by a commit, a call or the robot.
LEMMA FaktaDelSteg ==
    ASSUME TypeInv, IHanden, Dekning, SvarHarVirkning, Next
    PROVE  FaktaDel'
<1>1. CASE UNCHANGED <<faktaVars, arkivVars>>
  BY <1>1 DEF faktaVars, arkivVars, Dekning, FaktaDel, FaktaHarDekning,
              KomplettForStatusovergang, AvskrevetErInn, Virket, IArkivet
<1> QED
  BY <1>1, Skrivere, DelDekomponering, DelRpa, DelKall, DelFerdig, DelPoll DEF Dekning

----------------------------------------------------------------------------
(* The basis of a decision *)

\* What `vurder` has checked when it says: carry it out.
LEMMA UtforGrunn ==
    ASSUME TypeInv, FaktaDel, NEW o \in Operasjoner, NEW s,
           Vurder(o, s, jp, dok, Ingen) = "utfor"
    PROVE  GrunnlagFor(o)
<1> DEFINE p == Payload[o.kommando]
           post == jp[p.journalpost]
<1>1. CASE o.type = "opprett_journalpost"
  <2>1. o.entitet = p.journalpost
    BY <1>1, Gjelder DEF StatusTyper
  <2>2. post.tilstand = "ikke_opprettet" /\ HarHoveddokument(p)
    BY <1>1 DEF Vurder, VurderOpprettJournalpost
  <2> QED
    BY <1>1, <2>1, <2>2 DEF GrunnlagFor, Trinn, NyJpTilstand
<1>2. CASE o.type \in {"journalfor", "sett_ekspedert", "klargjor_for_ekspedering"}
  <2>1. /\ o.kommando \in JournalpostKommandoer
        /\ o.entitet = p.journalpost /\ o.entitet \in Journalposter
        /\ o.type # "journalfor" => p.journalposttype = "U"
    BY <1>2, Gjelder DEF StatusTyper
  <2>2. /\ post.tilstand \notin UtfortI(o.type)
        /\ KrevDokumenterIArkiv(p, post, dok) = "utfor"
    BY <1>2 DEF Vurder, VurderStatusovergang
  <2>3. \A d \in DokumenterI(o.kommando) : dok[d] = "ok"
    BY <2>2 DEF KrevDokumenterIArkiv, DokumenterI
  <2>4. Komplett(o.kommando)
    BY <2>1, <2>3 DEF FaktaDel, FaktaHarDekning, Komplett
  <2>5. o.type # "journalfor" => post.tilstand # "avskrevet"
    BY <2>1 DEF FaktaDel, AvskrevetErInn
  <2>6. post.tilstand \in JpTilstander
    BY <2>1 DEF TypeInv, TypeOK, JpFakta
  <2>7. Trinn(post.tilstand) <= Trinn(NyJpTilstand(o.type))
    <3>1. CASE o.type = "journalfor"
      <4>1. post.tilstand \in JpTilstander \ {"journalfoert", "avskrevet"}
        BY <2>2, <2>6, <3>1 DEF UtfortI
      <4> QED
        BY <3>1, <4>1, TrinnVerdier, NyttTrinn DEF JpTilstander
    <3>2. CASE o.type = "sett_ekspedert"
      <4>1. post.tilstand \in JpTilstander \ {"ekspedert", "journalfoert", "avskrevet"}
        BY <2>2, <2>5, <2>6, <3>2 DEF UtfortI
      <4> QED
        BY <3>2, <4>1, TrinnVerdier, NyttTrinn DEF JpTilstander
    <3>3. CASE o.type = "klargjor_for_ekspedering"
      <4>1. post.tilstand \in {"ikke_opprettet", "opprettet"}
        BY <2>2, <2>5, <2>6, <3>3 DEF UtfortI, JpTilstander
      <4> QED
        BY <3>3, <4>1, TrinnVerdier, NyttTrinn
    <3> QED
      BY <1>2, <3>1, <3>2, <3>3
  <2> QED
    BY <1>2, <2>1, <2>4, <2>7 DEF GrunnlagFor
<1>3. CASE o.type = "avskriv"
  <2>1. /\ o.kommando \in JournalpostKommandoer
        /\ o.entitet = p.journalpost /\ o.entitet \in Journalposter
    BY <1>3, Gjelder DEF StatusTyper
  <2>2. post.tilstand = "journalfoert"
    BY <1>3 DEF Vurder, VurderAvskriv
  <2>3. Trinn(arkivJp[o.entitet]) > 1
    <3>1. Trinn(arkivJp[o.entitet]) \in 0..5
      BY <2>1, TrinnType DEF TypeInv, TypeOK
    <3>2. Trinn(post.tilstand) = 4
      BY <2>2 DEF Trinn
    <3> QED
      BY <2>1, <3>1, <3>2 DEF FaktaDel, FaktaHarDekning
  <2>4. Komplett(o.kommando)
    BY <2>1, <2>3 DEF FaktaDel, KomplettForStatusovergang, Komplett
  <2> QED
    BY <1>3, <2>1, <2>2, <2>4 DEF GrunnlagFor, Trinn, NyJpTilstand
<1>4. CASE o.type = "legg_til_vedlegg"
  <2>1. o.entitet # Hoveddokument(p)
    BY <1>4 DEF Vurder, VurderLeggTilVedlegg
  <2> QED
    BY <1>4, <2>1 DEF GrunnlagFor, StatusTyper
<1>5. CASE o.type \notin StatusTyper \cup {"legg_til_vedlegg"}
  BY <1>5 DEF GrunnlagFor, StatusTyper
<1> QED
  BY <1>1, <1>2, <1>3, <1>4, <1>5 DEF StatusTyper

\* While an executor has an operation in hand nobody writes a journal entry.
LEMMA JpUroert ==
    ASSUME TypeInv, Trygg, Next, NEW x \in Executorer, pc'[x] \in IArbeid
    PROVE  jp' = jp
<1>1. ASSUME NEW e \in Executorer, FullforOk(e) \/ FullforPoll(e)
      PROVE  FALSE
  <2>1. /\ pc \in [Executorer -> Steder]
        /\ pc[e] = "svar" /\ pc'[e] \in {"publiser", "ledig"}
        /\ e # x => pc'[x] = pc[x]
    BY <1>1 DEF FullforOk, FullforPoll, Ga, TypeInv, TypeOK
  <2>2. e # x
    BY <2>1 DEF IArbeid, Utforer
  <2> QED
    BY <2>1, <2>2, Alene DEF Trygg, IArbeid, Utforer
<1>2. CASE \E j \in Journalposter : Rpa(j)
  BY <1>2 DEF Rpa, dbVars, faktaVars
<1>3. CASE \E e \in Executorer : KallLykkes(e) \/ SvarTapt(e)
  BY <1>3 DEF KallLykkes, SvarTapt, dbVars, faktaVars
<1>4. CASE \E c \in Kommandoer : LagreDekomponering(c)
  BY <1>4 DEF LagreDekomponering
<1>5. CASE UNCHANGED <<faktaVars, arkivVars>>
  BY <1>5 DEF faktaVars
<1> QED
  BY <1>1, <1>2, <1>3, <1>4, <1>5, Skrivere

LEMMA GrunnlagSteg ==
    ASSUME TypeInv, Trygg, IHanden, Dekning, Next
    PROVE  Grunnlag'
<1> SUFFICES ASSUME NEW x \in Executorer, pc'[x] \in Utforer,
                    minne'[x].beslutning = "utfor"
             PROVE  GrunnlagFor(minne[x].op)'
  BY DEF Grunnlag
<1> DEFINE o == minne[x].op
<1>1. jp' = jp
  BY JpUroert DEF IArbeid
<1>2. \A q : GrunnlagFor(q) => GrunnlagFor(q)'
  BY <1>1, VirketVokser DEF GrunnlagFor
<1>3. minne'[x].op = o /\ GrunnlagFor(o)
  <2>1. CASE Uroert(x) \/ (pc[x] \in Utforer /\ SammeHand(x))
    BY <2>1 DEF Uroert, SammeHand, Dekning, Grunnlag
  <2>2. CASE LesFakta(x)
    <3>1. o \in Operasjoner
      BY <2>2 DEF LesFakta, IHanden, IArbeid, Rader
    <3>2. /\ minne'[x].op = o
          /\ Vurder(o, sak[SakTil(o)], jp, dok, Ingen) = "utfor"
      BY <2>2, Lest DEF Utforer
    <3> QED
      BY <3>1, <3>2, UtforGrunn DEF Dekning
  <2>3. CASE LesUdekomponerte(x)
    <3>1. o.type = "avslutt_sak"
      BY <2>3 DEF LesUdekomponerte, IHanden
    <3> QED
      BY <2>3, <3>1, Lest DEF GrunnlagFor, StatusTyper
  <2> QED
    BY <2>1, <2>2, <2>3, HandSteg, Hentet, Lest DEF IArbeid, Utforer
<1>4. PICK q : q = o /\ q = minne'[x].op /\ GrunnlagFor(q)
  BY <1>3
<1>5. GrunnlagFor(q)'
  BY <1>2, <1>4
<1> QED
  BY <1>4, <1>5 DEF GrunnlagFor

----------------------------------------------------------------------------
(* What an answer says *)

\* While an executor has an answer in hand only the robot moves an entry.
LEMMA ArkivUroert ==
    ASSUME TypeInv, Trygg, Next, NEW x \in Executorer, pc[x] = "svar"
    PROVE  arkivJp' = arkivJp \/ \E j \in Journalposter : Rpa(j)
<1>1. ASSUME NEW e \in Executorer, KallLykkes(e) \/ SvarTapt(e)
      PROVE  FALSE
  <2>1. pc[e] \in {"kjorer", "sendt"}
    BY <1>1, Kallsted DEF Kall
  <2> QED
    BY <2>1, Alene DEF Trygg
<1>2. CASE \E e \in Executorer : FullforOk(e) \/ FullforPoll(e)
  BY <1>2 DEF FullforOk, FullforPoll, arkivVars
<1>3. CASE \E c \in Kommandoer : LagreDekomponering(c)
  BY <1>3 DEF LagreDekomponering, arkivVars
<1>4. CASE UNCHANGED <<faktaVars, arkivVars>>
  BY <1>4 DEF arkivVars
<1> QED
  BY <1>1, <1>2, <1>3, <1>4, Skrivere

\* An answer of a call, with what it says of the archive.
LEMMA Besvart ==
    ASSUME TypeInv, NEW x \in Executorer, Kall(x), minne[x].op \in Operasjoner
    PROVE  LET o == minne[x].op IN
           /\ minne'[x].op = o
           /\ minne'[x].svar = "ferdig"
              => \/ o.type \in StatusTyper /\ arkivJp'[o.entitet] = NyJpTilstand(o.type)
                 \/ o.type = "avvent_journalfort" /\ arkivJp'[o.entitet] = "journalfoert"
                 \/ o.type \notin StatusTyper \cup {"avvent_journalfort"}
           /\ minne'[x].svar = "poll_ekspedert"
              => o.type = "avvent_journalfort" /\ arkivJp'[o.entitet] = "ekspedert"
<1> DEFINE o == minne[x].op
<1>1. /\ minne \in [Executorer -> Minne] /\ minne[x] \in Minne
      /\ arkivJp \in [Journalposter -> JpTilstander]
  BY DEF TypeInv, TypeOK
<1>2. ASSUME NEW svar, Svare(x, svar)
      PROVE  minne'[x].op = o /\ minne'[x].svar = svar
  BY <1>1, <1>2, SammeOperasjon DEF Svare, Sett
<1>3. CASE KallLykkes(x)
  <2>1. /\ minne'[x].op = o /\ minne'[x].svar = "ferdig"
        /\ o.type # "avvent_journalfort"
    BY <1>2, <1>3 DEF KallLykkes, MutererArkivet, IdempotenteTyper
  <2>2. ASSUME o.type \in StatusTyper
        PROVE  arkivJp'[o.entitet] = NyJpTilstand(o.type)
    <3>1. arkivJp' = [arkivJp EXCEPT ![o.entitet] = NyJpTilstand(o.type)]
      BY <1>3, <2>2 DEF KallLykkes, Virk
    <3>2. o.entitet \in Journalposter
      BY <2>2, Gjelder
    <3> QED
      BY <1>1, <3>1, <3>2
  <2> QED
    BY <2>1, <2>2
<1>4. CASE Render(x)
  BY <1>2, <1>4 DEF Render, StatusTyper
<1>5. CASE Poll(x)
  <2>1. o.type = "avvent_journalfort" /\ arkivJp' = arkivJp
    BY <1>5 DEF Poll, arkivVars
  <2>2. PICK svar : /\ Svare(x, svar)
                    /\ svar = CASE arkivJp[o.entitet] = "journalfoert" -> "ferdig"
                                [] arkivJp[o.entitet] = "ekspedert" -> "poll_ekspedert"
                                [] OTHER -> "poll"
    BY <1>5 DEF Poll
  <2> QED
    BY <1>2, <2>1, <2>2
<1>6. CASE \/ ManglerAttributter(x) \/ KallAvvises(x) \/ KallFeilerForVirkning(x)
           \/ SvarTapt(x)
  BY <1>2, <1>6 DEF ManglerAttributter, KallAvvises, KallFeilerForVirkning, SvarTapt
<1> QED
  BY <1>3, <1>4, <1>5, <1>6 DEF Kall

LEMMA SvarSantSteg ==
    ASSUME TypeInv, Trygg, IHanden, SvarSant, Next
    PROVE  SvarSant'
<1> SUFFICES ASSUME NEW x \in Executorer, pc'[x] = "svar"
             PROVE  LET m == minne'[x]
                        o == m.op
                    IN  /\ m.svar = "ferdig" /\ o.type \in StatusTyper
                           => Trinn(NyJpTilstand(o.type)) <= Trinn(arkivJp'[o.entitet])
                        /\ m.svar = "ferdig" /\ o.type = "avvent_journalfort"
                           => 4 <= Trinn(arkivJp'[o.entitet])
                        /\ m.svar = "poll_ekspedert"
                           => /\ o.type = "avvent_journalfort"
                              /\ 3 <= Trinn(arkivJp'[o.entitet])
  BY DEF SvarSant
<1> DEFINE o == minne[x].op
           ny == NyJpTilstand(o.type)
<1>0. /\ o.type \in StatusTyper => Trinn(ny) \in 0..5
      /\ Trinn("journalfoert") = 4 /\ Trinn("ekspedert") = 3
      /\ "avvent_journalfort" \notin StatusTyper
  BY NyTilstand, TrinnType DEF Trinn, StatusTyper
<1>1. CASE pc[x] = "svar" /\ minne'[x] = minne[x]
  <2>1. o \in Operasjoner
    BY <1>1 DEF IHanden, IArbeid, Utforer, Rader
  <2>2. o.type \in StatusTyper \cup {"avvent_journalfort"} => o.entitet \in Journalposter
    BY <2>1, Gjelder
  <2>3. /\ minne[x].svar = "ferdig" /\ o.type \in StatusTyper
           => Trinn(ny) <= Trinn(arkivJp[o.entitet])
        /\ minne[x].svar = "ferdig" /\ o.type = "avvent_journalfort"
           => 4 <= Trinn(arkivJp[o.entitet])
        /\ minne[x].svar = "poll_ekspedert"
           => o.type = "avvent_journalfort" /\ 3 <= Trinn(arkivJp[o.entitet])
    BY <1>1 DEF SvarSant
  <2>4. CASE arkivJp' = arkivJp
    BY <1>1, <2>3, <2>4
  <2>5. CASE \E j \in Journalposter : Rpa(j)
    <3>1. o.entitet \in Journalposter
          => /\ Trinn(arkivJp[o.entitet]) <= Trinn(arkivJp'[o.entitet])
             /\ Trinn(arkivJp[o.entitet]) \in 0..5
             /\ Trinn(arkivJp'[o.entitet]) \in 0..5
      BY <2>5, RpaTrinn
    <3> HIDE DEF o, ny
    <3> QED
      BY <1>0, <1>1, <2>2, <2>3, <3>1 DEF o, ny
  <2> QED
    BY <1>1, <2>4, <2>5, ArkivUroert
<1>2. CASE Kall(x)
  <2>1. o \in Operasjoner
    BY <1>2, Kallsted DEF IHanden, IArbeid, Utforer, Rader
  <2> QED
    BY <1>0, <1>2, <2>1, Besvart
<1> QED
  BY <1>1, <1>2, SvarSteg

----------------------------------------------------------------------------

LEMMA DekningInit == Init => Dekning
<1> SUFFICES ASSUME Init PROVE Dekning
  OBVIOUS
<1>1. FaktaHarDekning /\ AvskrevetErInn
  BY DEF Init, FaktaHarDekning, AvskrevetErInn, Trinn, Dokumenter, Journalposter
<1>2. KomplettForStatusovergang
  BY DEF Init, KomplettForStatusovergang, Trinn, Journalposter
<1>3. Grunnlag /\ SvarSant
  BY DEF Init, Grunnlag, SvarSant, Utforer
<1> QED
  BY <1>1, <1>2, <1>3 DEF Dekning, FaktaDel

LEMMA DekningSteg ==
    TypeInv /\ Trygg /\ IHanden /\ SvarHarVirkning /\ Dekning /\ [Next]_vars => Dekning'
<1> SUFFICES ASSUME TypeInv, Trygg, IHanden, SvarHarVirkning, Dekning, [Next]_vars
             PROVE  Dekning'
  OBVIOUS
<1>1. CASE Next
  BY <1>1, FaktaDelSteg, GrunnlagSteg, SvarSantSteg DEF Dekning
<1>2. CASE UNCHANGED vars
  <2>1. UNCHANGED <<sak, jp, dok, virkning, arkivJp, pc, minne>>
    BY <1>2 DEF vars, dbVars, arkivVars, execVars
  <2>2. FaktaDel'
    BY <2>1 DEF Dekning, FaktaDel, FaktaHarDekning, KomplettForStatusovergang,
                AvskrevetErInn, Virket, IArkivet
  <2>3. Grunnlag'
    BY <2>1 DEF Dekning, Grunnlag, GrunnlagFor, Komplett, Virket, IArkivet
  <2>4. SvarSant'
    BY <2>1 DEF Dekning, SvarSant
  <2> QED
    BY <2>2, <2>3, <2>4 DEF Dekning
<1> QED
  BY <1>1, <1>2

LEMMA DekningHolder == Spec => []Dekning
BY DekningInit, DekningSteg, TypeInvariant, TryggInvariant, IHandenHolder,
   SvarHarVirkningHolder, PTL DEF Spec

\* The facts never claim what the archive does not have, whatever was
\* interrupted between the call and the commit.
THEOREM FaktaHarDekningHolder == Spec => []FaktaHarDekning
<1>1. Dekning => FaktaHarDekning
  BY DEF Dekning, FaktaDel
<1> QED
  BY <1>1, DekningHolder, PTL

\* A journal entry leaves "opprettet" in the archive with all its documents in it.
THEOREM KomplettForStatusovergangHolder == Spec => []KomplettForStatusovergang
<1>1. Dekning => KomplettForStatusovergang
  BY DEF Dekning, FaktaDel
<1> QED
  BY <1>1, DekningHolder, PTL

----------------------------------------------------------------------------
(* The case officer *)

\* An operation without a row is as the database would create it.
UtenRad == \A o \in Operasjoner : o \notin Rader => status[o] = "blokkert"

RadHarSak == \A c \in dekomponert : sak[Payload[c].sak].rad

\* The officer of a case: who is wanted, who is recorded, who is set.  A wanted
\* officer that is not the recorded one has a row that is not done, and an
\* officer in the archive that is not the recorded one an effect that is not.
SakAnsvar(s) ==
    LET sett == Ansvarssett(s)
    IN  /\ ~sak[s].rad => sak[s].naa = Ingen
        /\ sett # {} => sak[s].oensket # Ingen
        /\ \/ sett = {} \/ sak[s].naa = sak[s].oensket
           \/ \E o \in sett : status[o] # "ok"
        /\ sett \cap tapte = {}
           => \/ arkivAnsvarlig[s] = sak[s].naa
              \/ \E o \in sett : virkning[o] > 0 /\ status[o] # "ok"

\* What an executor that sets an officer works from: the recorded officer is the
\* current one, and if the wanted one has changed since, another row waits.
HandAnsvar(e) ==
    LET m == minne[e]
        o == m.op
        s == SakTil(o)
    IN  pc[e] \in Utforer /\ o.type = "sett_saksansvarlig"
        => /\ m.sak.naa = sak[s].naa
           /\ m.beslutning = "allerede_utfort" => m.sak.oensket = m.sak.naa
           /\ \/ m.sak.oensket = sak[s].oensket
              \/ \E q \in Ansvarssett(s) : q # o /\ status[q] # "ok"
           /\ pc[e] = "svar" /\ m.svar = "ferdig"
              => arkivAnsvarlig[s] = m.sak.oensket

Ansvar ==
    /\ UtenRad
    /\ RadHarSak
    /\ \A s \in Saker : SakAnsvar(s)
    /\ \A e \in Executorer : HandAnsvar(e)

\* Only a commit makes an operation done.
LEMMA BlirOk ==
    ASSUME TypeInv, Next, NEW o \in Operasjoner, status[o] # "ok", status'[o] = "ok"
    PROVE  \E e \in Executorer :
              (FullforOk(e) \/ FullforAlleredeUtfort(e)) /\ minne[e].op = o
<1> USE DEF SkrivStatus
<1>1. status \in [Operasjoner -> Statuser]
  BY DEF TypeInv, TypeOK
<1>2. CASE Omgivelser
  BY <1>1, <1>2 DEF Omgivelser, Motta, LagreDekomponering, Frigi, Forkast, Rpa,
                    dbVars, GjenopptattStatus
<1>3. ASSUME NEW e \in Executorer, Leder(e) \/ Avbryt(e)
      PROVE  FALSE
  BY <1>1, <1>3
     DEF Leder, TaLederskap, Gjenopprett, HentUvarslet, VarsleOperasjon,
         VarsleKommando, MarkerVarslet, StartArbeid, Avbryt, dbVars, Gjenopprettet
<1>4. ASSUME NEW e \in Executorer,
             Beslutt(e) \/ \E p \in Operasjoner : Hent(e, p)
      PROVE  FullforAlleredeUtfort(e) /\ minne[e].op = o
  BY <1>1, <1>4
     DEF Beslutt, Hent, LesFakta, LesSosken, LesUdekomponerte, MarkerBlokkert,
         FullforAlleredeUtfort, MarkerUgyldig, MarkerKjorer, MarkerSendt, dbVars
<1>5. ASSUME NEW e \in Executorer, Kall(e)
      PROVE  FALSE
  BY <1>5 DEF Kall, KallLykkes, Render, Poll, ManglerAttributter, KallAvvises,
              KallFeilerForVirkning, SvarTapt, dbVars
<1>6. ASSUME NEW e \in Executorer, Avslutt(e)
      PROVE  FullforOk(e) /\ minne[e].op = o
  BY <1>1, <1>6
     DEF Avslutt, FullforOk, FullforPoll, MarkerRetry, MarkerFeilet,
         PubliserOperasjon, LesUtfall, PubliserKommando, dbVars
<1> QED
  BY <1>2, <1>3, <1>4, <1>5, <1>6 DEF Next

\* An operation is written only when it has a row.
LEMMA UtenRadSteg ==
    ASSUME TypeInv, IHanden, UtenRad, Next
    PROVE  UtenRad'
<1> USE DEF SkrivStatus
<1> SUFFICES ASSUME NEW o \in Operasjoner, o \notin Rader'
             PROVE  status'[o] = "blokkert"
  BY DEF UtenRad
<1>1. status \in [Operasjoner -> Statuser] /\ status[o] = "blokkert" /\ o \notin Rader
  BY DekomponertSteg DEF TypeInv, TypeOK, UtenRad, Rader
<1>2. CASE Omgivelser
  BY <1>1, <1>2 DEF Omgivelser, Motta, LagreDekomponering, Frigi, Forkast, Rpa,
                    dbVars, GjenopptattStatus
<1>3. ASSUME NEW e \in Executorer, Leder(e) \/ Avbryt(e)
      PROVE  status'[o] = "blokkert"
  BY <1>1, <1>3
     DEF Leder, TaLederskap, Gjenopprett, HentUvarslet, VarsleOperasjon,
         VarsleKommando, MarkerVarslet, StartArbeid, Avbryt, dbVars, Gjenopprettet
<1>4. ASSUME NEW e \in Executorer, pc[e] \in IArbeid
      PROVE  minne[e].op # o
  BY <1>1, <1>4 DEF IHanden
<1>5. ASSUME NEW e \in Executorer,
             Beslutt(e) \/ \E p \in Operasjoner : Hent(e, p)
      PROVE  status'[o] = "blokkert"
  BY <1>1, <1>4, <1>5
     DEF Beslutt, Hent, LesFakta, LesSosken, LesUdekomponerte, MarkerBlokkert,
         FullforAlleredeUtfort, MarkerUgyldig, MarkerKjorer, MarkerSendt, dbVars,
         IArbeid, Utforer
<1>6. ASSUME NEW e \in Executorer, Kall(e)
      PROVE  status' = status
  BY <1>6 DEF Kall, KallLykkes, Render, Poll, ManglerAttributter, KallAvvises,
              KallFeilerForVirkning, SvarTapt, dbVars
<1>7. ASSUME NEW e \in Executorer, Avslutt(e)
      PROVE  status'[o] = "blokkert"
  BY <1>1, <1>4, <1>7
     DEF Avslutt, FullforOk, FullforPoll, MarkerRetry, MarkerFeilet,
         PubliserOperasjon, LesUtfall, PubliserKommando, dbVars, IArbeid, Utforer
<1> QED
  BY <1>1, <1>2, <1>3, <1>5, <1>6, <1>7 DEF Next

\* What a decomposition does to the officer.
LEMMA SkrivSakAnsvar ==
    ASSUME NEW c \in Kommandoer, NEW s \in SakFakta
    PROVE  LET ny == SkrivSak(c, s)
               sett == Payload[c].type = "sett_saksansvarlig"
           IN  /\ ny.rad
               /\ ny.naa = IF s.rad THEN s.naa ELSE Ingen
               /\ sett => ny.oensket = Payload[c].ansvarlig
               /\ ~sett /\ s.rad => ny.oensket = s.oensket
<1>1. Payload[c].ansvarlig # Ingen
  BY GrenseAntagelse
<1>2. CASE s.rad
  BY <1>1, <1>2 DEF SkrivSak, SakFakta
<1>3. CASE ~s.rad
  BY <1>3 DEF SkrivSak
<1> QED
  BY <1>2, <1>3

LEMMA NyeAnsvarssett ==
    ASSUME TypeInv, UtenRad, NEW c \in Kommandoer, LagreDekomponering(c), NEW s \in Saker
    PROVE  /\ Payload[c].type # "sett_saksansvarlig" \/ Payload[c].sak # s
              => Ansvarssett(s)' = Ansvarssett(s)
           /\ Payload[c].type = "sett_saksansvarlig" /\ Payload[c].sak = s
              => \E n \in Ansvarssett(s)' : n \notin Rader /\ status'[n] # "ok"
<1>1. /\ c \notin dekomponert /\ dekomponert' = dekomponert \cup {c}
      /\ status' = status
  BY DEF LagreDekomponering
<1>2. CASE Payload[c].type # "sett_saksansvarlig" \/ Payload[c].sak # s
  <2>1. \A o \in OperasjonerPaa(s) :
           o.type = "sett_saksansvarlig" => o.kommando # c
    BY <1>2, Gjelder DEF OperasjonerPaa, SakTil
  <2> QED
    BY <1>1, <1>2, <2>1 DEF Ansvarssett, RaderPaa, Rader
<1>3. CASE Payload[c].type = "sett_saksansvarlig" /\ Payload[c].sak = s
  <2> DEFINE n == Operasjon(c, "sett_saksansvarlig", s)
  <2>1. /\ n \in Operasjoner
        /\ n.kommando = c /\ n.type = "sett_saksansvarlig"
    BY <1>3 DEF Operasjoner, Dekomponer, Operasjon
  <2> HIDE DEF n
  <2>2. n \in Ansvarssett(s)' /\ n \notin Rader
    BY <1>1, <1>3, <2>1 DEF Ansvarssett, RaderPaa, OperasjonerPaa, SakTil, Rader
  <2>3. status'[n] = "blokkert"
    BY <1>1, <2>1, <2>2 DEF UtenRad
  <2> QED
    BY <1>3, <2>2, <2>3
<1> QED
  BY <1>2, <1>3

\* The officer facts are written by a decomposition and by the commit of an
\* operation that sets the officer.
LEMMA SakSteg ==
    ASSUME TypeInv, IHanden, Next, NEW s \in Saker
    PROVE  \/ \E c \in Kommandoer :
                /\ LagreDekomponering(c) /\ s = Payload[c].sak
                /\ sak'[s] = SkrivSak(c, sak[s])
           \/ \E e \in Executorer :
                /\ FullforOk(e) /\ minne[e].op.type = "sett_saksansvarlig"
                /\ s = SakTil(minne[e].op)
                /\ sak'[s].naa = minne[e].sak.oensket
                /\ sak'[s].rad = sak[s].rad /\ sak'[s].oensket = sak[s].oensket
           \/ /\ sak'[s].rad = sak[s].rad /\ sak'[s].oensket = sak[s].oensket
              /\ sak'[s].naa = sak[s].naa
<1>1. sak \in [Saker -> SakFakta] /\ sak[s] \in SakFakta
  BY DEF TypeInv, TypeOK
<1>2. ASSUME NEW c \in Kommandoer, LagreDekomponering(c)
      PROVE  \/ s = Payload[c].sak /\ sak'[s] = SkrivSak(c, sak[s])
             \/ sak'[s] = sak[s]
  BY <1>1, <1>2 DEF LagreDekomponering
<1>3. ASSUME NEW e \in Executorer, FullforOk(e)
      PROVE  LET o == minne[e].op IN
             /\ sak'[s].rad = sak[s].rad /\ sak'[s].oensket = sak[s].oensket
             /\ \/ sak'[s].naa = sak[s].naa
                \/ /\ o.type = "sett_saksansvarlig" /\ s = SakTil(o)
                   /\ sak'[s].naa = minne[e].sak.oensket
  <2> DEFINE o == minne[e].op
             oensket == minne[e].sak.oensket
  <2>1. CASE s # SakTil(o)
    BY <1>1, <1>3, <2>1 DEF FullforOk, FaktaEtter
  <2>2. CASE s = SakTil(o) /\ o.type = "opprett_sak"
    <3>1. sak'[s] = [sak[s] EXCEPT !.arkivId = TRUE, !.tilstand = "opprettet"]
      BY <1>1, <1>3, <2>2 DEF FullforOk, FaktaEtter
    <3> QED
      BY <1>1, <3>1 DEF SakFakta
  <2>3. CASE s = SakTil(o) /\ o.type = "avslutt_sak"
    <3>1. sak'[s] = [sak[s] EXCEPT !.tilstand = "avsluttet"]
      BY <1>1, <1>3, <2>3 DEF FullforOk, FaktaEtter
    <3> QED
      BY <1>1, <3>1 DEF SakFakta
  <2>4. CASE s = SakTil(o) /\ o.type = "sett_saksansvarlig"
    <3>1. sak'[s] = [sak[s] EXCEPT !.naa = oensket]
      BY <1>1, <1>3, <2>4 DEF FullforOk, FaktaEtter
    <3> HIDE DEF oensket
    <3>2. /\ sak'[s].naa = oensket
          /\ sak'[s].rad = sak[s].rad /\ sak'[s].oensket = sak[s].oensket
      BY <1>1, <3>1 DEF SakFakta
    <3> QED
      BY <2>4, <3>2 DEF oensket
  <2>5. CASE /\ s = SakTil(o)
             /\ o.type \notin {"opprett_sak", "avslutt_sak", "sett_saksansvarlig"}
    BY <1>1, <1>3, <2>5 DEF FullforOk, FaktaEtter
  <2> QED
    BY <2>1, <2>2, <2>3, <2>4, <2>5
<1>4. CASE \E j \in Journalposter : Rpa(j)
  BY <1>4 DEF Rpa, dbVars, faktaVars
<1>5. CASE \E e \in Executorer : KallLykkes(e) \/ SvarTapt(e)
  BY <1>5 DEF KallLykkes, SvarTapt, dbVars, faktaVars
<1>6. CASE \E e \in Executorer : FullforPoll(e)
  BY <1>6 DEF FullforPoll
<1>7. CASE UNCHANGED <<faktaVars, arkivVars>>
  BY <1>7 DEF faktaVars
<1> QED
  BY <1>2, <1>3, <1>4, <1>5, <1>6, <1>7, Skrivere

\* The officer in the archive is set by a call.
LEMMA ArkivAnsvarligSteg ==
    ASSUME TypeInv, Next, NEW s \in Saker
    PROVE  \/ \E e \in Executorer :
                /\ KallLykkes(e) \/ SvarTapt(e)
                /\ minne[e].op.type = "sett_saksansvarlig" /\ s = SakTil(minne[e].op)
                /\ arkivAnsvarlig'[s] = minne[e].sak.oensket
           \/ arkivAnsvarlig'[s] = arkivAnsvarlig[s]
<1>1. arkivAnsvarlig \in [Saker -> Ansvarlige]
  BY DEF TypeInv, TypeOK
<1>2. CASE \E c \in Kommandoer : LagreDekomponering(c)
  BY <1>2 DEF LagreDekomponering, arkivVars
<1>3. CASE \E e \in Executorer : FullforOk(e) \/ FullforPoll(e)
  BY <1>3 DEF FullforOk, FullforPoll, arkivVars
<1>4. CASE \E j \in Journalposter : Rpa(j)
  BY <1>4 DEF Rpa
<1>5. ASSUME NEW e \in Executorer, KallLykkes(e) \/ SvarTapt(e)
      PROVE  \/ arkivAnsvarlig'[s] = arkivAnsvarlig[s]
             \/ /\ minne[e].op.type = "sett_saksansvarlig" /\ s = SakTil(minne[e].op)
                /\ arkivAnsvarlig'[s] = minne[e].sak.oensket
  BY <1>1, <1>5 DEF KallLykkes, SvarTapt, Virk
<1>6. CASE UNCHANGED <<faktaVars, arkivVars>>
  BY <1>6 DEF arkivVars
<1> QED
  BY <1>2, <1>3, <1>4, <1>5, <1>6, Skrivere

LEMMA TapteVokser ==
    ASSUME Next
    PROVE  tapte \subseteq tapte'
<1>1. CASE \E c \in Kommandoer : LagreDekomponering(c)
  BY <1>1 DEF LagreDekomponering, arkivVars
<1>2. CASE \E j \in Journalposter : Rpa(j)
  BY <1>2 DEF Rpa
<1>3. CASE \E e \in Executorer : KallLykkes(e) \/ SvarTapt(e)
  BY <1>3 DEF KallLykkes, SvarTapt
<1>4. CASE \E e \in Executorer : FullforOk(e) \/ FullforPoll(e)
  BY <1>4 DEF FullforOk, FullforPoll, arkivVars
<1>5. CASE UNCHANGED <<faktaVars, arkivVars>>
  BY <1>5 DEF arkivVars
<1> QED
  BY <1>1, <1>2, <1>3, <1>4, <1>5, Skrivere

\* A step that neither decomposes, sets nor records an officer on the case, and
\* does not complete a row that does.
LEMMA AnsvarStille ==
    ASSUME NEW s, SakAnsvar(s),
           Ansvarssett(s)' = Ansvarssett(s),
           sak'[s].rad = sak[s].rad, sak'[s].oensket = sak[s].oensket,
           sak'[s].naa = sak[s].naa, arkivAnsvarlig'[s] = arkivAnsvarlig[s],
           tapte \subseteq tapte',
           \A o \in Ansvarssett(s) : /\ status[o] # "ok" => status'[o] # "ok"
                                     /\ virkning[o] > 0 => virkning'[o] > 0
    PROVE  SakAnsvar(s)'
BY DEF SakAnsvar

LEMMA SakAnsvarSteg ==
    ASSUME TypeInv, Trygg, IHanden, Ansvar, Next, NEW s \in Saker
    PROVE  SakAnsvar(s)'
<1> DEFINE sett == Ansvarssett(s)
<1>1. SakAnsvar(s) /\ sak[s] \in SakFakta
  BY DEF Ansvar, TypeInv, TypeOK
<1>2. /\ sett \subseteq Operasjoner
      /\ \A o \in sett : /\ o.type = "sett_saksansvarlig" /\ SakTil(o) = s
                         /\ sak[s].rad
  BY DEF Ansvarssett, RaderPaa, OperasjonerPaa, Rader, Ansvar, RadHarSak, SakTil
<1>3. tapte \subseteq tapte' /\ \A o \in sett : virkning[o] > 0 => virkning'[o] > 0
  BY <1>2, TapteVokser, VirkningVokser
<1>4. ASSUME NEW e \in Executorer, pc[e] \in IArbeid,
             minne[e].op.type = "sett_saksansvarlig", SakTil(minne[e].op) = s
      PROVE  minne[e].op \in sett
  BY <1>4 DEF IHanden, Ansvarssett, RaderPaa, OperasjonerPaa, Rader
<1>5. ASSUME NEW c \in Kommandoer, LagreDekomponering(c)
      PROVE  SakAnsvar(s)'
  <2>1. UNCHANGED <<status, arkivVars>>
    BY <1>5 DEF LagreDekomponering
  <2>2. sak'[s] = IF s = Payload[c].sak THEN SkrivSak(c, sak[s]) ELSE sak[s]
    BY <1>5 DEF LagreDekomponering, TypeInv, TypeOK
  <2>3. UtenRad
    BY DEF Ansvar
  <2>4. CASE Payload[c].type = "sett_saksansvarlig" /\ Payload[c].sak = s
    <3>1. PICK n \in Ansvarssett(s)' : status'[n] # "ok"
      BY <1>5, <2>3, <2>4, NyeAnsvarssett
    <3>2. /\ sak'[s].rad /\ sak'[s].oensket # Ingen
          /\ sak'[s].naa = sak[s].naa
      BY <1>1, <2>2, <2>4, SkrivSakAnsvar, GrenseAntagelse DEF SakAnsvar
    <3>3. sett \subseteq Ansvarssett(s)'
      BY <1>5, DekomponertSteg DEF Ansvarssett, RaderPaa, Rader
    <3> HIDE DEF sett
    <3>4. sett = Ansvarssett(s)
      BY DEF sett
    <3> QED
      BY <1>1, <2>1, <3>1, <3>2, <3>3, <3>4 DEF SakAnsvar, arkivVars
  <2>5. CASE ~(Payload[c].type = "sett_saksansvarlig" /\ Payload[c].sak = s)
    <3>1. Ansvarssett(s)' = sett
      BY <1>5, <2>3, <2>5, NyeAnsvarssett
    <3>2. /\ sak'[s].naa = sak[s].naa
          /\ ~sak'[s].rad => ~sak[s].rad
          /\ sak[s].rad => sak'[s].oensket = sak[s].oensket
      BY <1>1, <2>2, <2>5, SkrivSakAnsvar DEF SakAnsvar
    <3> QED
      BY <1>1, <1>2, <2>1, <3>1, <3>2 DEF SakAnsvar, arkivVars
  <2> QED
    BY <2>4, <2>5
<1>6. ASSUME ~\E c \in Kommandoer : LagreDekomponering(c)
      PROVE  Ansvarssett(s)' = sett
  BY <1>6, DekomponertAv DEF Ansvarssett, RaderPaa, Rader
<1>7. ASSUME NEW e \in Executorer, FullforOk(e),
             minne[e].op.type = "sett_saksansvarlig", SakTil(minne[e].op) = s
      PROVE  SakAnsvar(s)'
  <2> DEFINE o == minne[e].op
  <2>1. /\ pc[e] = "svar" /\ minne[e].svar = "ferdig"
        /\ UNCHANGED <<dekomponert, arkivVars>>
        /\ status' = [status EXCEPT ![o] = "ok"]
    BY <1>7 DEF FullforOk, SkrivStatus
  <2>2. o \in sett
    BY <1>4, <1>7, <2>1 DEF IArbeid, Utforer
  <2>3. /\ arkivAnsvarlig[s] = minne[e].sak.oensket
        /\ \/ minne[e].sak.oensket = sak[s].oensket
           \/ \E q \in sett : q # o /\ status[q] # "ok"
    BY <1>7, <2>1 DEF Ansvar, HandAnsvar, Utforer
  <2>4. /\ sak'[s].naa = minne[e].sak.oensket
        /\ sak'[s].rad = sak[s].rad /\ sak'[s].oensket = sak[s].oensket
    <3>1. sak'[s] = [sak[s] EXCEPT !.naa = minne[e].sak.oensket]
      BY <1>7 DEF FullforOk, FaktaEtter, TypeInv, TypeOK
    <3> DEFINE n == minne[e].sak.oensket
    <3>2. sak'[s] = [sak[s] EXCEPT !.naa = n]
      BY <3>1
    <3> HIDE DEF n
    <3>3. /\ sak'[s].naa = n
          /\ sak'[s].rad = sak[s].rad /\ sak'[s].oensket = sak[s].oensket
      BY <1>1, <3>2 DEF SakFakta
    <3> QED
      BY <3>3 DEF n
  <2>5. Ansvarssett(s)' = sett
    BY <2>1 DEF Ansvarssett, RaderPaa, Rader
  <2>6. \A q \in sett : q # o => status'[q] = status[q]
    BY <2>1
  <2> HIDE DEF sett, o
  <2>7. sett = Ansvarssett(s)
    BY DEF sett
  <2> QED
    BY <1>1, <1>2, <2>1, <2>2, <2>3, <2>4, <2>5, <2>6, <2>7 DEF SakAnsvar, arkivVars
<1>8. ASSUME NEW e \in Executorer, FullforAlleredeUtfort(e),
             minne[e].op.type = "sett_saksansvarlig", SakTil(minne[e].op) = s
      PROVE  SakAnsvar(s)'
  <2> DEFINE o == minne[e].op
  <2>1. /\ pc[e] = "besluttet" /\ minne[e].beslutning = "allerede_utfort"
        /\ UNCHANGED <<dekomponert, sak, arkivVars>>
        /\ status' = [status EXCEPT ![o] = "ok"]
    BY <1>8 DEF FullforAlleredeUtfort, SkrivStatus, faktaVars
  <2>2. o \in sett
    BY <1>4, <1>8, <2>1 DEF IArbeid, Utforer
  <2>3. \/ sak[s].naa = sak[s].oensket
        \/ \E q \in sett : q # o /\ status[q] # "ok"
    BY <1>8, <2>1 DEF Ansvar, HandAnsvar, Utforer
  <2>4. o \notin tapte => ~(virkning[o] > 0)
    BY <1>2, <2>1, <2>2 DEF Trygg, VirkningErSkrevet, Fase, Ventende
  <2>5. Ansvarssett(s)' = sett
    BY <2>1 DEF Ansvarssett, RaderPaa, Rader
  <2>6. \A q \in sett : q # o => status'[q] = status[q]
    BY <2>1
  <2> HIDE DEF sett, o
  <2>7. sett = Ansvarssett(s)
    BY DEF sett
  <2> QED
    BY <1>1, <2>1, <2>2, <2>3, <2>4, <2>5, <2>6, <2>7 DEF SakAnsvar, arkivVars
<1>9. ASSUME NEW e \in Executorer, KallLykkes(e) \/ SvarTapt(e),
             minne[e].op.type = "sett_saksansvarlig", SakTil(minne[e].op) = s
      PROVE  SakAnsvar(s)'
  <2> DEFINE o == minne[e].op
  <2>1. /\ pc[e] \in {"kjorer", "sendt"}
        /\ UNCHANGED dbVars
        /\ virkning \in [Operasjoner -> 0..MaksVirkning]
        /\ virkning' = [virkning EXCEPT ![o] = @ + 1]
        /\ o \in tapte' \/ KallLykkes(e)
    BY <1>9, Kallsted DEF Kall, KallLykkes, SvarTapt, Virk, TypeInv, TypeOK
  <2>2. o \in sett
    BY <1>4, <1>9, <2>1 DEF IArbeid, Utforer
  <2>3. pc[e] = "sendt" /\ status[o] = "sendt"
    BY <1>9, <2>1 DEF KallLykkes, SvarTapt, KlarForKall, Trygg, Fase
  <2>4. virkning'[o] > 0
    BY <1>2, <2>1, <2>2
  <2>5. Ansvarssett(s)' = sett
    BY <2>1 DEF Ansvarssett, RaderPaa, Rader, dbVars
  <2> HIDE DEF sett, o
  <2>6. sett = Ansvarssett(s)
    BY DEF sett
  <2> QED
    BY <1>1, <2>1, <2>2, <2>3, <2>4, <2>5, <2>6 DEF SakAnsvar, dbVars, faktaVars
<1>10. CASE /\ ~\E c \in Kommandoer : LagreDekomponering(c)
            /\ ~\E e \in Executorer :
                  /\ \/ FullforOk(e) \/ FullforAlleredeUtfort(e)
                     \/ KallLykkes(e) \/ SvarTapt(e)
                  /\ minne[e].op.type = "sett_saksansvarlig"
                  /\ SakTil(minne[e].op) = s
  <2>1. Ansvarssett(s)' = sett
    BY <1>6, <1>10
  <2>2. /\ sak'[s].rad = sak[s].rad /\ sak'[s].oensket = sak[s].oensket
        /\ sak'[s].naa = sak[s].naa
    BY <1>10, SakSteg
  <2>3. arkivAnsvarlig'[s] = arkivAnsvarlig[s]
    BY <1>10, ArkivAnsvarligSteg
  <2>4. \A o \in sett : status[o] # "ok" => status'[o] # "ok"
    BY <1>2, <1>10, BlirOk
  <2> QED
    BY <1>1, <1>3, <2>1, <2>2, <2>3, <2>4, AnsvarStille
<1> QED
  BY <1>5, <1>7, <1>8, <1>9, <1>10

LEMMA RadHarSakSteg ==
    ASSUME TypeInv, IHanden, Ansvar, Next
    PROVE  RadHarSak'
<1> SUFFICES ASSUME NEW c \in dekomponert'
             PROVE  sak'[Payload[c].sak].rad
  BY DEF RadHarSak
<1>1. /\ dekomponert' \subseteq Kommandoer
      /\ \A s \in Saker : sak[s] \in SakFakta
  BY DekomponertAv DEF LagreDekomponering, TypeInv, TypeOK
<1> DEFINE s == Payload[c].sak
<1>2. s \in Saker
  BY <1>1 DEF Saker
<1>3. CASE c \in dekomponert
  BY <1>1, <1>2, <1>3, SakSteg, SkrivSakAnsvar DEF Ansvar, RadHarSak
<1>4. CASE c \notin dekomponert
  <2>1. PICK k \in Kommandoer : LagreDekomponering(k)
    BY <1>4, DekomponertAv
  <2>2. k = c /\ sak'[s] = SkrivSak(c, sak[s])
    BY <1>2, <1>4, <2>1 DEF LagreDekomponering, TypeInv, TypeOK
  <2> QED
    BY <1>1, <1>2, <2>2, SkrivSakAnsvar
<1> QED
  BY <1>3, <1>4

\* An executor at work is alone: nobody else commits or calls.
LEMMA IngenAndre ==
    ASSUME TypeInv, Trygg, NEW x \in Executorer, NEW e \in Executorer,
           pc[x] \in Utforer,
           \/ FullforOk(e) \/ FullforAlleredeUtfort(e)
           \/ KallLykkes(e) \/ SvarTapt(e)
    PROVE  e = x
<1>1. pc[e] # "stoppet"
  BY Kallsted DEF FullforOk, FullforAlleredeUtfort, Kall
<1> QED
  BY <1>1, Alene DEF Trygg, Utforer

\* Beside an executor that carries out its decision, another command may be
\* decomposed, and then its row waits.
LEMMA HandHolder ==
    ASSUME TypeInv, Trygg, IHanden, Ansvar, Next, NEW x \in Executorer,
           NEW o, o = minne[x].op, NEW s, s = SakTil(o),
           pc[x] \in Utforer, o.type = "sett_saksansvarlig", pc'[x] \in Utforer
    PROVE  /\ sak'[s].naa = sak[s].naa
           /\ sak'[s].oensket = sak[s].oensket
              \/ \E q \in Ansvarssett(s)' : q # o /\ status'[q] # "ok"
           /\ \A q \in Ansvarssett(s) :
                 /\ q \in Ansvarssett(s)'
                 /\ status[q] # "ok" => status'[q] # "ok"
<1>1. /\ o \in Rader /\ o \in Operasjoner /\ s \in Saker /\ o.kommando \in dekomponert
      /\ sak[s] \in SakFakta /\ sak[s].rad
  <2>1. o \in Rader
    BY DEF IHanden, IArbeid
  <2>2. o \in Operasjoner /\ o.kommando \in dekomponert
    BY <2>1 DEF Rader
  <2>3. s \in Saker
    BY <2>2, OperasjonType
  <2> QED
    BY <2>1, <2>2, <2>3 DEF Ansvar, RadHarSak, SakTil, TypeInv, TypeOK
<1>2. ASSUME NEW e \in Executorer, FullforOk(e) \/ FullforAlleredeUtfort(e)
      PROVE  FALSE
  <2>1. e = x
    BY <1>2, IngenAndre
  <2>2. pc'[x] = "publiser"
    BY <1>2, <2>1 DEF FullforOk, FullforAlleredeUtfort, Ga, TypeInv, TypeOK
  <2> QED
    BY <2>2 DEF Utforer
<1>3. ASSUME NEW c \in Kommandoer, LagreDekomponering(c), s = Payload[c].sak,
             sak'[s] = SkrivSak(c, sak[s])
      PROVE  /\ sak'[s].naa = sak[s].naa
             /\ sak'[s].oensket = sak[s].oensket
                \/ \E q \in Ansvarssett(s)' : q # o /\ status'[q] # "ok"
  <2>1. CASE Payload[c].type = "sett_saksansvarlig"
    <3>1. \E n \in Ansvarssett(s)' : n \notin Rader /\ status'[n] # "ok"
      BY <1>1, <1>3, <2>1, NyeAnsvarssett DEF Ansvar
    <3> QED
      BY <1>1, <1>3, <3>1, SkrivSakAnsvar
  <2>2. CASE Payload[c].type # "sett_saksansvarlig"
    BY <1>1, <1>3, <2>2, SkrivSakAnsvar
  <2> QED
    BY <2>1, <2>2
<1>4. /\ sak'[s].naa = sak[s].naa
      /\ sak'[s].oensket = sak[s].oensket
         \/ \E q \in Ansvarssett(s)' : q # o /\ status'[q] # "ok"
  BY <1>1, <1>2, <1>3, SakSteg
<1>5. Ansvarssett(s) \subseteq Ansvarssett(s)'
  BY DekomponertSteg DEF Ansvarssett, RaderPaa, Rader
<1>6. \A q \in Ansvarssett(s) : status[q] # "ok" => status'[q] # "ok"
  <2>1. Ansvarssett(s) \subseteq Operasjoner
    BY DEF Ansvarssett, RaderPaa, OperasjonerPaa
  <2> QED
    BY <1>2, <2>1, BlirOk
<1> QED
  BY <1>4, <1>5, <1>6

LEMMA HandAnsvarSteg ==
    ASSUME TypeInv, Trygg, IHanden, Ansvar, Next, NEW x \in Executorer
    PROVE  HandAnsvar(x)'
<1> SUFFICES ASSUME pc'[x] \in Utforer, minne'[x].op.type = "sett_saksansvarlig"
             PROVE  HandAnsvar(x)'
  BY DEF HandAnsvar
<1>1. PICK o, s : o = minne'[x].op /\ s = SakTil(o)
  OBVIOUS
<1>2. SUFFICES /\ minne'[x].sak.naa = sak'[s].naa
               /\ minne'[x].beslutning = "allerede_utfort"
                  => minne'[x].sak.oensket = minne'[x].sak.naa
               /\ \/ minne'[x].sak.oensket = sak'[s].oensket
                  \/ \E q \in Ansvarssett(s)' : q # o /\ status'[q] # "ok"
               /\ pc'[x] = "svar" /\ minne'[x].svar = "ferdig"
                  => arkivAnsvarlig'[s] = minne'[x].sak.oensket
  BY <1>1 DEF HandAnsvar, SakTil
<1>3. CASE pc[x] \in Utforer /\ minne[x].op = o
           /\ minne'[x].sak = minne[x].sak /\ minne'[x].beslutning = minne[x].beslutning
  <2>1. /\ minne[x].sak.naa = sak[s].naa
        /\ minne[x].beslutning = "allerede_utfort"
           => minne[x].sak.oensket = minne[x].sak.naa
        /\ \/ minne[x].sak.oensket = sak[s].oensket
           \/ \E q \in Ansvarssett(s) : q # o /\ status[q] # "ok"
        /\ pc[x] = "svar" /\ minne[x].svar = "ferdig"
           => arkivAnsvarlig[s] = minne[x].sak.oensket
    BY <1>1, <1>3 DEF Ansvar, HandAnsvar
  <2>2. /\ sak'[s].naa = sak[s].naa
        /\ sak'[s].oensket = sak[s].oensket
           \/ \E q \in Ansvarssett(s)' : q # o /\ status'[q] # "ok"
        /\ \A q \in Ansvarssett(s) :
              /\ q \in Ansvarssett(s)'
              /\ status[q] # "ok" => status'[q] # "ok"
    BY <1>1, <1>3, HandHolder
  <2>3. ASSUME pc'[x] = "svar", minne'[x].svar = "ferdig"
        PROVE  arkivAnsvarlig'[s] = minne[x].sak.oensket
    <3>1. o \in Operasjoner /\ s \in Saker
      BY <1>1, <1>3, OperasjonType DEF IHanden, IArbeid, Rader
    <3>2. CASE pc[x] = "svar" /\ minne'[x] = minne[x]
      <4>1. ~\E e \in Executorer : KallLykkes(e) \/ SvarTapt(e)
        BY <1>3, <3>2, IngenAndre, Kallsted DEF Kall
      <4> QED
        BY <2>1, <2>3, <3>1, <3>2, <4>1, ArkivAnsvarligSteg
    <3>3. CASE Kall(x)
      <4>1. KallLykkes(x)
        <5>1. \A svar : Svare(x, svar) => minne'[x].svar = svar
          BY SammeOperasjon DEF Svare, Sett, TypeInv, TypeOK
        <5>2. ~Render(x) /\ ~Poll(x)
          BY <1>1, <1>3 DEF Render, Poll
        <5> QED
          BY <2>3, <3>3, <5>1, <5>2
             DEF Kall, ManglerAttributter, KallAvvises, KallFeilerForVirkning, SvarTapt
      <4> QED
        BY <1>1, <1>3, <3>1, <4>1 DEF KallLykkes, Virk, TypeInv, TypeOK
    <3> QED
      BY <2>3, <3>2, <3>3, SvarSteg
  <2> QED
    BY <1>3, <2>1, <2>2, <2>3
<1>4. CASE LesFakta(x)
  <2>1. /\ minne[x].op = o
        /\ minne'[x].sak = sak[s]
        /\ pc'[x] = "besluttet"
        /\ minne'[x].beslutning = Vurder(o, sak[s], jp, dok, Ingen)
        /\ UNCHANGED <<sak, status>>
    BY <1>1, <1>4, Lest DEF LesFakta, Utforer, dbVars, faktaVars
  <2>2. o \in Ansvarssett(s) /\ s \in Saker
    <3>1. o \in Rader /\ o \in Operasjoner
      BY <1>4, <2>1 DEF LesFakta, IHanden, IArbeid, Rader
    <3> QED
      BY <1>1, <3>1, OperasjonType DEF Ansvarssett, RaderPaa, OperasjonerPaa
  <2>3. sak[s].oensket # Ingen
    BY <2>2 DEF Ansvar, SakAnsvar
  <2>4. minne'[x].beslutning = "allerede_utfort" => sak[s].oensket = sak[s].naa
    BY <1>1, <2>1, <2>3 DEF Vurder, VurderSettSaksansvarlig
  <2> QED
    BY <2>1, <2>4
<1>5. CASE LesUdekomponerte(x)
  BY <1>1, <1>5, Lest DEF LesUdekomponerte, IHanden
<1> QED
  BY <1>1, <1>3, <1>4, <1>5, HandSteg, Hentet, Lest DEF IArbeid, Utforer, Uroert, SammeHand

LEMMA AnsvarInit == Init => Ansvar
<1> SUFFICES ASSUME Init PROVE Ansvar
  OBVIOUS
<1>1. UtenRad /\ RadHarSak
  BY DEF Init, UtenRad, RadHarSak
<1>2. \A s \in Saker : SakAnsvar(s)
  BY DEF Init, SakAnsvar, Ansvarssett, RaderPaa, Rader
<1>3. \A e \in Executorer : HandAnsvar(e)
  BY DEF Init, HandAnsvar, Utforer
<1> QED
  BY <1>1, <1>2, <1>3 DEF Ansvar

LEMMA AnsvarSteg == TypeInv /\ Trygg /\ IHanden /\ Ansvar /\ [Next]_vars => Ansvar'
<1> SUFFICES ASSUME TypeInv, Trygg, IHanden, Ansvar, [Next]_vars PROVE Ansvar'
  OBVIOUS
<1>1. CASE Next
  <2>1. UtenRad'
    BY <1>1, UtenRadSteg DEF Ansvar
  <2> QED
    BY <1>1, <2>1, RadHarSakSteg, SakAnsvarSteg, HandAnsvarSteg DEF Ansvar
<1>2. CASE UNCHANGED vars
  BY <1>2 DEF vars, dbVars, arkivVars, execVars, Ansvar, UtenRad, RadHarSak, SakAnsvar,
              HandAnsvar, Ansvarssett, RaderPaa, Rader
<1> QED
  BY <1>1, <1>2

\* However decompositions, retries and interruptions fall: when every command
\* that sets the officer is done and none of its answers was lost, the archive
\* has the officer that was wanted last.
THEOREM SisteAnsvarligGjelderHolder == Spec => []SisteAnsvarligGjelder
<1>1. Ansvar => SisteAnsvarligGjelder
  BY DEF Ansvar, SakAnsvar, SisteAnsvarligGjelder
<1> QED
  BY <1>1, AnsvarInit, AnsvarSteg, TypeInvariant, TryggInvariant, IHandenHolder, PTL
     DEF Spec
=============================================================================
