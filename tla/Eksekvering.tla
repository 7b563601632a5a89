---------------------------- MODULE Eksekvering ----------------------------
(***************************************************************************)
(* Operation-based execution: the operation rows and facts in Postgres,    *)
(* the executor that carries one operation at a time to the archive        *)
(* (EksekverOperasjonService under OperasjonWorker), the writers it runs   *)
(* beside (ingest, decomposition, an operator's retry and discard), and    *)
(* the status stream the clients see.                                      *)
(*                                                                         *)
(* One action is one database transaction, one call to the archive or one  *)
(* published message; the executor can be interrupted between any two.     *)
(*                                                                         *)
(* Time is left out: an operation in klar, retry_venter or blokkert may be *)
(* picked at any moment, its neste_forsok_at having passed.                *)
(***************************************************************************)
EXTENDS Operasjoner

CONSTANTS
    Executorer,     \* instances of the service
    Ingen,          \* no lease holder, no operation, no case officer
    MaksVirkning,   \* bound: effects of one operation in the archive
    Forlop          \* bound: which commands arrive beside each other, and how many
                    \* answers are lost, commands discarded, executors interrupted

ASSUME GrenseAntagelse ==
    /\ MaksVirkning \in Nat \ {0}
    /\ Forlop \subseteq [kommandoer : SUBSET Kommandoer, tapte : Nat,
                         forkastet : Nat, avbrudd : Nat]
    /\ Ingen \notin Executorer
    /\ Ingen \notin Operasjoner
    /\ \A c \in Kommandoer : Payload[c].ansvarlig # Ingen

VARIABLES
    \* --- Postgres ---
    mottatt,        \* commands with a row linked to its case
    dekomponert,    \* commands with dekomponert_at: their operations exist
    forkastet,      \* commands with forkastet_at
    status,         \* operasjon.status; DB default blokkert until decomposed
    apneForsok,     \* operations with an open row in operasjon_forsok
    varslet,        \* operations with avklaring_varslet_at
    sak,            \* facts of the case (sak_tilstand, entitet.arkiv_id)
    jp,             \* facts of the journal entry
    dok,            \* dokument_tilstand.tilstand
    lease,          \* holder of the advisory lock
    \* --- the archive (external) ---
    virkning,       \* times the effect of an operation has been made
    tapte,          \* operations whose answer was lost after the effect
    arkivJp,        \* status of the journal entry in the archive
    arkivAnsvarlig, \* the officer last set by a command, by case
    \* --- the status stream: last event per operation and per command ---
    opStatus, kmdStatus,
    \* --- the executors ---
    pc,             \* where an executor is
    minne,          \* what it remembers between its steps
    avbrudd         \* interruptions so far

dbVars == <<mottatt, dekomponert, forkastet, status, apneForsok, varslet,
            sak, jp, dok, lease>>
arkivVars == <<virkning, tapte, arkivJp, arkivAnsvarlig>>
stromVars == <<opStatus, kmdStatus>>
execVars == <<pc, minne, avbrudd>>
faktaVars == <<sak, jp, dok>>
vars == <<dbVars, arkivVars, stromVars, execVars>>

----------------------------------------------------------------------------
(* Types *)

Ansvarlige == {Payload[c].ansvarlig : c \in Kommandoer} \cup {Ingen}

SakTilstander == {"ikke_opprettet", "opprettet", "avsluttet"}
SakFakta == [rad : BOOLEAN, arkivId : BOOLEAN, tilstand : SakTilstander,
             attributter : BOOLEAN, oensket : Ansvarlige, naa : Ansvarlige]

JpTilstander == {"ikke_opprettet", "opprettet", "klar_for_ekspedering",
                 "ekspedert", "journalfoert", "avskrevet"}
JpFakta == [arkivId : BOOLEAN, tilstand : JpTilstander]

DokTilstander == {"avventer_rendring", "klar", "ok"}

OpHendelser == {"ingen", "ok", "feilet", "forsok_feilet", "krever_avklaring"}
KmdHendelser == {"ingen", "fullfort", "feilet", "krever_avklaring"}

\* stoppet: not executor.  gjenopprett .. marker_varslet: recovery of a new
\* leader.  ledig .. publiser_kommando: one turn of run_next.
Steder == {"stoppet", "gjenopprett", "hent_uvarslet", "varsle",
           "varsle_kommando", "marker_varslet",
           "ledig", "hentet", "les_sosken", "les_udekomponerte", "besluttet",
           "kjorer", "sendt", "svar", "publiser", "les_utfall",
           "publiser_kommando"}

Svar == {"ingen", "ferdig", "poll", "poll_ekspedert", "recoverable",
         "irrecoverable"}

TomtMinne == [op |-> Ingen, sak |-> Ingen, sosken |-> {},
              beslutning |-> "ingen", svar |-> "ingen",
              hendelse |-> "ingen", utfall |-> "uavklart", uvarslet |-> {}]

Minne == [op : Operasjoner \cup {Ingen}, sak : SakFakta \cup {Ingen},
          sosken : SUBSET [op : Operasjoner, status : Statuser],
          beslutning : Beslutninger \cup {"ingen"}, svar : Svar,
          hendelse : OpHendelser, utfall : Utfall,
          uvarslet : SUBSET Operasjoner]

TypeOK ==
    /\ mottatt \subseteq Kommandoer
    /\ dekomponert \subseteq Kommandoer
    /\ forkastet \subseteq Kommandoer
    /\ status \in [Operasjoner -> Statuser]
    /\ apneForsok \subseteq Operasjoner
    /\ varslet \subseteq Operasjoner
    /\ sak \in [Saker -> SakFakta]
    /\ jp \in [Journalposter -> JpFakta]
    /\ dok \in [Dokumenter -> DokTilstander]
    /\ lease \in Executorer \cup {Ingen}
    /\ virkning \in [Operasjoner -> 0..MaksVirkning]
    /\ tapte \subseteq Operasjoner
    /\ arkivJp \in [Journalposter -> JpTilstander]
    /\ arkivAnsvarlig \in [Saker -> Ansvarlige]
    /\ opStatus \in [Operasjoner -> OpHendelser]
    /\ kmdStatus \in [Kommandoer -> KmdHendelser]
    /\ pc \in [Executorer -> Steder]
    /\ minne \in [Executorer -> Minne]
    /\ avbrudd \in Nat

Init ==
    /\ mottatt = {} /\ dekomponert = {} /\ forkastet = {}
    /\ status = [o \in Operasjoner |-> "blokkert"]
    /\ apneForsok = {} /\ varslet = {}
    /\ sak = [s \in Saker |->
                [rad |-> FALSE, arkivId |-> FALSE, tilstand |-> "ikke_opprettet",
                 attributter |-> FALSE, oensket |-> Ingen, naa |-> Ingen]]
    /\ jp = [j \in Journalposter |->
                [arkivId |-> FALSE, tilstand |-> "ikke_opprettet"]]
    /\ dok = [d \in Dokumenter |-> "klar"]
    /\ lease = Ingen
    /\ virkning = [o \in Operasjoner |-> 0]
    /\ tapte = {}
    /\ arkivJp = [j \in Journalposter |-> "ikke_opprettet"]
    /\ arkivAnsvarlig = [s \in Saker |-> Ingen]
    /\ opStatus = [o \in Operasjoner |-> "ingen"]
    /\ kmdStatus = [c \in Kommandoer |-> "ingen"]
    /\ pc = [e \in Executorer |-> "stoppet"]
    /\ minne = [e \in Executorer |-> TomtMinne]
    /\ avbrudd = 0

\* Bound: what the surroundings have done so far belongs to one of the courses.
Innenfor(kommandoer, mistet, slettet, brudd) ==
    \E F \in Forlop :
        /\ kommandoer \subseteq F.kommandoer /\ Cardinality(mistet) <= F.tapte
        /\ Cardinality(slettet) <= F.forkastet /\ brudd <= F.avbrudd

----------------------------------------------------------------------------
(* Writers beside the executor *)

\* Ingest commits the command's row and its link to the case (knytt_sak).
\* A client reference is known once a command that creates the case has been
\* received; a command on an unknown case is refused by validation.
SakKjent(c) ==
    \/ Payload[c].type = "opprett_sak" \/ Payload[c].kjentSaksnummer
    \/ \E d \in mottatt : /\ Payload[d].type = "opprett_sak"
                          /\ Payload[d].sak = Payload[c].sak

Motta(c) ==
    /\ c \notin mottatt /\ SakKjent(c)
    /\ mottatt' = mottatt \cup {c}
    /\ Innenfor(mottatt', tapte, forkastet, avbrudd)
    /\ UNCHANGED <<dekomponert, forkastet, status, apneForsok, varslet,
                   faktaVars, lease, arkivVars, stromVars, execVars>>

\* skriv_sak: the first command that reaches a case creates its row, with
\* attributes only if it is opprett_sak; a later one only changes the wanted
\* officer.  entitet.arkiv_id is set by a command that names the number.
SkrivSak(c, s) ==
    LET p == Payload[c]
        opprett == p.type = "opprett_sak"
        oensket == IF p.type = "sett_saksansvarlig" THEN p.ansvarlig ELSE Ingen
    IN  IF s.rad
        THEN [s EXCEPT !.oensket = IF oensket = Ingen THEN @ ELSE oensket]
        ELSE [rad |-> TRUE, arkivId |-> p.kjentSaksnummer,
              tilstand |-> IF opprett THEN "ikke_opprettet" ELSE "opprettet",
              attributter |-> opprett, oensket |-> oensket, naa |-> Ingen]

\* skriv_dokument: a template waits for rendering, bytes are ready.
SkrivDokumenter(c) ==
    IF Payload[c].type = "opprett_journalpost"
    THEN [d \in Dokumenter |->
            IF d \in DokumenterI(c) /\ ErMal(Kilde(Payload[c], d))
            THEN "avventer_rendring" ELSE dok[d]]
    ELSE dok

\* lagre_dekomponering: one transaction under a lock on the command's row.
\* The operations are inserted with the default status blokkert.
LagreDekomponering(c) ==
    /\ c \in mottatt /\ c \notin dekomponert /\ c \notin forkastet
    /\ dekomponert' = dekomponert \cup {c}
    /\ sak' = [sak EXCEPT ![Payload[c].sak] = SkrivSak(c, @)]
    /\ dok' = SkrivDokumenter(c)
    /\ UNCHANGED <<mottatt, forkastet, status, apneForsok, varslet, jp, lease,
                   arkivVars, stromVars, execVars>>

Rader == {o \in Operasjoner : o.kommando \in dekomponert}
RaderFor(c) == Dekomponer(c) \cap Rader
RaderPaa(s) == OperasjonerPaa(s) \cap Rader

\* AdminRetryRepository.frigi: all or nothing for the cases of the request.
\* The plan was made from an earlier read, so any decomposed commands do.
Frigi(kommandoer) ==
    /\ kommandoer # {} /\ kommandoer \subseteq dekomponert
    /\ \A c \in kommandoer :
          ~SakSperrerGjenopptak(RaderPaa(Payload[c].sak), status)
    /\ status' = [o \in Operasjoner |->
                    IF o.kommando \in kommandoer
                    THEN GjenopptattStatus(status[o]) ELSE status[o]]
    /\ UNCHANGED <<mottatt, dekomponert, forkastet, apneForsok, varslet,
                   faktaVars, lease, arkivVars, stromVars, execVars>>

\* AdminForkastRepository.forkast: the request is refused as a whole if a
\* command is unknown; a completed command is left alone.
Fullfort(c) == RaderFor(c) # {} /\ \A o \in RaderFor(c) : status[o] = "ok"

Forkast(kommandoer) ==
    /\ kommandoer # {} /\ kommandoer \subseteq mottatt
    /\ forkastet' = forkastet \cup {c \in kommandoer : ~Fullfort(c)}
    /\ Innenfor(mottatt, tapte, forkastet', avbrudd)
    /\ UNCHANGED <<mottatt, dekomponert, status, apneForsok, varslet,
                   faktaVars, lease, arkivVars, stromVars, execVars>>

----------------------------------------------------------------------------
(* Executor: leadership and recovery *)

Ga(e, sted) == pc' = [pc EXCEPT ![e] = sted]
Sett(e, m) == minne' = [minne EXCEPT ![e] = m]

\* vent_paa_lederskap: the advisory lock of a detached connection.
TaLederskap(e) ==
    /\ pc[e] = "stoppet" /\ lease = Ingen
    /\ lease' = e
    /\ Ga(e, "gjenopprett")
    /\ UNCHANGED <<mottatt, dekomponert, forkastet, status, apneForsok,
                   varslet, faktaVars, arkivVars, stromVars, minne, avbrudd>>

\* Mutant: an operation that was not sent is put before a human as well.
Gjenopprettet_AltUavklart(st) ==
    IF st \in {"kjorer", "sendt"} THEN "krever_avklaring" ELSE st

\* gjenopprett_etter_restart: interrupted before the call, try again;
\* interrupted after `sendt`, the outcome is unknown.  Open attempts close.
Gjenopprettet(st) == CASE st = "kjorer" -> "klar"
                       [] st = "sendt" -> "krever_avklaring"
                       [] OTHER -> st

Gjenopprett(e) ==
    /\ pc[e] = "gjenopprett"
    /\ status' = [o \in Operasjoner |-> Gjenopprettet(status[o])]
    /\ apneForsok' = {}
    /\ Ga(e, "hent_uvarslet")
    /\ UNCHANGED <<mottatt, dekomponert, forkastet, varslet, faktaVars, lease,
                   arkivVars, stromVars, minne, avbrudd>>

\* Mutant: the operations are marked as told when they are read.
HentUvarslet_MerkerVedLesing(e) ==
    /\ pc[e] = "hent_uvarslet"
    /\ LET uvarslet == {o \in Rader : /\ status[o] = "krever_avklaring"
                                      /\ o \notin varslet}
       IN  /\ Sett(e, [TomtMinne EXCEPT !.uvarslet = uvarslet])
           /\ varslet' = varslet \cup uvarslet
    /\ Ga(e, "varsle")
    /\ UNCHANGED <<mottatt, dekomponert, forkastet, status, apneForsok,
                   faktaVars, lease, arkivVars, stromVars, avbrudd>>

\* hent_krever_avklaring: the list is read once.
HentUvarslet(e) ==
    /\ pc[e] = "hent_uvarslet"
    /\ LET uvarslet == {o \in Rader : /\ status[o] = "krever_avklaring"
                                      /\ o \notin varslet}
       IN  Sett(e, [TomtMinne EXCEPT !.uvarslet = uvarslet])
    /\ Ga(e, "varsle")
    /\ UNCHANGED <<dbVars, arkivVars, stromVars, avbrudd>>

\* varsle_krever_avklaring: the operation's event, then the command's if the
\* fold says so, then the mark.  Reading the fold and publishing it are one
\* step, since nobody can change a fold away from krever_avklaring.
VarsleOperasjon(e) ==
    /\ pc[e] = "varsle"
    /\ \E o \in minne[e].uvarslet :
         /\ opStatus' = [opStatus EXCEPT ![o] = "krever_avklaring"]
         /\ Sett(e, [minne[e] EXCEPT !.op = o, !.uvarslet = @ \ {o}])
    /\ Ga(e, "varsle_kommando")
    /\ UNCHANGED <<dbVars, arkivVars, kmdStatus, avbrudd>>

VarsleKommando(e) ==
    LET c == minne[e].op.kommando
    IN  /\ pc[e] = "varsle_kommando"
        /\ kmdStatus' = IF Fold(RaderFor(c), status) = "krever_avklaring"
                        THEN [kmdStatus EXCEPT ![c] = "krever_avklaring"]
                        ELSE kmdStatus
        /\ Ga(e, "marker_varslet")
        /\ UNCHANGED <<dbVars, arkivVars, opStatus, minne, avbrudd>>

MarkerVarslet(e) ==
    /\ pc[e] = "marker_varslet"
    /\ varslet' = varslet \cup {minne[e].op}
    /\ Ga(e, "varsle")
    /\ Sett(e, [minne[e] EXCEPT !.op = Ingen])
    /\ UNCHANGED <<mottatt, dekomponert, forkastet, status, apneForsok,
                   faktaVars, lease, arkivVars, stromVars, avbrudd>>

StartArbeid(e) ==
    /\ pc[e] = "varsle" /\ minne[e].uvarslet = {}
    /\ Ga(e, "ledig")
    /\ UNCHANGED <<dbVars, arkivVars, stromVars, minne, avbrudd>>

\* A crash, an aborted task, or an error from the database or the publisher
\* that makes OperasjonWorker::run return: the connection that holds the
\* lock is dropped, and with it everything the executor remembers.
Avbryt(e) ==
    /\ pc[e] # "stoppet"
    /\ avbrudd' = avbrudd + 1
    /\ Innenfor(mottatt, tapte, forkastet, avbrudd')
    /\ Ga(e, "stoppet")
    /\ Sett(e, TomtMinne)
    /\ lease' = IF lease = e THEN Ingen ELSE lease
    /\ UNCHANGED <<mottatt, dekomponert, forkastet, status, apneForsok,
                   varslet, faktaVars, arkivVars, stromVars>>

----------------------------------------------------------------------------
(* Executor: choosing and judging an operation *)

\* Mutant: blocked operations wait to be woken.
Kjorbar_UtenBlokkert(o) ==
    /\ o \in Rader
    /\ status[o] \in {"klar", "retry_venter"}
    /\ o.kommando \notin forkastet

\* hent_neste_kjorbare.
Kjorbar(o) ==
    /\ o \in Rader
    /\ status[o] \in {"klar", "retry_venter", "blokkert"}
    /\ o.kommando \notin forkastet

Hent(e, o) ==
    /\ pc[e] = "ledig" /\ Kjorbar(o)
    /\ Ga(e, "hentet")
    /\ Sett(e, [TomtMinne EXCEPT !.op = o])
    /\ UNCHANGED <<dbVars, arkivVars, stromVars, avbrudd>>

\* hent_sak_med_barn: the facts are a snapshot.  An ordinary operation is
\* judged from it at once; of its parts only the case's are used later on.
LesFakta(e) ==
    LET o == minne[e].op
        s == sak[SakTil(o)]
    IN  /\ pc[e] = "hentet"
        /\ IF o.type = "avslutt_sak"
           THEN /\ Ga(e, "les_sosken")
                /\ Sett(e, [minne[e] EXCEPT !.sak = s])
           ELSE /\ Ga(e, "besluttet")
                /\ Sett(e, [minne[e] EXCEPT
                              !.sak = s,
                              !.beslutning = Vurder(o, s, jp, dok, Ingen)])
        /\ UNCHANGED <<dbVars, arkivVars, stromVars, avbrudd>>

\* beslutt, first read: the operations of the case, save those of discarded
\* commands.
LesSosken(e) ==
    /\ pc[e] = "les_sosken"
    /\ LET sosken == {o \in RaderPaa(SakTil(minne[e].op)) :
                        o.kommando \notin forkastet}
       IN  Sett(e, [minne[e] EXCEPT
                      !.sosken = {[op |-> o, status |-> status[o]] : o \in sosken}])
    /\ Ga(e, "les_udekomponerte")
    /\ UNCHANGED <<dbVars, arkivVars, stromVars, avbrudd>>

\* beslutt, second read: received commands without operations.
Udekomponerte(s) ==
    {c \in mottatt \ (dekomponert \cup forkastet) : Payload[c].sak = s}

LesUdekomponerte(e) ==
    LET o == minne[e].op
        s == SakTil(o)
    IN  /\ pc[e] = "les_udekomponerte"
        /\ Sett(e, [minne[e] EXCEPT !.beslutning =
                      VurderAvsluttSak(o, minne[e].sak, minne[e].sosken,
                                       Udekomponerte(s))])
        /\ Ga(e, "besluttet")
        /\ UNCHANGED <<dbVars, arkivVars, stromVars, avbrudd>>

----------------------------------------------------------------------------
(* Executor: carrying it out *)

\* Every mark_* is an unguarded UPDATE, but the row check
\* (status IN ('ok','feilet')) = (ferdig_at IS NOT NULL) refuses a
\* non-terminal status over a terminal one; the executor is then interrupted.
KanSkrive(o, st) == status[o] \in Terminale => st \in Terminale
SkrivStatus(o, st) == /\ KanSkrive(o, st)
                      /\ status' = [status EXCEPT ![o] = st]

MarkerBlokkert(e) ==
    /\ pc[e] = "besluttet" /\ minne[e].beslutning = "blokkert"
    /\ SkrivStatus(minne[e].op, "blokkert")
    /\ Ga(e, "ledig") /\ Sett(e, TomtMinne)
    /\ UNCHANGED <<mottatt, dekomponert, forkastet, apneForsok, varslet,
                   faktaVars, lease, arkivVars, stromVars, avbrudd>>

\* fullfor_ok with attempt 0 and no facts, then the event.
FullforAlleredeUtfort(e) ==
    /\ pc[e] = "besluttet" /\ minne[e].beslutning = "allerede_utfort"
    /\ SkrivStatus(minne[e].op, "ok")
    /\ Ga(e, "publiser")
    /\ Sett(e, [minne[e] EXCEPT !.hendelse = "ok"])
    /\ UNCHANGED <<mottatt, dekomponert, forkastet, apneForsok, varslet,
                   faktaVars, lease, arkivVars, stromVars, avbrudd>>

\* marker_feilet with attempt 0, then the event.
MarkerUgyldig(e) ==
    /\ pc[e] = "besluttet" /\ minne[e].beslutning = "ugyldig"
    /\ SkrivStatus(minne[e].op, "feilet")
    /\ Ga(e, "publiser")
    /\ Sett(e, [minne[e] EXCEPT !.hendelse = "feilet"])
    /\ UNCHANGED <<mottatt, dekomponert, forkastet, apneForsok, varslet,
                   faktaVars, lease, arkivVars, stromVars, avbrudd>>

MarkerKjorer(e) ==
    /\ pc[e] = "besluttet" /\ minne[e].beslutning = "utfor"
    /\ SkrivStatus(minne[e].op, "kjorer")
    /\ apneForsok' = apneForsok \cup {minne[e].op}
    /\ Ga(e, "kjorer")
    /\ UNCHANGED <<mottatt, dekomponert, forkastet, varslet, faktaVars, lease,
                   arkivVars, stromVars, minne, avbrudd>>

\* The at-most-once boundary: written before the call, for the operations
\* that change the archive.
MarkerSendt(e) ==
    /\ pc[e] = "kjorer" /\ MutererArkivet(minne[e].op.type)
    /\ SkrivStatus(minne[e].op, "sendt")
    /\ Ga(e, "sendt")
    /\ UNCHANGED <<mottatt, dekomponert, forkastet, apneForsok, varslet,
                   faktaVars, lease, arkivVars, stromVars, minne, avbrudd>>

\* An idempotent operation is called without passing through `sendt`.
KlarForKall(e) == \/ pc[e] = "sendt"
                  \/ pc[e] = "kjorer" /\ ~MutererArkivet(minne[e].op.type)

\* arkivkall reads the case's attributes before it creates the case and gives
\* up for good without them (intern_sak_attributter_mangler).
HarAttributter(o) == o.type = "opprett_sak" => sak[SakTil(o)].attributter

Svare(e, svar) == /\ Ga(e, "svar")
                  /\ Sett(e, [minne[e] EXCEPT !.svar = svar])

\* The status each operation gives its journal entry, in the archive and,
\* once committed, in the facts.
NyJpTilstand(type) ==
    CASE type = "opprett_journalpost" -> "opprettet"
      [] type = "journalfor" -> "journalfoert"
      [] type = "sett_ekspedert" -> "ekspedert"
      [] type = "klargjor_for_ekspedering" -> "klar_for_ekspedering"
      [] type = "avskriv" -> "avskrevet"

StatusTyper == {"opprett_journalpost", "journalfor", "sett_ekspedert",
                "klargjor_for_ekspedering", "avskriv"}

\* What a call does in the archive; m is what the executor remembers.
Virk(o, m) ==
    /\ virkning[o] < MaksVirkning
    /\ virkning' = [virkning EXCEPT ![o] = @ + 1]
    /\ arkivJp' = IF o.type \in StatusTyper
                  THEN [arkivJp EXCEPT ![o.entitet] = NyJpTilstand(o.type)]
                  ELSE arkivJp
    /\ arkivAnsvarlig' = IF o.type = "sett_saksansvarlig"
                         THEN [arkivAnsvarlig EXCEPT ![SakTil(o)] = m.sak.oensket]
                         ELSE arkivAnsvarlig

\* Mutant: the client repeats a call within one attempt.
KallLykkes_Gjentas(e) ==
    LET o == minne[e].op
    IN  /\ KlarForKall(e) /\ MutererArkivet(o.type) /\ HarAttributter(o)
        /\ Virk(o, minne[e]) /\ tapte' = tapte
        /\ IF virkning[o] = 0 THEN UNCHANGED <<pc, minne>> ELSE Svare(e, "ferdig")
        /\ UNCHANGED <<dbVars, stromVars, avbrudd>>

KallLykkes(e) ==
    LET o == minne[e].op
    IN  /\ KlarForKall(e) /\ MutererArkivet(o.type) /\ HarAttributter(o)
        /\ Virk(o, minne[e]) /\ tapte' = tapte
        /\ Svare(e, "ferdig")
        /\ UNCHANGED <<dbVars, stromVars, avbrudd>>

\* render_dokument keeps to our own stores; a rendered file that was not
\* committed is found again.
Render(e) ==
    /\ KlarForKall(e) /\ minne[e].op.type = "render_dokument"
    /\ Svare(e, "ferdig")
    /\ UNCHANGED <<dbVars, arkivVars, stromVars, avbrudd>>

\* avvent_journalfort: one poll of the entry's status in the archive.
Poll(e) ==
    LET o == minne[e].op
    IN  /\ KlarForKall(e) /\ o.type = "avvent_journalfort"
        /\ Svare(e, CASE arkivJp[o.entitet] = "journalfoert" -> "ferdig"
                      [] arkivJp[o.entitet] = "ekspedert" -> "poll_ekspedert"
                      [] OTHER -> "poll")
        /\ UNCHANGED <<dbVars, arkivVars, stromVars, avbrudd>>

ManglerAttributter(e) ==
    /\ KlarForKall(e) /\ ~HarAttributter(minne[e].op)
    /\ Svare(e, "irrecoverable")
    /\ UNCHANGED <<dbVars, arkivVars, stromVars, avbrudd>>

\* The archive refuses, or our own data is missing: nothing happened.
KallAvvises(e) ==
    /\ KlarForKall(e)
    /\ Svare(e, "irrecoverable")
    /\ UNCHANGED <<dbVars, arkivVars, stromVars, avbrudd>>

\* A transient error before anything happened in the archive.
KallFeilerForVirkning(e) ==
    /\ KlarForKall(e)
    /\ Svare(e, "recoverable")
    /\ UNCHANGED <<dbVars, arkivVars, stromVars, avbrudd>>

\* The effect was made, but the answer timed out, was cut off or could not be
\* parsed: the client maps all of these to a recoverable error.
SvarTapt(e) ==
    LET o == minne[e].op
    IN  /\ KlarForKall(e) /\ MutererArkivet(o.type) /\ HarAttributter(o)
        /\ Innenfor(mottatt, tapte \cup {o}, forkastet, avbrudd)
        /\ virkning[o] + 1 < MaksVirkning     \* leaves room for the retry
        /\ Virk(o, minne[e]) /\ tapte' = tapte \cup {o}
        /\ Svare(e, "recoverable")
        /\ UNCHANGED <<dbVars, stromVars, avbrudd>>

----------------------------------------------------------------------------
(* Executor: settling the outcome *)

\* Mutant: the officer recorded as set is the one wanted now.
FaktaEtter_NyttOensket(o, m) ==
    /\ sak' = [sak EXCEPT ![SakTil(o)] =
                 CASE o.type = "opprett_sak" ->
                        [@ EXCEPT !.arkivId = TRUE, !.tilstand = "opprettet"]
                   [] o.type = "sett_saksansvarlig" -> 
                        [@ EXCEPT !.naa = sak[SakTil(o)].oensket]
                   [] OTHER -> @]
    /\ UNCHANGED <<jp, dok>>

\* skriv_fakta for a completed operation, as its Faktaoppdatering says.
FaktaEtter(o, m) ==
    /\ sak' = [sak EXCEPT ![SakTil(o)] =
                 CASE o.type = "opprett_sak" ->
                        [@ EXCEPT !.arkivId = TRUE, !.tilstand = "opprettet"]
                   [] o.type = "avslutt_sak" -> [@ EXCEPT !.tilstand = "avsluttet"]
                   [] o.type = "sett_saksansvarlig" ->
                        [@ EXCEPT !.naa = m.sak.oensket]
                   [] OTHER -> @]
    /\ jp' = CASE o.type \in StatusTyper ->
                    [jp EXCEPT ![o.entitet] =
                       [arkivId |-> @.arkivId \/ o.type = "opprett_journalpost",
                        tilstand |-> NyJpTilstand(o.type)]]
               [] o.type = "avvent_journalfort" ->
                    [jp EXCEPT ![o.entitet].tilstand = "journalfoert"]
               [] OTHER -> jp
    /\ dok' = CASE o.type = "render_dokument" -> [dok EXCEPT ![o.entitet] = "klar"]
                [] o.type = "legg_til_vedlegg" -> [dok EXCEPT ![o.entitet] = "ok"]
                [] o.type = "opprett_journalpost" ->
                     [dok EXCEPT ![Hoveddokument(Payload[o.kommando])] = "ok"]
                [] OTHER -> dok

\* fullfor_ok: status, attempt and facts in one transaction.
FullforOk(e) ==
    LET o == minne[e].op
    IN  /\ pc[e] = "svar" /\ minne[e].svar = "ferdig"
        /\ SkrivStatus(o, "ok")
        /\ apneForsok' = apneForsok \ {o}
        /\ FaktaEtter(o, minne[e])
        /\ Ga(e, "publiser")
        /\ Sett(e, [minne[e] EXCEPT !.hendelse = "ok"])
        /\ UNCHANGED <<mottatt, dekomponert, forkastet, varslet, lease,
                       arkivVars, stromVars, avbrudd>>

\* Mutant: every poll that is not done writes E.
FullforPoll_AlltidEkspedert(e) ==
    LET o == minne[e].op
    IN  /\ pc[e] = "svar" /\ minne[e].svar \in {"poll", "poll_ekspedert"}
        /\ SkrivStatus(o, "retry_venter")
        /\ apneForsok' = apneForsok \ {o}
        /\ jp' = [jp EXCEPT ![o.entitet].tilstand = "ekspedert"]
        /\ Ga(e, "ledig") /\ Sett(e, TomtMinne)
        /\ UNCHANGED <<mottatt, dekomponert, forkastet, varslet, sak, dok,
                       lease, arkivVars, stromVars, avbrudd>>

\* fullfor_poll: an observed E is written as a fact while we wait for J.
FullforPoll(e) ==
    LET o == minne[e].op
    IN  /\ pc[e] = "svar" /\ minne[e].svar \in {"poll", "poll_ekspedert"}
        /\ SkrivStatus(o, "retry_venter")
        /\ apneForsok' = apneForsok \ {o}
        /\ jp' = IF minne[e].svar = "poll_ekspedert"
                 THEN [jp EXCEPT ![o.entitet].tilstand = "ekspedert"] ELSE jp
        /\ Ga(e, "ledig") /\ Sett(e, TomtMinne)
        /\ UNCHANGED <<mottatt, dekomponert, forkastet, varslet, sak, dok,
                       lease, arkivVars, stromVars, avbrudd>>

MarkerRetry(e) ==
    LET o == minne[e].op
    IN  /\ pc[e] = "svar" /\ minne[e].svar = "recoverable"
        /\ SkrivStatus(o, "retry_venter")
        /\ apneForsok' = apneForsok \ {o}
        /\ Ga(e, "publiser")
        /\ Sett(e, [minne[e] EXCEPT !.hendelse = "forsok_feilet"])
        /\ UNCHANGED <<mottatt, dekomponert, forkastet, varslet, faktaVars,
                       lease, arkivVars, stromVars, avbrudd>>

MarkerFeilet(e) ==
    LET o == minne[e].op
    IN  /\ pc[e] = "svar" /\ minne[e].svar = "irrecoverable"
        /\ SkrivStatus(o, "feilet")
        /\ apneForsok' = apneForsok \ {o}
        /\ Ga(e, "publiser")
        /\ Sett(e, [minne[e] EXCEPT !.hendelse = "feilet"])
        /\ UNCHANGED <<mottatt, dekomponert, forkastet, varslet, faktaVars,
                       lease, arkivVars, stromVars, avbrudd>>

----------------------------------------------------------------------------
(* Executor: telling the client *)

\* publiser: the operation's event; a terminal one goes on to the command.
PubliserOperasjon(e) ==
    LET h == minne[e].hendelse
    IN  /\ pc[e] = "publiser"
        /\ opStatus' = [opStatus EXCEPT ![minne[e].op] = h]
        /\ IF h \in Terminale
           THEN Ga(e, "les_utfall") /\ UNCHANGED minne
           ELSE Ga(e, "ledig") /\ Sett(e, TomtMinne)
        /\ UNCHANGED <<dbVars, arkivVars, kmdStatus, avbrudd>>

\* publiser_command_outcome: the fold is read first.  A sibling's ok does not
\* repeat a failure that has been told.
LesUtfall(e) ==
    LET c == minne[e].op.kommando
        utfall == Fold(RaderFor(c), status)
    IN  /\ pc[e] = "les_utfall"
        /\ IF \/ utfall = "uavklart"
              \/ utfall = "feilet" /\ minne[e].hendelse # "feilet"
           THEN Ga(e, "ledig") /\ Sett(e, TomtMinne)
           ELSE /\ Ga(e, "publiser_kommando")
                /\ Sett(e, [minne[e] EXCEPT !.utfall = utfall])
        /\ UNCHANGED <<dbVars, arkivVars, stromVars, avbrudd>>

PubliserKommando(e) ==
    /\ pc[e] = "publiser_kommando"
    /\ kmdStatus' = [kmdStatus EXCEPT ![minne[e].op.kommando] = minne[e].utfall]
    /\ Ga(e, "ledig") /\ Sett(e, TomtMinne)
    /\ UNCHANGED <<dbVars, arkivVars, opStatus, avbrudd>>

----------------------------------------------------------------------------
(* External: the archive's robot dispatches an outgoing entry (F to E) and
   journalises a dispatched one (E to J). *)
Rpa(j) ==
    /\ \/ /\ arkivJp[j] = "klar_for_ekspedering"
          /\ arkivJp' = [arkivJp EXCEPT ![j] = "ekspedert"]
       \/ /\ arkivJp[j] = "ekspedert"
          /\ arkivJp' = [arkivJp EXCEPT ![j] = "journalfoert"]
    /\ UNCHANGED <<dbVars, virkning, tapte, arkivAnsvarlig, stromVars, execVars>>

----------------------------------------------------------------------------
Leder(e) ==
    \/ TaLederskap(e) \/ Gjenopprett(e) \/ HentUvarslet(e)
    \/ VarsleOperasjon(e) \/ VarsleKommando(e) \/ MarkerVarslet(e)
    \/ StartArbeid(e)

Beslutt(e) ==
    \/ LesFakta(e) \/ LesSosken(e) \/ LesUdekomponerte(e)
    \/ MarkerBlokkert(e) \/ FullforAlleredeUtfort(e) \/ MarkerUgyldig(e)
    \/ MarkerKjorer(e) \/ MarkerSendt(e)

Kall(e) ==
    \/ KallLykkes(e) \/ Render(e) \/ Poll(e)
    \/ ManglerAttributter(e) \/ KallAvvises(e) \/ KallFeilerForVirkning(e)
    \/ SvarTapt(e)

Avslutt(e) ==
    \/ FullforOk(e) \/ FullforPoll(e) \/ MarkerRetry(e) \/ MarkerFeilet(e)
    \/ PubliserOperasjon(e) \/ LesUtfall(e) \/ PubliserKommando(e)

Omgivelser ==
    \/ \E c \in Kommandoer : Motta(c) \/ LagreDekomponering(c)
    \/ \E K \in SUBSET dekomponert : Frigi(K)
    \/ \E K \in SUBSET mottatt : Forkast(K)
    \/ \E j \in Journalposter : Rpa(j)

Next ==
    \/ Omgivelser
    \/ \E e \in Executorer :
         \/ Leder(e) \/ Beslutt(e) \/ Kall(e) \/ Avslutt(e) \/ Avbryt(e)
         \/ \E o \in Operasjoner : Hent(e, o)

Spec == Init /\ [][Next]_vars

----------------------------------------------------------------------------
(* Safety *)

\* At most once (marker_sendt, fullfor_ok, gjenopprett_etter_restart): no
\* interruption, recovery, change of leader, retry or operator's retry makes
\* an operation's effect a second time; only a lost answer that was taken
\* for a transient error can.
HoystEnVirkning ==
    \A o \in Operasjoner : o \notin tapte => virkning[o] <= 1

\* An effect in the archive is never forgotten by the database: its row is
\* sent, done or put before a human, never one the executor would pick or
\* an operator could release.
VirkningErSkrevet ==
    \A o \in Operasjoner :
        o \notin tapte /\ virkning[o] > 0
        => status[o] \in {"sendt", "ok", "krever_avklaring"}

\* Where a status of a journal entry is in its course.
Trinn(t) == CASE t = "ikke_opprettet" -> 0
              [] t = "opprettet" -> 1
              [] t = "klar_for_ekspedering" -> 2
              [] t = "ekspedert" -> 3
              [] t = "journalfoert" -> 4
              [] t = "avskrevet" -> 5

Virket(s, type, entitet) ==
    \E o \in OperasjonerPaa(s) :
        o.type = type /\ o.entitet = entitet /\ virkning[o] > 0

IArkivet(c, d) ==
    IF d = Hoveddokument(Payload[c])
    THEN Virket(Payload[c].sak, "opprett_journalpost", Payload[c].journalpost)
    ELSE Virket(Payload[c].sak, "legg_til_vedlegg", d)

\* The facts (skriv_fakta) never claim what the archive does not have,
\* whatever was interrupted between the call and the commit.
FaktaHarDekning ==
    /\ \A s \in Saker :
         /\ sak[s].arkivId => \/ Virket(s, "opprett_sak", s)
                              \/ \E c \in Kommandoer : /\ Payload[c].sak = s
                                                       /\ Payload[c].kjentSaksnummer
         /\ sak[s].tilstand = "avsluttet" => Virket(s, "avslutt_sak", s)
    /\ \A j \in Journalposter :
         /\ Trinn(jp[j].tilstand) <= Trinn(arkivJp[j])
         /\ jp[j].arkivId => arkivJp[j] # "ikke_opprettet"
    /\ \A c \in JournalpostKommandoer : \A d \in DokumenterI(c) :
         dok[d] = "ok" => IArkivet(c, d)

\* A journal entry leaves "opprettet" in the archive only with every document
\* in place (krev_dokumenter_i_arkiv), also when an attachment failed, was
\* retried or is unresolved.
KomplettForStatusovergang ==
    \A c \in JournalpostKommandoer :
        Trinn(arkivJp[Payload[c].journalpost]) > 1
        => \A d \in DokumenterI(c) : IArkivet(c, d)

\* From the moment a closing has been judged executable and until its effect
\* is recorded, every sibling that was seen is done, although operators and
\* decompositions run beside it (vurder_avslutt_sak, SKU-0024).
AvslutterEtterSosken ==
    \A e \in Executorer :
        /\ pc[e] \in {"besluttet", "kjorer", "sendt", "svar"}
        /\ minne[e].beslutning = "utfor"
        => \A x \in minne[e].sosken :
             x.op # minne[e].op => status[x.op] = "ok"

\* What the stream said last is true of the database, however the executor
\* was interrupted: done stays done and unresolved stays unresolved.
\* (A failure can be reopened by an operator, so it is not claimed.)
StromErSann ==
    /\ \A o \in Operasjoner :
         opStatus[o] \in {"ok", "krever_avklaring"} => status[o] = opStatus[o]
    /\ \A c \in Kommandoer :
         /\ kmdStatus[c] = "fullfort" => Fullfort(c)
         /\ kmdStatus[c] = "krever_avklaring"
            => \E o \in RaderFor(c) : status[o] = "krever_avklaring"

\* An operation under way is the one its leader holds; otherwise nobody has
\* begun to work since it was left, and recovery will find it.  Open attempts
\* are exactly those of the operations under way.
IngenForeldrelose ==
    /\ apneForsok = {o \in Operasjoner : status[o] \in {"kjorer", "sendt"}}
    /\ \A o \in apneForsok, e \in Executorer :
         pc[e] \notin {"stoppet", "gjenopprett"}
         => minne[e].op = o /\ pc[e] \in {"kjorer", "sendt", "svar"}

\* An unresolved outcome is marked as told only when the stream has it.
VarsletErMeldt ==
    \A o \in varslet : opStatus[o] = "krever_avklaring"

\* The abstract outcome of an operation (Virkninger), read off its row and
\* the archive.
Utfallet(o) ==
    IF o \in tapte THEN "tapt"
    ELSE IF status[o] = "sendt"
    THEN IF virkning[o] > 0 THEN "virket" ELSE "spurt"
    ELSE IF status[o] = "ok" THEN "ferdig"
    ELSE IF status[o] = "feilet" THEN "avvist"
    ELSE IF status[o] = "krever_avklaring" THEN "uavklart"
    ELSE "venter"

Virkende == {o \in Operasjoner : MutererArkivet(o.type)}

Abstrakt == INSTANCE Virkninger
            WITH utfall <- [o \in Virkende |-> Utfallet(o)]

\* The executor implements Virkninger: between marker_sendt and the recorded
\* outcome no crash, recovery, change of leader or operator's retry returns an
\* effect that was made to the operations that are waiting, or takes an
\* unresolved one away from the human.
Loefte == Abstrakt!LoefteSpec

\* Two commands that set the officer share one wanted value, which a
\* decomposition may change while the executor works from an older one.
\* Still, when all of them are done the archive has the value wanted last.
\* A lost answer is the exception: the archive then has an officer the facts do
\* not know of, and a third command that wants the recorded one back is judged
\* done, as is the retry.
Ansvarssett(s) == {o \in RaderPaa(s) : o.type = "sett_saksansvarlig"}

SisteAnsvarligGjelder ==
    \A s \in Saker :
        LET sett == Ansvarssett(s)
        IN  /\ sett # {} /\ sett \cap tapte = {}
            /\ \A o \in sett : status[o] = "ok"
            => arkivAnsvarlig[s] = sak[s].oensket

\* Done and unresolved are final, and a failure is left only for `klar`, by an
\* operator, while no outcome on the case is unresolved (SKU-0023).
FerdigErEndelig ==
    [][\A o \in Operasjoner :
         /\ status[o] \in {"ok", "krever_avklaring"} => status'[o] = status[o]
         /\ status[o] = "feilet" /\ status'[o] # "feilet"
            => /\ status'[o] = "klar"
               /\ \A q \in RaderPaa(SakTil(o)) :
                     status[q] # "krever_avklaring"]_vars

----------------------------------------------------------------------------
(* Liveness.  The executor's own steps are taken (WF), a call returns (the   *)
(* client has a time limit), and no operation is passed over or refused by a *)
(* transient error for ever: hent_neste_kjorbare orders by neste_forsok_at,  *)
(* and the archive is assumed to answer in the end (SF, per operation).      *)
(* The robot in the archive does its work.  Nothing is assumed of operators, *)
(* ingest or decomposition; interruptions are bounded by Forlop.             *)

Fremover(e) == Leder(e) \/ Beslutt(e) \/ Kall(e) \/ Avslutt(e)
Besvares(e, o) ==
    /\ minne[e].op = o
    /\ KallLykkes(e) \/ Render(e) \/ Poll(e) \/ ManglerAttributter(e)

Fairness ==
    /\ \A e \in Executorer :
         /\ WF_vars(Fremover(e))
         /\ \A o \in Operasjoner : SF_vars(Hent(e, o)) /\ SF_vars(Besvares(e, o))
    /\ \A j \in Journalposter : WF_vars(Rpa(j))

LiveSpec == Spec /\ Fairness

\* A case stands still only for a reason an operator can see: an operation
\* failed or is unresolved, a command has no operations or was discarded.
Stoppet(s) ==
    \/ \E o \in RaderPaa(s) : status[o] \in {"feilet", "krever_avklaring"}
    \/ Udekomponerte(s) # {}
    \/ \E c \in forkastet : Payload[c].sak = s

\* A case always comes to rest again: every operation carried out, or a reason
\* to stand still.  A blocked operation is judged again and again (SKU-0020),
\* and the order the facts impose has no circular wait.
Fremdrift ==
    \A s \in Saker :
        []<>(Stoppet(s) \/ \A o \in RaderPaa(s) : status[o] = "ok")

\* An unresolved outcome is told, although recovery may itself be interrupted
\* anywhere between the status and the mark (varsle_krever_avklaring).
\* The status is final and what the stream said of it stands, so a moment with
\* nothing untold, again and again, means that each of them is told.
UavklartMeldes ==
    []<>(\A o \in Operasjoner :
            status[o] = "krever_avklaring" => opStatus[o] = "krever_avklaring")

\* A completed command is told as completed, unless an executor was interrupted:
\* the event is not repeated after the commit it belongs to.  It is said the
\* same way.
FullfortMeldes ==
    []<>(\A c \in Kommandoer :
            Fullfort(c) => kmdStatus[c] = "fullfort" \/ avbrudd > 0)
============================================================================
