---------------------------- MODULE Operasjoner ----------------------------
(***************************************************************************)
(* The pure domain of Skuffen's execution: how a command is decomposed     *)
(* into operations, how an operation is judged against the facts of its    *)
(* case (sak), how a command's outcome is folded from its operations, and  *)
(* what an operator's retry does with one operation.                       *)
(*                                                                         *)
(* Translated from src/domain/src/eksekvering/operasjon.rs, tilstand.rs    *)
(* and gjenopptak.rs.  Reasons (BlockedReason, DomainViolation) are only   *)
(* wording of a decision and are left out; so is the entity-type check of  *)
(* `vurder`, since the entity of an operation is fixed by its type here.   *)
(***************************************************************************)
EXTENDS Naturals, Sequences, FiniteSets

CONSTANTS
    Kommandoer,   \* the commands of the instance
    Payload       \* [Kommandoer -> payload], see PayloadAntagelse

Kommandotyper == {"opprett_sak", "sett_saksansvarlig", "avslutt_sak",
                  "opprett_journalpost"}

\* "mal" is an HTML template without declared fields, "mal_med_felter" one
\* that substitutes the case number and so cannot be rendered before it.
Dokumentkilder == {"bytes", "mal", "mal_med_felter"}

Journalposttyper == {"I", "U", "X"}

(***************************************************************************)
(* A payload names its case, whether the case is addressed by an archive   *)
(* number (`kjentSaksnummer`) or by a client reference, the wanted case    *)
(* officer, and, for a journal entry, its entity, type and documents in    *)
(* payload order: the first one is the main document.  An entity is        *)
(* created by one command.                                                 *)
(***************************************************************************)
ErPayload(p) ==
    /\ DOMAIN p = {"type", "sak", "kjentSaksnummer", "ansvarlig",
                   "journalpost", "journalposttype", "medUtsending",
                   "dokumenter"}
    /\ p.type \in Kommandotyper
    /\ p.kjentSaksnummer \in BOOLEAN
    /\ p.journalposttype \in Journalposttyper
    /\ p.medUtsending \in BOOLEAN
    /\ p.dokumenter \in Seq({p.dokumenter[i] : i \in DOMAIN p.dokumenter})
    /\ \A i \in DOMAIN p.dokumenter : p.dokumenter[i].kilde \in Dokumentkilder

ASSUME PayloadAntagelse ==
    /\ DOMAIN Payload = Kommandoer
    /\ \A c \in Kommandoer : ErPayload(Payload[c])
    /\ \A c, d \in Kommandoer :
          /\ c # d
          /\ Payload[c].type = "opprett_journalpost"
          /\ Payload[d].type = "opprett_journalpost"
          => Payload[c].journalpost # Payload[d].journalpost

Saker == {Payload[c].sak : c \in Kommandoer}

JournalpostKommandoer ==
    {c \in Kommandoer : Payload[c].type = "opprett_journalpost"}

Journalposter == {Payload[c].journalpost : c \in JournalpostKommandoer}

DokumenterI(c) == {Payload[c].dokumenter[i].id : i \in DOMAIN Payload[c].dokumenter}

Dokumenter == UNION {DokumenterI(c) : c \in JournalpostKommandoer}

\* A document belongs to one journal entry (dokument_tilstand has one row per
\* document, with its journal entry), and so to the command that creates it.
ASSUME DokumentAntagelse ==
    \A c, d \in JournalpostKommandoer :
        c # d => DokumenterI(c) \cap DokumenterI(d) = {}

\* The main document is the one with rekkefolge 0, the first of the list.
HarHoveddokument(p) == Len(p.dokumenter) > 0
Hoveddokument(p) == p.dokumenter[1].id

ErMal(kilde) == kilde \in {"mal", "mal_med_felter"}

Kilde(p, d) ==
    p.dokumenter[CHOOSE i \in DOMAIN p.dokumenter : p.dokumenter[i].id = d].kilde

----------------------------------------------------------------------------
(* Operations and their statuses *)

Operasjonstyper ==
    {"opprett_sak", "render_dokument", "opprett_journalpost",
     "legg_til_vedlegg", "journalfor", "sett_ekspedert",
     "klargjor_for_ekspedering", "avvent_journalfort", "avskriv",
     "sett_saksansvarlig", "avslutt_sak"}

\* muterer_arkivet: the operations that pass the at-most-once boundary.
IdempotenteTyper == {"avvent_journalfort", "render_dokument"}
MutererArkivet(type) == type \notin IdempotenteTyper

Statuser == {"blokkert", "klar", "kjorer", "sendt", "retry_venter",
             "ok", "feilet", "krever_avklaring"}
Terminale == {"ok", "feilet"}

----------------------------------------------------------------------------
(* dekomponer: the operations of a command, a pure function of its payload. *)
(* They are inserted in one transaction and share created_at, so they are   *)
(* a set.                                                                   *)

\* The status course of a journal entry after its documents are in place.
Statuslop(p) ==
    CASE p.journalposttype = "I" -> {"journalfor", "avskriv"}
      [] p.journalposttype = "X" -> {"journalfor"}
      [] p.journalposttype = "U" /\ ~p.medUtsending ->
            {"sett_ekspedert", "avvent_journalfort"}
      [] p.journalposttype = "U" /\ p.medUtsending ->
            {"klargjor_for_ekspedering", "avvent_journalfort"}

Operasjon(c, type, entitet) == [kommando |-> c, type |-> type, entitet |-> entitet]

DekomponerJournalpost(c) ==
    LET p == Payload[c]
        docs == p.dokumenter
    IN  {Operasjon(c, "render_dokument", docs[i].id) :
            i \in {j \in DOMAIN docs : j = 1 /\ ErMal(docs[j].kilde)}}
        \cup {Operasjon(c, "opprett_journalpost", p.journalpost)}
        \cup {Operasjon(c, "legg_til_vedlegg", docs[i].id) :
                i \in {j \in DOMAIN docs : j > 1}}
        \cup {Operasjon(c, type, p.journalpost) : type \in Statuslop(p)}

Dekomponer(c) ==
    IF Payload[c].type = "opprett_journalpost"
    THEN DekomponerJournalpost(c)
    ELSE {Operasjon(c, Payload[c].type, Payload[c].sak)}

Operasjoner == UNION {Dekomponer(c) : c \in Kommandoer}

SakTil(o) == Payload[o.kommando].sak
OperasjonerPaa(s) == {o \in Operasjoner : SakTil(o) = s}

----------------------------------------------------------------------------
(* vurder: what may be done with an operation, given the facts.            *)
(*   s    the case:          [arkivId, tilstand, oensket, naa, ...]          *)
(*   j    the journal entry: [arkivId, tilstand]                            *)
(*   dok  document state, by document                                       *)

Beslutninger == {"utfor", "allerede_utfort", "blokkert", "ugyldig"}

VurderOpprettSak(s) == IF s.arkivId THEN "allerede_utfort" ELSE "utfor"

VurderSettSaksansvarlig(s, ingen) ==
    IF s.oensket \in {ingen, s.naa} THEN "allerede_utfort"
    ELSE IF ~s.arkivId THEN "blokkert" ELSE "utfor"

VurderOpprettJournalpost(p, s, j, dok) ==
    IF j.arkivId \/ j.tilstand # "ikke_opprettet" THEN "allerede_utfort"
    ELSE IF ~s.arkivId THEN "blokkert"
    ELSE IF ~HarHoveddokument(p) THEN "ugyldig"
    ELSE IF dok[Hoveddokument(p)] = "avventer_rendring" THEN "blokkert"
    ELSE "utfor"

\* Mutant: only the main document is required.
KrevDokumenterIArkiv_BareHoved(p, j, dok) ==
    IF j.arkivId /\ dok[Hoveddokument(p)] = "ok" THEN "utfor" ELSE "blokkert"

\* krev_dokumenter_i_arkiv: what the three status transitions require once
\* the journal entry is not already in (or past) the wanted state.
KrevDokumenterIArkiv(p, j, dok) ==
    IF ~j.arkivId THEN "blokkert"
    ELSE IF ~HarHoveddokument(p) THEN "ugyldig"
    ELSE IF \A i \in DOMAIN p.dokumenter : dok[p.dokumenter[i].id] = "ok"
    THEN "utfor"
    ELSE "blokkert"

\* The states in which each status transition has nothing left to do.
UtfortI(type) ==
    CASE type = "journalfor" -> {"journalfoert", "avskrevet"}
      [] type = "sett_ekspedert" -> {"ekspedert", "journalfoert"}
      [] type = "klargjor_for_ekspedering" ->
            {"klar_for_ekspedering", "ekspedert", "journalfoert"}

VurderStatusovergang(type, p, j, dok) ==
    IF j.tilstand \in UtfortI(type) THEN "allerede_utfort"
    ELSE KrevDokumenterIArkiv(p, j, dok)

VurderAvventJournalfort(j) ==
    CASE j.tilstand \in {"journalfoert", "avskrevet"} -> "allerede_utfort"
      [] j.tilstand \in {"klar_for_ekspedering", "ekspedert"} -> "utfor"
      [] j.tilstand \in {"ikke_opprettet", "opprettet"} -> "blokkert"

VurderAvskriv(p, j) ==
    IF p.journalposttype # "I" THEN "ugyldig"
    ELSE CASE j.tilstand = "avskrevet" -> "allerede_utfort"
           [] j.tilstand = "journalfoert" -> "utfor"
           [] OTHER -> "blokkert"

VurderRenderDokument(p, d, s, dok) ==
    IF ~ErMal(Kilde(p, d)) THEN "ugyldig"
    ELSE IF dok[d] # "avventer_rendring" THEN "allerede_utfort"
    ELSE IF Kilde(p, d) = "mal" \/ s.arkivId THEN "utfor"
    ELSE "blokkert"

\* A journal entry that has been journalised is locked.
Laast == {"journalfoert", "avskrevet"}

VurderLeggTilVedlegg(p, d, j, dok) ==
    IF d = Hoveddokument(p) \/ ErMal(Kilde(p, d)) THEN "ugyldig"
    ELSE IF dok[d] = "ok" THEN "allerede_utfort"
    ELSE IF j.tilstand \in Laast THEN "ugyldig"
    ELSE IF ~j.arkivId THEN "blokkert"
    ELSE "utfor"

\* vurder, for every operation but avslutt_sak; `ingen` is the absent officer.
Vurder(o, s, jp, dok, ingen) ==
    LET p == Payload[o.kommando]
        j == jp[p.journalpost]
    IN  CASE o.type = "opprett_sak" -> VurderOpprettSak(s)
          [] o.type = "sett_saksansvarlig" -> VurderSettSaksansvarlig(s, ingen)
          [] o.type = "render_dokument" ->
                VurderRenderDokument(p, o.entitet, s, dok)
          [] o.type = "legg_til_vedlegg" ->
                VurderLeggTilVedlegg(p, o.entitet, j, dok)
          [] o.type = "opprett_journalpost" ->
                VurderOpprettJournalpost(p, s, j, dok)
          [] o.type \in {"journalfor", "sett_ekspedert",
                         "klargjor_for_ekspedering"} ->
                VurderStatusovergang(o.type, p, j, dok)
          [] o.type = "avvent_journalfort" -> VurderAvventJournalfort(j)
          [] o.type = "avskriv" -> VurderAvskriv(p, j)
          [] o.type = "avslutt_sak" -> "blokkert"

\* Mutant: a sibling only has to be terminal.
VurderAvsluttSak_TerminaleSosken(o, s, sosken, udekomponerte) ==
    IF s.tilstand = "avsluttet" THEN "allerede_utfort"
    ELSE IF ~s.arkivId THEN "blokkert"
    ELSE IF /\ udekomponerte = {}
            /\ \A x \in sosken : x.op # o => x.status \in Terminale
    THEN "utfor"
    ELSE "blokkert"

\* vurder_avslutt_sak: the one decision that is not made from facts alone.
\* sosken is a set of [op, status]; udekomponerte a set of commands.
VurderAvsluttSak(o, s, sosken, udekomponerte) ==
    IF s.tilstand = "avsluttet" THEN "allerede_utfort"
    ELSE IF ~s.arkivId THEN "blokkert"
    ELSE IF udekomponerte = {} /\ \A x \in sosken : x.op # o => x.status = "ok"
    THEN "utfor"
    ELSE "blokkert"

----------------------------------------------------------------------------
(* hent_command_outcome: the fold over a command's operations.  `st` gives  *)
(* the status of the operations in `ops`, those the database has rows for.  *)

Utfall == {"uavklart", "feilet", "krever_avklaring", "fullfort"}

\* Mutant: one operation that is done completes the command.
Fold_NoenErFerdig(ops, st) ==
    IF \E o \in ops : st[o] = "feilet" THEN "feilet"
    ELSE IF \E o \in ops : st[o] = "krever_avklaring" THEN "krever_avklaring"
    ELSE IF \E o \in ops : st[o] = "ok" THEN "fullfort"
    ELSE "uavklart"

\* Mutant: off by one, a command of one operation is never complete.
Fold_FlereEnnEn(ops, st) ==
    IF \E o \in ops : st[o] = "feilet" THEN "feilet"
    ELSE IF \E o \in ops : st[o] = "krever_avklaring" THEN "krever_avklaring"
    ELSE IF Cardinality(ops) > 1 /\ \A o \in ops : st[o] = "ok" THEN "fullfort"
    ELSE "uavklart"

Fold(ops, st) ==
    IF \E o \in ops : st[o] = "feilet" THEN "feilet"
    ELSE IF \E o \in ops : st[o] = "krever_avklaring" THEN "krever_avklaring"
    ELSE IF ops # {} /\ \A o \in ops : st[o] = "ok" THEN "fullfort"
    ELSE "uavklart"

(* gjenopptak.rs: what an operator's retry does.                           *)

\* Mutant: the case is not checked.
SakSperrerGjenopptak_Aldri(ops, st) == FALSE

SakSperrerGjenopptak(ops, st) == \E o \in ops : st[o] = "krever_avklaring"

\* Mutant: a status the table does not know.
GjenopptattStatus_Ukjent(status) == IF status = "feilet" THEN "forfalt" ELSE status

\* vurder_operasjon: only a failed operation is reopened; a waiting one just
\* becomes due, which these statuses do not show.
GjenopptattStatus(status) == IF status = "feilet" THEN "klar" ELSE status
============================================================================
