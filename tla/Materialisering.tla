---------------------------- MODULE Materialisering ----------------------------
(***************************************************************************)
(* What a client asked for, on its way to the archive: the wire form of a  *)
(* command, the application's form, the wire form again on each stream,    *)
(* the plan, the rows of the fact tables, the attributes read back from    *)
(* them and the message to the archive.  Four processes each see one of    *)
(* these forms; what they must agree on is never in one place.             *)
(*                                                                         *)
(* Titles, dates and other texts that are carried along unchanged are left *)
(* out.  What a step decides from is kept: types and variants, references, *)
(* access, correspondents, the documents with their order and source.      *)
(* The case number is there from the start; operations, statuses and       *)
(* waiting are the subject of Eksekvering.                                 *)
(***************************************************************************)
EXTENDS Naturals, Sequences, FiniteSets

CONSTANTS
    Kommandoer,     \* command ids
    Saker, Journalposter, Dokumenter,   \* client references, by what they name
    Foresporsler,   \* what the clients may send: functions from commands to
                    \* their wire form
    Ingen,          \* NULL, None
    Avvist          \* an arkivmapping_ error, which ends the operation

Journalposttyper == {"inn", "ut", "ut_utsending", "notat"}
Saktyper == {"opprett_sak", "avslutt_sak", "sett_saksansvarlig"}

\* The wire form: `ref` is the client reference of the record, `sak` the case
\* and `nummer` whether it is named by its number in the archive.
ErListe(l) == Len(l) \in Nat /\ l = [i \in 1..Len(l) |-> l[i]]

ErForespurt(w) ==
    /\ w.type \in Journalposttyper \cup Saktyper
    /\ w.nummer \in BOOLEAN
    /\ w.tilgang # Ingen => /\ w.tilgang = [kode |-> w.tilgang.kode, hjemmel |-> w.tilgang.hjemmel]
                            /\ w.tilgang.kode # Ingen /\ w.tilgang.hjemmel # Ingen
    /\ ErListe(w.parter) /\ ErListe(w.dok)
    /\ \A i \in DOMAIN w.parter : w.parter[i].slag \in {"person", "virksomhet"}
    /\ w.type = "inn" => Len(w.parter) = 1
    /\ w.type \in {"notat"} \cup Saktyper => Len(w.parter) = 0
    /\ \A i \in DOMAIN w.dok : /\ w.dok[i].form \in {"bytes", "mal"}
                               /\ w.dok[i].ref \in Dokumenter /\ w.dok[i].fil # Ingen
    /\ w.sak \in Saker
    /\ w.type \in Journalposttyper => w.ref \in Journalposter /\ Len(w.dok) > 0
    /\ w.type \in Saktyper => w.ref = Ingen /\ Len(w.dok) = 0

\* Cases are named one way in this model.
ASSUME MaterialiseringAntagelse ==
    /\ \A f \in Foresporsler : /\ DOMAIN f = Kommandoer
                               /\ \A k \in Kommandoer : ErForespurt(f[k])
                               /\ \A k, l \in Kommandoer :
                                      f[k].sak = f[l].sak => f[k].nummer = f[l].nummer
    /\ Avvist # Ingen
    /\ Ingen \notin Journalposttyper \cup Saktyper
    /\ Ingen \notin Journalposter \cup Dokumenter
    /\ Saker \cap Journalposter = {} /\ Saker \cap Dokumenter = {}
    /\ Journalposter \cap Dokumenter = {}

VARIABLES
    foresporsel,   \* what the clients send
    steg,          \* how far each command has come
    melding,       \* its message on the inbox or the ready stream
    type,          \* command.command_type
    emne,          \* the subject the inbox message was published under
    kontekst,      \* history: the context of the command's first event
    sakRad, jpRad, dokRad,   \* sak_tilstand, journalpost_tilstand, dokument_tilstand
    arkiv          \* by case, record and document: what was sent to the archive

rader == <<sakRad, jpRad, dokRad>>
flyt == <<steg, melding, type, emne, kontekst>>
vars == <<foresporsel, flyt, rader, arkiv>>

TypeOK ==
    /\ DOMAIN foresporsel = Kommandoer
    /\ steg \in [Kommandoer -> {"sendt", "innboks", "klar", "dekomponert"}]
    /\ \A k \in Kommandoer : steg[k] = "sendt" <=> type[k] = Ingen
    /\ \A d \in Dokumenter : dokRad[d] # Ingen =>
           /\ (dokRad[d].dokument = Ingen) # (dokRad[d].mal = Ingen)
           /\ dokRad[d].rendret # Ingen => dokRad[d].mal # Ingen
    /\ DOMAIN arkiv = Saker \cup Journalposter \cup Dokumenter

Init ==
    /\ foresporsel \in Foresporsler
    /\ steg = [k \in Kommandoer |-> "sendt"]
    /\ melding = [k \in Kommandoer |-> Ingen] /\ type = [k \in Kommandoer |-> Ingen]
    /\ emne = [k \in Kommandoer |-> Ingen] /\ kontekst = [k \in Kommandoer |-> Ingen]
    /\ sakRad = [s \in Saker |-> Ingen] /\ jpRad = [j \in Journalposter |-> Ingen]
    /\ dokRad = [d \in Dokumenter |-> Ingen]
    /\ arkiv = [x \in Saker \cup Journalposter \cup Dokumenter |-> Ingen]

----------------------------------------------------------------------------
(* Forms of a command: wire_mapper.rs                                      *)

\* Seven wire types are six of the application: both outgoing ones are one,
\* and only the variant of the payload tells them apart.
Kommandotype(t) == IF t = "ut_utsending" THEN "ut" ELSE t

\* map_wire_envelope.
TilApplikasjon(w) ==
    [type |-> Kommandotype(w.type), variant |-> w.type, ref |-> w.ref, sak |-> w.sak,
     nummer |-> w.nummer, tilgang |-> w.tilgang, parter |-> w.parter, dok |-> w.dok,
     ansvarlig |-> w.ansvarlig]

\* Mutant: the outgoing type is enough to know the wire type.
Wiretype_EtterType(a) == a.type

\* map_application_envelope_to_wire; a variant that does not belong to the
\* type is an error.
Wiretype(a) == IF Kommandotype(a.variant) = a.type THEN a.variant ELSE Ingen

TilWire(a) ==
    [type |-> Wiretype(a), ref |-> a.ref, sak |-> a.sak, nummer |-> a.nummer,
     tilgang |-> a.tilgang, parter |-> a.parter, dok |-> a.dok,
     ansvarlig |-> a.ansvarlig]

----------------------------------------------------------------------------
(* Subjects: wire_routing_token.rs                                         *)

WireToken(t) == IF t \in Saktyper THEN "sak" ELSE "journalpost"

\* Mutant: a type of the case that is not listed goes with the records.
TypeToken_UtenAnsvarlig(t) ==
    IF t \in Saktyper \ {"sett_saksansvarlig"} THEN "sak" ELSE "journalpost"

\* The same token from the stored command type, when there is no payload.
TypeToken(t) == IF t \in Saktyper THEN "sak" ELSE "journalpost"

----------------------------------------------------------------------------
(* Context of status events                                                *)

\* kontekst, from the payload: a case is named the way the client named it.
TidligKontekst(a) ==
    [sak |-> IF a.nummer THEN Ingen ELSE a.sak,
     saksnummer |-> IF a.nummer THEN a.sak ELSE Ingen,
     journalpost |-> IF a.variant \in Journalposttyper THEN a.ref ELSE Ingen,
     dok |-> [i \in DOMAIN a.dok |-> a.dok[i].ref]]

\* The documents a command has inserted, ordered by rekkefolge.
DokumenterAv(k) == {d \in Dokumenter : dokRad[d] # Ingen /\ dokRad[d].av = k}

\* Mutant: the order is not asked for.
Ordnet_Uordnet(D) ==
    CHOOSE f \in [1..Cardinality(D) -> D] :
        \A i, j \in DOMAIN f : i < j => dokRad[f[i]].rekkefolge > dokRad[f[j]].rekkefolge

Ordnet(D) ==
    CHOOSE f \in [1..Cardinality(D) -> D] :
        \A i, j \in DOMAIN f : i < j => dokRad[f[i]].rekkefolge < dokRad[f[j]].rekkefolge

\* hent_command_metadata, from the tables.  An entity has the name the command
\* that made it known gave it.
SenKontekst(k) ==
    LET saken == foresporsel[k].sak
        egne == {j \in Journalposter : jpRad[j] # Ingen /\ jpRad[j].av = k}
    IN [sak |-> IF sakRad[saken].nummer THEN Ingen ELSE saken,
        saksnummer |-> IF sakRad[saken].nummer \/ arkiv[saken] # Ingen THEN saken ELSE Ingen,
        journalpost |-> IF egne = {} THEN Ingen ELSE CHOOSE j \in egne : TRUE,
        dok |-> Ordnet(DokumenterAv(k))]

----------------------------------------------------------------------------
(* The plan: dekomponer_command.rs                                         *)

Skjermet(tilgang) == tilgang # Ingen
Kode(tilgang) == IF Skjermet(tilgang) THEN tilgang.kode ELSE Ingen
Hjemmel(tilgang) == IF Skjermet(tilgang) THEN tilgang.hjemmel ELSE Ingen

\* korrespondanseparter and korrespondanseparter_json: every part carries the
\* role that the variant gives it.
Rolle(variant) == CASE variant = "inn"          -> "avsender"
                    [] variant = "ut"           -> "mottaker"
                    [] variant = "ut_utsending" -> "utsendingsmottaker"
                    [] OTHER                    -> Ingen

Partsliste(a) == [i \in DOMAIN a.parter |->
                     [rolle |-> Rolle(a.variant), navn |-> a.parter[i].navn,
                      slag |-> a.parter[i].slag]]

\* Only OpprettSak carries the attributes of a case.
SakPlan(k, a) ==
    [ny |-> a.type = "opprett_sak", nummer |-> a.nummer,
     kode |-> IF a.type = "opprett_sak" THEN Kode(a.tilgang) ELSE Ingen,
     hjemmel |-> IF a.type = "opprett_sak" THEN Hjemmel(a.tilgang) ELSE Ingen,
     ansvarlig |-> IF a.type = "opprett_sak" THEN a.ansvarlig ELSE Ingen,
     oensket |-> IF a.type = "sett_saksansvarlig" THEN a.ansvarlig ELSE Ingen,
     av |-> k]

JournalpostPlan(k, a) ==
    [sak |-> a.sak,
     type |-> CASE a.type = "inn" -> "I" [] a.type = "ut" -> "U" [] OTHER -> "X",
     utsending |-> a.variant = "ut_utsending",
     kode |-> Kode(a.tilgang), hjemmel |-> Hjemmel(a.tilgang),
     parter |-> Partsliste(a), av |-> k]

\* Mutant: the order is counted from one.
DokumentPlan_FraEn(k, a, i) ==
    [jp |-> a.ref, rekkefolge |-> i,
     tilstand |-> IF a.dok[i].form = "bytes" THEN "klar" ELSE "avventer_rendring",
     dokument |-> IF a.dok[i].form = "bytes" THEN a.dok[i].fil ELSE Ingen,
     mal |-> IF a.dok[i].form = "mal" THEN a.dok[i].fil ELSE Ingen,
     rendret |-> Ingen, av |-> k]

\* The first document of the request is the main one: rekkefolge 0.
DokumentPlan(k, a, i) ==
    [jp |-> a.ref, rekkefolge |-> i - 1,
     tilstand |-> IF a.dok[i].form = "bytes" THEN "klar" ELSE "avventer_rendring",
     dokument |-> IF a.dok[i].form = "bytes" THEN a.dok[i].fil ELSE Ingen,
     mal |-> IF a.dok[i].form = "mal" THEN a.dok[i].fil ELSE Ingen,
     rendret |-> Ingen, av |-> k]

\* The rows that a request can give: of its case, with what some request
\* wishes, and of a document, as planned or rendered.
SakRadene(f, k) ==
    {[SakPlan(k, TilApplikasjon(f[k])) EXCEPT !.oensket = o] :
        o \in {Ingen} \cup {f[l].ansvarlig : l \in Kommandoer}}
DokRadene(f, k, i) ==
    LET p == DokumentPlan(k, TilApplikasjon(f[k]), i)
    IN  {p, [p EXCEPT !.tilstand = "klar", !.rendret = <<"pdf", f[k].dok[i].ref>>]}

\* NULL is none of them.
ASSUME RadAntagelse ==
    \A f \in Foresporsler, k \in Kommandoer :
        /\ Ingen \notin SakRadene(f, k)
        /\ Ingen # JournalpostPlan(k, TilApplikasjon(f[k]))
        /\ \A i \in 1..Len(f[k].dok) : Ingen \notin DokRadene(f, k, i)

----------------------------------------------------------------------------
(* From the client to the ready stream                                     *)

\* process_command: the type is stored, the message published and the first
\* event told.
Motta(k) ==
    LET a == TilApplikasjon(foresporsel[k])
    IN /\ steg[k] = "sendt" /\ Wiretype(a) # Ingen
       /\ steg' = [steg EXCEPT ![k] = "innboks"]
       /\ type' = [type EXCEPT ![k] = a.type]
       /\ melding' = [melding EXCEPT ![k] = TilWire(a)]
       /\ emne' = [emne EXCEPT ![k] = WireToken(Wiretype(a))]
       /\ kontekst' = [kontekst EXCEPT ![k] = TidligKontekst(a)]
       /\ UNCHANGED <<foresporsel, rader, arkiv>>

\* dispatch_validated; the validation itself is part of Mottak.
Valider(k) ==
    LET a == TilApplikasjon(melding[k])
    IN /\ steg[k] = "innboks" /\ Wiretype(a) # Ingen
       /\ steg' = [steg EXCEPT ![k] = "klar"]
       /\ melding' = [melding EXCEPT ![k] = TilWire(a)]
       /\ UNCHANGED <<foresporsel, type, emne, kontekst, rader, arkiv>>

----------------------------------------------------------------------------
(* Decomposition: skriv_plan                                               *)

\* skriv_sak: attributes are written once, the wished responsible whenever a
\* command has one.
SakSkrevet(k, a) ==
    IF sakRad[a.sak] = Ingen THEN SakPlan(k, a)
    ELSE [sakRad[a.sak] EXCEPT !.oensket =
             IF SakPlan(k, a).oensket = Ingen THEN @ ELSE SakPlan(k, a).oensket]

\* Mutant: a row that exists is written again.
Innsatt_Alle(a) == DOMAIN a.dok

\* skriv_dokument: a document that has a row keeps it, also when the request
\* itself names it twice.
Innsatt(a) == {i \in DOMAIN a.dok : /\ dokRad[a.dok[i].ref] = Ingen
                                   /\ \A j \in 1..(i - 1) : a.dok[j].ref # a.dok[i].ref}

\* Mutant: an insert without ON CONFLICT.
Kolliderer_RadFinnes(k, a) == \E i \in DOMAIN a.dok : dokRad[a.dok[i].ref] # Ingen

\* dokument_tilstand_unik_rekkefolge: two documents of a record at one place.
Kolliderer(k, a) ==
    \E i \in Innsatt(a), d \in Dokumenter :
        /\ dokRad[d] # Ingen /\ dokRad[d].jp = a.ref
        /\ dokRad[d].rekkefolge = DokumentPlan(k, a, i).rekkefolge

SkrivPlan(k, a) ==
    /\ sakRad' = [sakRad EXCEPT ![a.sak] = SakSkrevet(k, a)]
    /\ jpRad' = IF a.variant \in Journalposttyper /\ jpRad[a.ref] = Ingen
                THEN [jpRad EXCEPT ![a.ref] = JournalpostPlan(k, a)]
                ELSE jpRad
    /\ dokRad' = [d \in Dokumenter |->
                    IF \E i \in Innsatt(a) : a.dok[i].ref = d
                    THEN DokumentPlan(k, a, CHOOSE i \in Innsatt(a) : a.dok[i].ref = d)
                    ELSE dokRad[d]]

\* Mutant: a message that is delivered again writes its plan again.
Dekomponer_Igjen(k) ==
    LET a == TilApplikasjon(melding[k])
    IN /\ steg[k] \in {"klar", "dekomponert"}
       /\ IF Kolliderer(k, a) THEN UNCHANGED <<steg, rader>>
          ELSE /\ steg' = [steg EXCEPT ![k] = "dekomponert"]
               /\ SkrivPlan(k, a)
       /\ UNCHANGED <<foresporsel, melding, type, emne, kontekst, arkiv>>

\* lagre_dekomponering: a second delivery writes nothing.  A collision is an
\* error of the database: everything is rolled back, the listener naks, and
\* the message comes again.
Dekomponer(k) ==
    LET a == TilApplikasjon(melding[k])
    IN /\ steg[k] \in {"klar", "dekomponert"}
       /\ IF steg[k] = "dekomponert" \/ Kolliderer(k, a) THEN UNCHANGED <<steg, rader>>
          ELSE /\ steg' = [steg EXCEPT ![k] = "dekomponert"]
               /\ SkrivPlan(k, a)
       /\ UNCHANGED <<foresporsel, melding, type, emne, kontekst, arkiv>>

----------------------------------------------------------------------------
(* Reading back: postgres_fakta_repository.rs                              *)

\* Tilgang::try_from: both columns or none.
LesTilgang(rad) ==
    IF rad.kode = Ingen /\ rad.hjemmel = Ingen THEN Ingen
    ELSE IF rad.kode # Ingen /\ rad.hjemmel # Ingen
         THEN [kode |-> rad.kode, hjemmel |-> rad.hjemmel]
         ELSE Avvist

\* korrespondanseparter: the first part decides the form.  A list without parts
\* is no list.
Partsform(rad) == IF rad.parter = <<>> THEN "ingen" ELSE rad.parter[1].rolle

LesParter(rad) == IF Partsform(rad) = "avsender" THEN <<rad.parter[1]>> ELSE rad.parter

Hoved(j) == {d \in Dokumenter : dokRad[d] # Ingen /\ dokRad[d].jp = j
                                /\ dokRad[d].rekkefolge = 0}

----------------------------------------------------------------------------
(* To the archive: sikri_arkiv_gateway.rs                                  *)

\* forsendelsesmetode.
Metode(rad) ==
    IF Partsform(rad) = "avsender" THEN Ingen
    ELSE IF Partsform(rad) = "utsendingsmottaker" \/ rad.utsending THEN "GENERELL"
    ELSE "DIG"

\* map_korrespondanseparter: None without parts; a list that has a role and no
\* parts is an error, and never read back as one.
ArkivParter(rad) ==
    [i \in DOMAIN LesParter(rad) |->
        [mottaker |-> Partsform(rad) # "avsender", navn |-> LesParter(rad)[i].navn,
         person |-> LesParter(rad)[i].slag = "person", metode |-> Metode(rad),
         unntatt |-> Skjermet(LesTilgang(rad))]]

\* map_dokument: a template is never sent, only what was rendered from it.
Arkivfil(rad) == IF rad.mal = Ingen THEN rad.dokument ELSE rad.rendret

ArkivJournalpost(j, d) ==
    [type |-> jpRad[j].type, status |-> IF jpRad[j].type = "U" THEN "R" ELSE Ingen,
     sak |-> jpRad[j].sak, tilgang |-> LesTilgang(jpRad[j]),
     parter |-> ArkivParter(jpRad[j]), fil |-> Arkivfil(dokRad[d])]

\* map_ny_sak; a case without attributes is not read at all.
OpprettSak(s) ==
    /\ sakRad[s] # Ingen /\ sakRad[s].ny /\ arkiv[s] = Ingen
    /\ arkiv' = [arkiv EXCEPT ![s] = [tilgang |-> LesTilgang(sakRad[s]),
                                      ansvarlig |-> sakRad[s].ansvarlig]]
    /\ UNCHANGED <<foresporsel, flyt, rader>>

\* render_dokument, for the main document.
RendrerDokument(d) ==
    /\ dokRad[d] # Ingen /\ dokRad[d].tilstand = "avventer_rendring"
    /\ dokRad[d].rekkefolge = 0
    /\ dokRad' = [dokRad EXCEPT ![d].tilstand = "klar", ![d].rendret = <<"pdf", d>>]
    /\ UNCHANGED <<foresporsel, flyt, sakRad, jpRad, arkiv>>

\* vurder_opprett_journalpost.
KlartForJournalpost(j, d) ==
    jpRad[j] # Ingen /\ d \in Hoved(j) /\ dokRad[d].tilstand = "klar"

OpprettJournalpost(j) ==
    \E d \in Dokumenter :
        /\ arkiv[j] = Ingen /\ KlartForJournalpost(j, d)
        /\ arkiv' = [arkiv EXCEPT
               ![j] = IF LesTilgang(jpRad[j]) = Avvist THEN Avvist ELSE ArkivJournalpost(j, d)]
        /\ UNCHANGED <<foresporsel, flyt, rader>>

\* legg_til_vedlegg: on the record the row names; a template is refused.
LeggTilVedlegg(d) ==
    /\ dokRad[d] # Ingen /\ dokRad[d].rekkefolge > 0 /\ arkiv[d] = Ingen
    /\ arkiv[dokRad[d].jp] # Ingen /\ arkiv[dokRad[d].jp] # Avvist
    /\ arkiv' = [arkiv EXCEPT ![d] =
           IF dokRad[d].mal # Ingen THEN Avvist
           ELSE [jp |-> dokRad[d].jp, fil |-> Arkivfil(dokRad[d])]]
    /\ UNCHANGED <<foresporsel, flyt, rader>>

Next ==
    \/ \E k \in Kommandoer : Motta(k) \/ Valider(k) \/ Dekomponer(k)
    \/ \E s \in Saker : OpprettSak(s)
    \/ \E d \in Dokumenter : RendrerDokument(d) \/ LeggTilVedlegg(d)
    \/ \E j \in Journalposter : OpprettJournalpost(j)

Spec == Init /\ [][Next]_vars

\* A client sends until it is answered, a message comes until it is
\* acknowledged, and the executor takes every operation that is due.
Rettferdig ==
    /\ \A k \in Kommandoer : WF_vars(Motta(k)) /\ WF_vars(Valider(k))
                             /\ WF_vars(Dekomponer(k))
    /\ \A s \in Saker : WF_vars(OpprettSak(s))
    /\ \A d \in Dokumenter : WF_vars(RendrerDokument(d)) /\ WF_vars(LeggTilVedlegg(d))
    /\ \A j \in Journalposter : WF_vars(OpprettJournalpost(j))

FairSpec == Spec /\ Rettferdig

----------------------------------------------------------------------------
(* Properties                                                              *)

\* What the archive is to be told of a record, straight from the request.
OensketPart(w, i) ==
    [mottaker |-> w.type # "inn", navn |-> w.parter[i].navn,
     person |-> w.parter[i].slag = "person",
     metode |-> CASE w.type = "inn" -> Ingen [] w.type = "ut" -> "DIG" [] OTHER -> "GENERELL",
     unntatt |-> w.tilgang # Ingen]

OensketFil(x) == IF x.form = "mal" THEN <<"pdf", x.ref>> ELSE x.fil

Oensket(w) ==
    [type |-> CASE w.type = "inn" -> "I" [] w.type = "notat" -> "X" [] OTHER -> "U",
     status |-> IF w.type \in {"ut", "ut_utsending"} THEN "R" ELSE Ingen,
     sak |-> w.sak, tilgang |-> w.tilgang,
     parter |-> [i \in DOMAIN w.parter |-> OensketPart(w, i)],
     fil |-> OensketFil(w.dok[1])]

Sendt(x) == arkiv[x] # Ingen /\ arkiv[x] # Avvist

\* Every request under the reference of a record has the same main document.
\* If not, the row may be one request's and the main document another's.
SammeHoved(j) ==
    \A k, l \in Kommandoer :
        LET v == foresporsel[k]
            w == foresporsel[l]
        IN v.ref = j /\ w.ref = j => v.dok[1].ref = w.dok[1].ref

\* What the archive gets of a case, a record and an attachment is what one
\* request said, the one the row came from: five changes of form, and requests
\* that share references, neither lose, move nor mix anything.
ArkivertErSendt ==
    /\ \A s \in Saker : Sendt(s) =>
           LET w == foresporsel[sakRad[s].av]
           IN w.type = "opprett_sak" /\ arkiv[s] = [tilgang |-> w.tilgang,
                                                   ansvarlig |-> w.ansvarlig]
    /\ \A j \in Journalposter : Sendt(j) /\ SammeHoved(j) =>
           arkiv[j] = Oensket(foresporsel[jpRad[j].av])
    /\ \A d \in Dokumenter : Sendt(d) =>
           LET w == foresporsel[dokRad[d].av]
           IN \E i \in 2..Len(w.dok) : /\ w.dok[i].ref = d
                                       /\ arkiv[d] = [jp |-> w.ref, fil |-> w.dok[i].fil]

\* Every client reference of a record or a document is used once.
Navn(w) == {w.ref} \cup {w.dok[i].ref : i \in 1..Len(w.dok)}
UliktNavngitt ==
    \A k, l \in Kommandoer :
        IF k = l THEN \A i, j \in DOMAIN foresporsel[k].dok :
                          foresporsel[k].dok[i].ref = foresporsel[k].dok[j].ref => i = j
        ELSE Navn(foresporsel[k]) \cap Navn(foresporsel[l]) \subseteq {Ingen}

\* The context of the executor's events, put together from the tables, says
\* what the first event said, and the case number in addition, for clients
\* that use a reference once only.
KontekstStemmer ==
    \A k \in Kommandoer : UliktNavngitt /\ steg[k] = "dekomponert" =>
        LET tidlig == kontekst[k]
            sen == SenKontekst(k)
        IN /\ tidlig.sak = sen.sak /\ tidlig.journalpost = sen.journalpost
           /\ tidlig.dok = sen.dok
           /\ tidlig.saksnummer # Ingen => sen.saksnummer = tidlig.saksnummer

\* An operator's retry looks for the original under a subject made from the
\* stored type; it was published under one made from the message.
OriginalFinnes ==
    \A k \in Kommandoer : type[k] # Ingen => emne[k] = TypeToken(type[k])

\* The wished responsible of a case changes when a command that names one is
\* decomposed for the first time; a message that comes again changes nothing.
OensketEndresEnGang ==
    [][\A s \in Saker :
          sakRad[s] # Ingen /\ sakRad'[s].oensket # sakRad[s].oensket =>
              \E k \in Kommandoer : /\ steg[k] = "klar" /\ steg'[k] = "dekomponert"
                                    /\ foresporsel[k].ansvarlig = sakRad'[s].oensket]_vars

JournalpostIMaal(k) ==
    /\ foresporsel[k].type \in Journalposttyper
    /\ \/ arkiv[foresporsel[k].ref] = Avvist
       \/ /\ Sendt(foresporsel[k].ref)
          /\ \A i \in 2..Len(foresporsel[k].dok) : arkiv[foresporsel[k].dok[i].ref] # Ingen

\* Every document of a record reaches the archive, or the record is refused,
\* when no reference is used twice.
BlirArkivert ==
    \A k \in Kommandoer :
        UliktNavngitt /\ foresporsel[k].type \in Journalposttyper ~> JournalpostIMaal(k)

\* Another command has been decomposed that says the same record has another
\* document at one of the places of this one.
Fortrengt(k) ==
    \E l \in Kommandoer \ {k} :
        /\ steg[l] = "dekomponert"
        /\ foresporsel[k].ref # Ingen /\ foresporsel[l].ref = foresporsel[k].ref
        /\ \E i \in DOMAIN foresporsel[k].dok \cap DOMAIN foresporsel[l].dok :
               foresporsel[k].dok[i].ref # foresporsel[l].dok[i].ref

\* Every command is decomposed, in whatever order and however often the others
\* come, unless another has put other documents at its places.  Such a one may
\* never be: only a document that has a row is passed over (ON CONFLICT), a
\* place that is taken rolls everything back, the message is handed back, and
\* without max_deliver it comes again for ever with the same end.
KommandoAvgjores ==
    \A k \in Kommandoer : <>(steg[k] = "dekomponert" \/ Fortrengt(k))

\* What is written under one name is found under the same: the original of a
\* command, and the entities that its events are about.
EttNavn == TypeOK /\ KontekstStemmer /\ OriginalFinnes

\* Nothing is left half way: commands are decomposed, and records complete,
\* where no two requests claim one place in a record.
AltAvgjores == BlirArkivert /\ KommandoAvgjores
=============================================================================
