------------------------------- MODULE Mottak -------------------------------
(***************************************************************************)
(* From a client's request to operations in the database: ingest over core *)
(* NATS, the inbox stream, validation, the ready stream, decomposition and *)
(* the operator's retry of a command that never got that far.              *)
(*                                                                         *)
(* Between any two steps a handler may crash, lose its connection or be    *)
(* refused by the database; JetStream then delivers the message again, to  *)
(* the same listener or to another instance.  A message may also be        *)
(* delivered again while its first handler is still at work (ack_wait).    *)
(* The streams drop a message id they have seen within the dedup window.   *)
(*                                                                         *)
(* Payloads are reduced to the references they mint and the case they name; *)
(* markup, media and field checks only decide whether a command is refused *)
(* without a lookup (Payload[c].lokalfeil).  The 180 days after which the  *)
(* streams forget a message are left out.                                  *)
(***************************************************************************)
EXTENDS Naturals, FiniteSets, Sequences

CONSTANTS
    Kommandoer,     \* command ids
    Payload,        \* what each command says
    Foresporsler,   \* requests of the clients: an id and a sequence of commands
    Innhold,
    Validatorer,    \* validation listeners
    Operatorer,     \* operators, who run the validation service on their own
    Dekomponerere,  \* decomposition listeners
    Ingen,
    MaksSendt,      \* bound: times a client sends one request
    MaksKopier,     \* bound: messages of one command in one stream
    MaksFeil,       \* bound: steps that fail and message ids that expire
    Forlop          \* bound: how often each request is sent beside the others, how
                    \* many failures they meet and whether an operator acts

Typer == {"opprett_sak", "opprett_journalpost", "sett_saksansvarlig", "avslutt_sak"}

\* `ref` and `dokumenter` are the client references a command mints; `sak` is
\* the client reference or, with `nummer`, the archive number of its case.
ErPayload(p) ==
    /\ p.type \in Typer
    /\ p.nummer \in BOOLEAN /\ p.lokalfeil \in BOOLEAN
    /\ IsFiniteSet(p.dokumenter)
    /\ p.type = "opprett_sak" => p.sak = p.ref /\ ~p.nummer

ASSUME MottakAntagelse ==
    /\ DOMAIN Payload = Kommandoer /\ DOMAIN Innhold = Foresporsler
    /\ \A c \in Kommandoer : ErPayload(Payload[c])
    /\ \A r \in Foresporsler : Innhold[r] \in Seq(Kommandoer) /\ Innhold[r] # <<>>
    /\ MaksSendt \in Nat /\ MaksKopier \in Nat /\ MaksFeil \in Nat
    /\ Ingen \notin Kommandoer
    /\ Validatorer \cap Operatorer = {}

VARIABLES
    \* --- Postgres ---
    rad,            \* command: no row, received, or with dispatchet_at
    koblet,         \* commands with sak_id
    forkastet,      \* commands with forkastet_at
    dekomponert,    \* commands with dekomponert_at
    entitet,        \* entitet.entitet_type of a client reference
    arkivert,       \* case keys with entitet.arkiv_id
    \* --- the archive and the executor (external) ---
    avsluttet,      \* cases closed in the archive
    fullfort,       \* commands whose operations are all done
    \* --- JetStream: stored messages, acknowledged ones, ids in the window ---
    innboks, innboksKvittert, innboksVindu,
    klar, klarKvittert, klarVindu,
    strom,          \* command events published, by command
    \* --- clients and handlers ---
    klient,         \* each request: times sent, the reply, where ingest is
    validator,      \* each validation listener and operator
    dekomponerer,   \* each decomposition listener
    apnet,          \* commands an operator has revalidated
    feil            \* failed steps and expired message ids so far

dbVars == <<rad, koblet, forkastet, dekomponert, entitet, arkivert>>
arkivVars == <<avsluttet, fullfort>>
innboksVars == <<innboks, innboksKvittert, innboksVindu>>
klarVars == <<klar, klarKvittert, klarVindu>>
vars == <<dbVars, arkivVars, innboksVars, klarVars, strom, klient, validator,
          dekomponerer, apnet, feil>>

----------------------------------------------------------------------------
(* Types *)

Saksnokler == {Payload[c].sak : c \in Kommandoer}
Referanser == {Payload[c].ref : c \in Kommandoer}
              \cup (UNION {Payload[c].dokumenter : c \in Kommandoer}) \cup Saksnokler
Entitetstyper == {"ingen", "sak", "journalpost", "dokument"}
Meldinger == Kommandoer \X (1..MaksKopier)
Hendelser == {"mottatt", "validert", "avvist", "utfores", "feilet", "fullfort"}

IngestSteg == {"venter", "registrer", "entiteter", "knytt", "dispatch",
               "marker", "publiser"}
ValSteg == {"ledig", "valider", "send", "publiser", "kvitter"}
DekSteg == {"ledig", "plan", "lagre", "publiser_utfores", "publiser_feilet",
            "kvitter"}

LedigVal == [steg |-> "ledig", kmd |-> Ingen, melding |-> Ingen, utfall |-> "ingen"]
LedigDek == [steg |-> "ledig", kmd |-> Ingen, melding |-> Ingen]
Handterere == Validatorer \cup Operatorer

TypeOK ==
    /\ rad \in [Kommandoer -> {"ingen", "mottatt", "dispatchet"}]
    /\ koblet \subseteq Kommandoer /\ forkastet \subseteq Kommandoer
    /\ dekomponert \subseteq Kommandoer /\ fullfort \subseteq Kommandoer
    /\ entitet \in [Referanser -> Entitetstyper]
    /\ arkivert \subseteq Saksnokler /\ avsluttet \subseteq Saksnokler
    /\ innboks \subseteq Meldinger /\ innboksKvittert \subseteq innboks
    /\ klar \subseteq Meldinger /\ klarKvittert \subseteq klar
    /\ innboksVindu \subseteq Kommandoer /\ klarVindu \subseteq Kommandoer
    /\ strom \in [Kommandoer -> SUBSET Hendelser]
    /\ klient \in [Foresporsler -> [sendt : 0..MaksSendt, steg : IngestSteg,
                                    nr : Nat, svar : {"ingen", "ok", "feil"}]]
    /\ \A r \in Foresporsler : klient[r].nr \in 1..Len(Innhold[r])
    /\ validator \in [Handterere -> [steg : ValSteg,
                        kmd : Kommandoer \cup {Ingen},
                        melding : Meldinger \cup {Ingen},
                        utfall : {"ingen", "ok", "avvist"}]]
    /\ dekomponerer \in [Dekomponerere -> [steg : DekSteg,
                        kmd : Kommandoer \cup {Ingen},
                        melding : Meldinger \cup {Ingen}]]
    /\ apnet \subseteq Kommandoer
    /\ feil \in 0..MaksFeil

Init ==
    /\ rad = [c \in Kommandoer |-> "ingen"]
    /\ koblet = {} /\ forkastet = {} /\ dekomponert = {} /\ fullfort = {}
    /\ entitet = [x \in Referanser |-> "ingen"]
    \* a case named by its number is in the archive before the command
    /\ arkivert = {Payload[c].sak : c \in {d \in Kommandoer : Payload[d].nummer}}
    /\ avsluttet = {}
    /\ innboks = {} /\ innboksKvittert = {} /\ innboksVindu = {}
    /\ klar = {} /\ klarKvittert = {} /\ klarVindu = {}
    /\ strom = [c \in Kommandoer |-> {}]
    /\ klient = [r \in Foresporsler |->
                   [sendt |-> 0, steg |-> "venter", nr |-> 1, svar |-> "ingen"]]
    /\ validator = [v \in Handterere |-> LedigVal]
    /\ dekomponerer = [d \in Dekomponerere |-> LedigDek]
    /\ apnet = {} /\ feil = 0

----------------------------------------------------------------------------
(* JetStream *)

\* The bounds on what clients, failures and operators do.
Betjent == apnet \cup forkastet # {}
Innenfor(kl, antall, betjent) ==
    \E f \in Forlop : /\ \A r \in Foresporsler : kl[r].sendt <= f.sendinger[r]
                      /\ antall <= f.feil /\ (betjent => f.betjent)
KanFeile == feil < MaksFeil /\ Innenfor(klient, feil + 1, Betjent)

Antall(stroem, c) == Cardinality({m \in stroem : m[1] = c})
Fortell(c, hendelse) == strom' = [strom EXCEPT ![c] = @ \cup {hendelse}]

\* send_publish with a message id: stored unless the id is in the window.
TilInnboks(c) ==
    /\ IF c \in innboksVindu THEN innboks' = innboks
       ELSE /\ Antall(innboks, c) < MaksKopier
            /\ innboks' = innboks \cup {<<c, Antall(innboks, c) + 1>>}
    /\ innboksVindu' = innboksVindu \cup {c}
    /\ innboksKvittert' = innboksKvittert

\* dispatch_validated: an operator's revalidation has an id of its own and is
\* always stored.
TilKlar(c, unik) ==
    /\ IF c \in klarVindu /\ ~unik THEN klar' = klar
       ELSE /\ Antall(klar, c) < MaksKopier
            /\ klar' = klar \cup {<<c, Antall(klar, c) + 1>>}
    /\ klarVindu' = IF unik THEN klarVindu ELSE klarVindu \cup {c}
    /\ klarKvittert' = klarKvittert

\* Time passes, and the streams forget the id of an earlier message (only while
\* the bound has room for a message stored again).
VinduUtlop(c) ==
    /\ c \in innboksVindu \cup klarVindu /\ KanFeile
    /\ Antall(innboks, c) < MaksKopier /\ Antall(klar, c) < MaksKopier
    /\ feil' = feil + 1
    /\ innboksVindu' = innboksVindu \ {c} /\ klarVindu' = klarVindu \ {c}
    /\ UNCHANGED <<dbVars, arkivVars, innboks, innboksKvittert, klar,
                   klarKvittert, strom, klient, validator, dekomponerer, apnet>>

----------------------------------------------------------------------------
(* Ingest: one request is handled command by command *)

Naa(r) == Innhold[r][klient[r].nr]
Besvar(r, steg, nr, svar) ==
    klient' = [klient EXCEPT ![r] = [sendt |-> klient[r].sendt, steg |-> steg,
                                     nr |-> nr, svar |-> svar]]
Ingest(r, steg) == Besvar(r, steg, klient[r].nr, klient[r].svar)

\* The client sends the request, or sends it again after an error, a timeout
\* or a lost reply.
Send(r) ==
    /\ klient[r].steg = "venter" /\ klient[r].sendt < MaksSendt
    /\ klient' = [klient EXCEPT ![r] = [sendt |-> klient[r].sendt + 1, steg |-> "registrer",
                                        nr |-> 1, svar |-> "ingen"]]
    /\ Innenfor(klient', feil, Betjent)
    /\ UNCHANGED <<dbVars, arkivVars, innboksVars, klarVars, strom, validator,
                   dekomponerer, apnet, feil>>

\* The command is done: the next one, or the reply to the batch.
Neste(r) ==
    IF klient[r].nr < Len(Innhold[r])
    THEN Besvar(r, "registrer", klient[r].nr + 1, klient[r].svar)
    ELSE Besvar(r, "venter", klient[r].nr, "ok")

\* Mutant: a row is taken as a sign that the command was dispatched.
Registrer_RadErNok(r) ==
    LET c == Naa(r)
    IN  /\ klient[r].steg = "registrer"
        /\ IF rad[c] # "ingen"
           THEN Neste(r) /\ UNCHANGED rad
           ELSE /\ rad' = [rad EXCEPT ![c] = "mottatt"]
                /\ Ingest(r, "entiteter")
        /\ UNCHANGED <<koblet, forkastet, dekomponert, entitet, arkivert,
                       arkivVars, innboksVars, klarVars, strom, validator,
                       dekomponerer, apnet, feil>>

\* registrer_mottatt: dispatchet_at, not the row, decides whether the command
\* goes further.
Registrer(r) ==
    LET c == Naa(r)
    IN  /\ klient[r].steg = "registrer"
        /\ IF rad[c] = "dispatchet"
           THEN Neste(r) /\ UNCHANGED rad
           ELSE /\ rad' = [rad EXCEPT ![c] = "mottatt"]
                /\ Ingest(r, "entiteter")
        /\ UNCHANGED <<koblet, forkastet, dekomponert, entitet, arkivert,
                       arkivVars, innboksVars, klarVars, strom, validator,
                       dekomponerer, apnet, feil>>

\* The entities a command mints (registrer_entiteter).
Minter(p) ==
    IF p.type = "opprett_sak" THEN {<<p.ref, "sak">>}
    ELSE IF p.type = "opprett_journalpost"
    THEN {<<p.ref, "journalpost">>} \cup {<<d, "dokument">> : d \in p.dokumenter}
    ELSE {}

\* registrer: the row that exists wins (ON CONFLICT DO NOTHING).
Registrert(x, minter) ==
    IF entitet[x] = "ingen" /\ \E e \in minter : e[1] = x
    THEN (CHOOSE e \in minter : e[1] = x)[2] ELSE entitet[x]

RegistrerEntiteter(r) ==
    /\ klient[r].steg = "entiteter"
    /\ LET p == Payload[Naa(r)]
       IN  entitet' = [x \in Referanser |->
              Registrert(x, Minter(p)
                 \cup IF p.nummer THEN {<<p.sak, "sak">>} ELSE {})]
    /\ Ingest(r, "knytt")
    /\ UNCHANGED <<rad, koblet, forkastet, dekomponert, arkivert, arkivVars,
                   innboksVars, klarVars, strom, validator, dekomponerer,
                   apnet, feil>>

\* finn_sak_id: a reference that is no case gives nothing.
FinnSak(c) == entitet[Payload[c].sak] = "sak"

KnyttSak(r) ==
    /\ klient[r].steg = "knytt"
    /\ koblet' = IF FinnSak(Naa(r)) THEN koblet \cup {Naa(r)} ELSE koblet
    /\ Ingest(r, "dispatch")
    /\ UNCHANGED <<rad, forkastet, dekomponert, entitet, arkivert, arkivVars,
                   innboksVars, klarVars, strom, validator, dekomponerer,
                   apnet, feil>>

Dispatch(r) ==
    /\ klient[r].steg = "dispatch"
    /\ TilInnboks(Naa(r))
    /\ Ingest(r, "marker")
    /\ UNCHANGED <<dbVars, arkivVars, klarVars, strom, validator, dekomponerer,
                   apnet, feil>>

MarkerDispatchet(r) ==
    /\ klient[r].steg = "marker"
    /\ rad' = [rad EXCEPT ![Naa(r)] = "dispatchet"]
    /\ Ingest(r, "publiser")
    /\ UNCHANGED <<koblet, forkastet, dekomponert, entitet, arkivert, arkivVars,
                   innboksVars, klarVars, strom, validator, dekomponerer,
                   apnet, feil>>

PubliserMottatt(r) ==
    /\ klient[r].steg = "publiser"
    /\ Fortell(Naa(r), "mottatt")
    /\ Neste(r)
    /\ UNCHANGED <<dbVars, arkivVars, innboksVars, klarVars, validator,
                   dekomponerer, apnet, feil>>

\* A step fails or the process stops: the batch is answered with an error, or
\* not at all.
IngestFeiler(r) ==
    /\ klient[r].steg # "venter" /\ KanFeile
    /\ feil' = feil + 1
    /\ Besvar(r, "venter", klient[r].nr, "feil")
    /\ UNCHANGED <<dbVars, arkivVars, innboksVars, klarVars, strom, validator,
                   dekomponerer, apnet>>

----------------------------------------------------------------------------
(* Validation: the listeners, and the operator's own use of the service *)

\* A stored message that nobody has acknowledged is delivered, also while
\* another listener is at work on it.
HentInnboks(v, m) ==
    /\ validator[v].steg = "ledig"
    /\ m \in innboks \ innboksKvittert
    /\ validator' = [validator EXCEPT ![v] = [steg |-> "valider", kmd |-> m[1],
                                              melding |-> m, utfall |-> "ingen"]]
    /\ UNCHANGED <<dbVars, arkivVars, innboksVars, klarVars, strom, klient,
                   dekomponerer, apnet, feil>>

\* The operator's retry: a command without operations is read back from the
\* inbox stream, linked to its case if it was not, and validated again.
Revalider(v, c) ==
    /\ Innenfor(klient, feil, TRUE)
    /\ validator[v].steg = "ledig"
    /\ rad[c] # "ingen" /\ c \notin forkastet \cup dekomponert
    /\ Antall(innboks, c) > 0
    /\ koblet' = IF FinnSak(c) THEN koblet \cup {c} ELSE koblet
    /\ apnet' = apnet \cup {c}
    /\ validator' = [validator EXCEPT ![v] = [steg |-> "valider", kmd |-> c,
                                              melding |-> Ingen, utfall |-> "ingen"]]
    /\ UNCHANGED <<rad, forkastet, dekomponert, entitet, arkivert, arkivVars,
                   innboksVars, klarVars, strom, klient, dekomponerer, feil>>

\* Mutant: a reference nobody has minted is let through.
Godkjent_UkjentSak(p) ==
    /\ ~p.lokalfeil
    /\ IF p.type = "opprett_sak" THEN p.sak \notin arkivert
       ELSE p.sak \in arkivert => p.sak \notin avsluttet

\* valider_opprett_sak and validate_sak_ref: a case this command opens must
\* not be in the archive, any other case must be known and not closed there.
Godkjent(p) ==
    /\ ~p.lokalfeil
    /\ IF p.type = "opprett_sak" THEN p.sak \notin arkivert
       ELSE /\ p.nummer \/ entitet[p.sak] # "ingen"
            /\ p.sak \in arkivert => p.sak \notin avsluttet

\* The listener goes on with its message.
Viderefor(v, steg, utfall) ==
    validator' = [validator EXCEPT ![v] = [steg |-> steg, kmd |-> validator[v].kmd,
                                           melding |-> validator[v].melding,
                                           utfall |-> utfall]]

Valider(v) ==
    /\ validator[v].steg = "valider"
    /\ IF Godkjent(Payload[validator[v].kmd]) THEN Viderefor(v, "send", "ok")
       ELSE Viderefor(v, "publiser", "avvist")
    /\ UNCHANGED <<dbVars, arkivVars, innboksVars, klarVars, strom, klient,
                   dekomponerer, apnet, feil>>

SendKlar(v) ==
    /\ validator[v].steg = "send"
    /\ TilKlar(validator[v].kmd, v \in Operatorer)
    /\ Viderefor(v, "publiser", validator[v].utfall)
    /\ UNCHANGED <<dbVars, arkivVars, innboksVars, strom, klient, dekomponerer,
                   apnet, feil>>

\* Validert or Avvist; the operator's call ends here, it holds no message.
PubliserValidering(v) ==
    /\ validator[v].steg = "publiser"
    /\ Fortell(validator[v].kmd,
               IF validator[v].utfall = "ok" THEN "validert" ELSE "avvist")
    /\ IF v \in Operatorer THEN validator' = [validator EXCEPT ![v] = LedigVal]
       ELSE Viderefor(v, "kvitter", validator[v].utfall)
    /\ UNCHANGED <<dbVars, arkivVars, innboksVars, klarVars, klient,
                   dekomponerer, apnet, feil>>

KvitterInnboks(v) ==
    /\ validator[v].steg = "kvitter"
    /\ innboksKvittert' = innboksKvittert \cup {validator[v].melding}
    /\ validator' = [validator EXCEPT ![v] = LedigVal]
    /\ UNCHANGED <<dbVars, arkivVars, innboks, innboksVindu, klarVars, strom,
                   klient, dekomponerer, apnet, feil>>

\* Mutant: a validation that could not finish acknowledges its message.
ValideringFeiler_Kvitterer(v) ==
    /\ validator[v].steg # "ledig" /\ KanFeile
    /\ feil' = feil + 1
    /\ innboksKvittert' = innboksKvittert
          \cup IF v \in Validatorer THEN {validator[v].melding} ELSE {}
    /\ validator' = [validator EXCEPT ![v] = LedigVal]
    /\ UNCHANGED <<dbVars, arkivVars, innboks, innboksVindu, klarVars, strom,
                   klient, dekomponerer, apnet>>

\* A lookup, a publish or the acknowledgement fails, or the process stops: the
\* message is not acknowledged.
ValideringFeiler(v) ==
    /\ validator[v].steg # "ledig" /\ KanFeile
    /\ feil' = feil + 1
    /\ validator' = [validator EXCEPT ![v] = LedigVal]
    /\ UNCHANGED <<dbVars, arkivVars, innboksVars, klarVars, strom, klient,
                   dekomponerer, apnet>>

\* The operator's discard: a finished command is not touched, any other is
\* discarded for good.
Forkast(c) ==
    /\ Operatorer # {} /\ Innenfor(klient, feil, TRUE)
    /\ rad[c] # "ingen" /\ c \notin forkastet \cup fullfort
    /\ forkastet' = forkastet \cup {c}
    /\ UNCHANGED <<rad, koblet, dekomponert, entitet, arkivert, arkivVars,
                   innboksVars, klarVars, strom, klient, validator,
                   dekomponerer, apnet, feil>>

----------------------------------------------------------------------------
(* Decomposition *)

HentKlar(d, m) ==
    /\ dekomponerer[d].steg = "ledig"
    /\ m \in klar \ klarKvittert
    /\ dekomponerer' = [dekomponerer EXCEPT ![d] =
                          [steg |-> "plan", kmd |-> m[1], melding |-> m]]
    /\ UNCHANGED <<dbVars, arkivVars, innboksVars, klarVars, strom, klient,
                   validator, apnet, feil>>

\* Every reference is an entity of the kind the command takes it for.  A case
\* named by its number is found or created on the spot.
Planlegges(p) ==
    /\ p.nummer \/ entitet[p.sak] = "sak"
    /\ \A e \in Minter(p) : entitet[e[1]] = e[2]

\* The listener goes on with its message.
GaarTil(d, steg) ==
    dekomponerer' = [dekomponerer EXCEPT ![d] = [steg |-> steg, kmd |-> dekomponerer[d].kmd,
                                                 melding |-> dekomponerer[d].melding]]

\* Mutant: a reference of another kind is waited for.
Plan_Venter(d) ==
    /\ dekomponerer[d].steg = "plan" /\ Planlegges(Payload[dekomponerer[d].kmd])
    /\ GaarTil(d, "lagre")
    /\ UNCHANGED <<dbVars, arkivVars, innboksVars, klarVars, strom, klient,
                   validator, apnet, feil>>

Plan(d) ==
    /\ dekomponerer[d].steg = "plan"
    /\ LET p == Payload[dekomponerer[d].kmd]
       IN  /\ GaarTil(d, IF Planlegges(p) THEN "lagre" ELSE "publiser_feilet")
           /\ entitet' = IF p.nummer /\ entitet[p.sak] = "ingen"
                         THEN [entitet EXCEPT ![p.sak] = "sak"] ELSE entitet
    /\ UNCHANGED <<rad, koblet, forkastet, dekomponert, arkivert, arkivVars,
                   innboksVars, klarVars, strom, klient, validator, apnet, feil>>

\* Mutant: the discard is checked when the retry is planned, not here.
Lagre_UtenForkast(d) ==
    LET c == dekomponerer[d].kmd
        forste == c \notin dekomponert
    IN  /\ dekomponerer[d].steg = "lagre"
        /\ dekomponert' = IF forste THEN dekomponert \cup {c} ELSE dekomponert
        /\ koblet' = IF forste THEN koblet \cup {c} ELSE koblet
        /\ GaarTil(d, IF forste THEN "publiser_utfores" ELSE "kvitter")
        /\ UNCHANGED <<rad, forkastet, entitet, arkivert, arkivVars,
                       innboksVars, klarVars, strom, klient, validator, apnet,
                       feil>>

\* lagre_dekomponering: only the first time is announced; a discarded command
\* gets no operations.
Lagre(d) ==
    LET c == dekomponerer[d].kmd
        forste == c \notin dekomponert \cup forkastet
    IN  /\ dekomponerer[d].steg = "lagre"
        /\ dekomponert' = IF forste THEN dekomponert \cup {c} ELSE dekomponert
        /\ koblet' = IF forste THEN koblet \cup {c} ELSE koblet
        /\ GaarTil(d, IF forste THEN "publiser_utfores" ELSE "kvitter")
        /\ UNCHANGED <<rad, forkastet, entitet, arkivert, arkivVars,
                       innboksVars, klarVars, strom, klient, validator, apnet,
                       feil>>

PubliserDekomponering(d) ==
    /\ dekomponerer[d].steg \in {"publiser_utfores", "publiser_feilet"}
    /\ Fortell(dekomponerer[d].kmd,
               IF dekomponerer[d].steg = "publiser_utfores" THEN "utfores" ELSE "feilet")
    /\ GaarTil(d, "kvitter")
    /\ UNCHANGED <<dbVars, arkivVars, innboksVars, klarVars, klient, validator,
                   apnet, feil>>

KvitterKlar(d) ==
    /\ dekomponerer[d].steg = "kvitter"
    /\ klarKvittert' = klarKvittert \cup {dekomponerer[d].melding}
    /\ dekomponerer' = [dekomponerer EXCEPT ![d] = LedigDek]
    /\ UNCHANGED <<dbVars, arkivVars, innboksVars, klar, klarVindu, strom,
                   klient, validator, apnet, feil>>

\* Mutant: a failure is told although the message stays on the stream.
DekomponeringFeiler_Melder(d) ==
    /\ dekomponerer[d].steg # "ledig" /\ KanFeile
    /\ feil' = feil + 1
    /\ Fortell(dekomponerer[d].kmd, "feilet")
    /\ dekomponerer' = [dekomponerer EXCEPT ![d] = LedigDek]
    /\ UNCHANGED <<dbVars, arkivVars, innboksVars, klarVars, klient, validator, apnet>>

DekomponeringFeiler(d) ==
    /\ dekomponerer[d].steg # "ledig" /\ KanFeile
    /\ feil' = feil + 1
    /\ dekomponerer' = [dekomponerer EXCEPT ![d] = LedigDek]
    /\ UNCHANGED <<dbVars, arkivVars, innboksVars, klarVars, strom, klient,
                   validator, apnet>>

\* External: the executor has carried out every operation of the command.
Fullfor(c) ==
    LET p == Payload[c]
    IN  /\ c \in dekomponert \ (fullfort \cup forkastet)
        /\ p.type # "opprett_sak" => p.sak \in arkivert \ avsluttet
        /\ fullfort' = fullfort \cup {c}
        /\ arkivert' = IF p.type = "opprett_sak" THEN arkivert \cup {p.sak} ELSE arkivert
        /\ avsluttet' = IF p.type = "avslutt_sak" THEN avsluttet \cup {p.sak} ELSE avsluttet
        /\ Fortell(c, "fullfort")
        /\ UNCHANGED <<rad, koblet, forkastet, dekomponert, entitet,
                       innboksVars, klarVars, klient, validator, dekomponerer,
                       apnet, feil>>

----------------------------------------------------------------------------
IngestGaar(r) ==
    \/ Registrer(r) \/ RegistrerEntiteter(r) \/ KnyttSak(r) \/ Dispatch(r)
    \/ MarkerDispatchet(r) \/ PubliserMottatt(r)

ValideringGaar(v) ==
    \/ Valider(v) \/ SendKlar(v) \/ PubliserValidering(v) \/ KvitterInnboks(v)

DekomponeringGaar(d) ==
    \/ Plan(d) \/ Lagre(d) \/ PubliserDekomponering(d) \/ KvitterKlar(d)

Next ==
    \/ \E r \in Foresporsler : Send(r) \/ IngestGaar(r) \/ IngestFeiler(r)
    \/ \E v \in Validatorer : \E m \in innboks : HentInnboks(v, m)
    \/ \E v \in Operatorer : \E c \in Kommandoer : Revalider(v, c)
    \/ \E v \in Handterere : ValideringGaar(v) \/ ValideringFeiler(v)
    \/ \E d \in Dekomponerere : \/ \E m \in klar : HentKlar(d, m)
                                \/ DekomponeringGaar(d) \/ DekomponeringFeiler(d)
    \/ \E c \in Kommandoer : VinduUtlop(c) \/ Forkast(c) \/ Fullfor(c)

Spec == Init /\ [][Next]_vars

\* A listener at work goes on, and an idle one pulls what is stored.  Ingest,
\* clients, operators, failures and the executor owe nothing.
Rettferdig ==
    /\ \A v \in Validatorer : /\ WF_vars(\E m \in innboks : HentInnboks(v, m))
                              /\ WF_vars(ValideringGaar(v))
    /\ \A d \in Dekomponerere : /\ WF_vars(\E m \in klar : HentKlar(d, m))
                                /\ WF_vars(DekomponeringGaar(d))

FairSpec == Spec /\ Rettferdig

----------------------------------------------------------------------------
(* Properties *)

Underveis(c) ==
    \/ \E m \in innboks \ innboksKvittert : m[1] = c
    \/ \E m \in klar \ klarKvittert : m[1] = c

Avgjort(c) == c \in dekomponert \cup forkastet \/ {"avvist", "feilet"} \cap strom[c] # {}

\* No command is lost: what ingest has marked as dispatched is on one of the
\* streams until it has operations, was discarded, or its client was told that
\* it is refused -- whatever the crashes, redeliveries and dropped duplicates.
IngenTapes == \A c \in Kommandoer : rad[c] = "dispatchet" => Underveis(c) \/ Avgjort(c)

\* The reply "ok" is true of the whole batch: every command of it is marked as
\* dispatched, also when an earlier attempt stopped half-way (SKU-0008 R3).
OkErSann ==
    \A r \in Foresporsler : klient[r].svar = "ok" =>
        \A i \in 1..Len(Innhold[r]) : rad[Innhold[r][i]] = "dispatchet"

\* Decomposition need not repair: whatever is on the ready stream, every
\* reference of it is an entity by then (skuffen_id: "a missing row means that
\* validation let something through").
KlarHarEntitet ==
    \A m \in klar : LET p == Payload[m[1]]
                    IN  /\ p.nummer \/ entitet[p.sak] # "ingen"
                        /\ \A e \in Minter(p) : entitet[e[1]] # "ingen"

\* A permanent failure of decomposition is never contradicted: no later
\* delivery or retry decomposes the command (publiser_feilet).
FeiletStaar == \A c \in Kommandoer : "feilet" \in strom[c] => c \notin dekomponert

\* A discard is final: no retry that began before it, and no delivery after it,
\* gives the command operations (SKU-0024; lagre_dekomponering).
ForkastetErEndelig ==
    [][\A c \in forkastet : c \in dekomponert' => c \in dekomponert]_vars

\* A command that was dispatched is decomposed, discarded or refused in the
\* end, if failures cease: again and again there comes a moment with nothing
\* undecided, and both a dispatch and a decision last.
KommerVidere == []<>(\A c \in Kommandoer : rad[c] = "dispatchet" => Avgjort(c))

\* What is decided stays decided, in order: nothing is on the stream before what
\* it names is registered, no later delivery contradicts a failure, and nothing
\* brings a discarded command back.
AvgjortStaar ==
    /\ [](TypeOK /\ KlarHarEntitet /\ FeiletStaar)
    /\ ForkastetErEndelig
=============================================================================
