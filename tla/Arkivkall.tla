----------------------------- MODULE Arkivkall ------------------------------
(***************************************************************************)
(* One call to the archive, tried until it is decided: the mapping of what *)
(* is sent, the credentials, the archive, and above all the classification *)
(* of what comes back.  An operation's fate hangs on it: a terminal failure *)
(* is published to the client and cannot be taken back.                    *)
(*                                                                         *)
(* Text is the set of phrases that some rule looks for.  An answer has an  *)
(* errorMessage and, since the archive repeats its input and adds a stack  *)
(* trace, the echo of what was sent.                                       *)
(***************************************************************************)
EXTENDS Naturals, Sequences, FiniteSetsExt, Functions

CONSTANTS
    Kall,       \* calls, each for an operation of its own
    Type,       \* what each of them asks for
    Tittel,     \* the phrases its texts contain, and its length in bytes
    Skjermet,   \* it is to be withheld from the public
    Parter,     \* its correspondents
    Dokument,   \* its document: in the store, not there, or never rendered
    Avslag,     \* the answer with which the archive always refuses it, or Nei
    Modi,       \* the gateways: "sikri", or a failure mode of the fake
    Nei,
    Forlop,     \* bound: the calls that are made beside each other
    MaksFeil    \* bound: failures that pass

Leser == {"HentSak", "HentJournalstatus"}
MedId == {"OpprettSak", "OpprettJournalpost"}
MedDokument == {"OpprettJournalpost", "LeggTilVedlegg"}
Typer == Leser \cup MedId
    \cup {"LeggTilVedlegg", "SettJournalpostStatus", "Avskriv", "AvsluttSak",
          "SettSaksansvarlig"}

\* The gateways there are: the real one, and the fake with each of its failures.
Moduser == {"sikri", "ingen", "recoverable", "irrecoverable", "uavskrevne_restanser",
            "manglende_dokumentinnhold"}

ASSUME ArkivkallAntagelse ==
    /\ Forlop \subseteq SUBSET Kall
    /\ Type \in [Kall -> Typer] /\ Skjermet \in [Kall -> BOOLEAN]
    /\ Dokument \in [Kall -> {"lagret", "urendret", "mangler"}]
    /\ Modi \subseteq Moduser
    /\ MaksFeil \in Nat

VARIABLES
    modus, maal,  \* the gateway; the call the fake fails
    steg,         \* how far each call has come
    svar,         \* the archive's answer to it
    kode,         \* the stable code of its terminal failure
    arkiv,        \* what the archive keeps of it
    feil

vars == <<modus, maal, steg, svar, kode, arkiv, feil>>

Init ==
    /\ modus \in Modi
    /\ maal \in IF modus = "sikri" THEN {"alle"} ELSE Typer \cup {"alle"}
    /\ \E F \in Forlop : steg = [k \in Kall |-> IF k \in F THEN "klar" ELSE "ingen"]
    /\ svar = [k \in Kall |-> Nei]
    /\ kode = [k \in Kall |-> Nei] /\ arkiv = [k \in Kall |-> Nei]
    /\ feil = 0

----------------------------------------------------------------------------
(* Classification of an answer: error_mapping.rs                           *)

Svar(status, melding, ekko) == [status |-> status, melding |-> melding, ekko |-> ekko]
Kropp(s) == s.melding \cup s.ekko
Sier(s, ord) == ord \subseteq Kropp(s)

Regel(status, ord, varig) == [status |-> status, ord |-> ord, varig |-> varig]

\* Mutant: the rules on the status alone come first, and one of them is wrong.
ERROR_RULES_StatusForst ==
    << Regel(429, {}, TRUE), Regel(404, {}, TRUE), Regel(500, {"tilgang"}, TRUE) >>

\* "mangler tilgang" and "ikke har rettighet" are one phrase here.
ERROR_RULES ==
    << Regel(500, {"identifisering", "bad_gateway"}, FALSE),
       Regel(500, {"identifisering", "ikke_i_ephorte"}, TRUE),
       Regel(500, {"jp_uten_innhold"}, TRUE),
       Regel(400, {"tilgang"}, TRUE),
       Regel(500, {"tilgang"}, TRUE),
       Regel(400, {"validering", "feil"}, TRUE),
       Regel(500, {"validering", "feil"}, TRUE),
       Regel(404, {}, TRUE),
       Regel(401, {}, FALSE), Regel(403, {}, FALSE), Regel(429, {}, FALSE) >>

Treff(s) == {i \in DOMAIN ERROR_RULES : /\ ERROR_RULES[i].status = s.status
                                        /\ Sier(s, ERROR_RULES[i].ord)}

\* Mutant: the rules that read errorMessage are forgotten.
Varig_UtenErrorMessage(s) == Treff(s) # {} /\ ERROR_RULES[Min(Treff(s))].varig

\* Two rules read errorMessage alone.  Of the others the first that matches
\* decides, and what no rule knows is tried again.
Varig(s) ==
    \/ s.status = 500 /\ s.melding \cap {"restanse", "vedlegg_uten_innhold"} # {}
    \/ Treff(s) # {} /\ ERROR_RULES[Min(Treff(s))].varig

KODER ==
    << "sikri_upstream_unavailable", "sikri_unknown_user", "sikri_unresolved_journalposter",
       "sikri_missing_document_content", "sikri_access_control_rejected",
       "sikri_validation_failed", "sikri_resource_not_found", "sikri_rate_limited",
       "sikri_upstream_error", "sikri_invalid_request" >>

\* Those, and the ones the client of the archive and the mapping give themselves.
Koder ==
    Range(KODER) \cup
    {"sikri_secret_unavailable", "sikri_response_unparsable",
     "sikri_request_validation_failed", "arkivmapping_mottaker_mangler",
     "arkivmapping_postadresse_mangler", "arkivmapping_skjerming_postcondition_brutt",
     "arkivmapping_urendret_mal", "intern_media_mangler", "intern_media_utilgjengelig"}

\* Which of them an answer fits.
Passer(s) ==
    LET avvist == s.status \in {400, 500}
    IN  {i \in DOMAIN KODER :
            \/ i = 1 /\ Sier(s, {"identifisering", "bad_gateway"})
            \/ i = 2 /\ Varig(s) /\ Sier(s, {"identifisering", "ikke_i_ephorte"})
            \/ i = 3 /\ s.status = 500 /\ "restanse" \in s.melding
            \/ i = 4 /\ avvist /\ \/ Sier(s, {"jp_uten_innhold"})
                                  \/ "vedlegg_uten_innhold" \in s.melding
            \/ i = 5 /\ avvist /\ Sier(s, {"tilgang"})
            \/ i = 6 /\ avvist /\ Sier(s, {"validering", "feil"})
            \/ i = 7 /\ s.status = 404
            \/ i = 8 /\ s.status = 429
            \/ i = 9 /\ s.status \in 500..599
            \/ i = 10}

\* The first of them.
Kode(s) == KODER[Min(Passer(s))]

\* Mutant: the codes of refusals are left to the last arm.
Klientkode_AndreFeilet(c) ==
    CASE c = "sikri_resource_not_found"       -> "NotFound"
      [] c = "sikri_unresolved_journalposter" -> "PrerequisitePending"
      [] OTHER                                -> "ProcessingFailed"

\* What the client is told (error_code_for); the codes of the mapping's own
\* refusals are given with them, and what is internal is told as that.
Klientkode(c) ==
    CASE c = "sikri_resource_not_found"       -> "NotFound"
      [] c = "sikri_unresolved_journalposter" -> "PrerequisitePending"
      [] c \in {"sikri_rate_limited", "sikri_upstream_unavailable",
                "sikri_upstream_error", "sikri_secret_unavailable",
                "intern_media_utilgjengelig"} -> "TemporaryUnavailable"
      [] c \in {"sikri_response_unparsable", "arkivmapping_urendret_mal",
                "intern_media_mangler", "arkivmapping_skjerming_postcondition_brutt"}
                                              -> "ProcessingFailed"
      [] OTHER                                -> "InvalidRequest"

----------------------------------------------------------------------------
(* What is sent                                                            *)

Part(k) == [unntatt |-> Skjermet[k]]

\* Mutant: a case is created as public.
Melding_AapenSak(k) ==
    [tilgang |-> Skjermet[k] /\ Type[k] # "OpprettSak",
     parter  |-> IF Type[k] = "OpprettJournalpost" /\ Parter[k] # "ingen"
                 THEN {Part(k)} ELSE {}]

\* The case with its code and authority, or the journalpost with its own and
\* every correspondent's mark.
Melding(k) ==
    [tilgang |-> Skjermet[k],
     parter  |-> IF Type[k] = "OpprettJournalpost" /\ Parter[k] # "ingen"
                 THEN {Part(k)} ELSE {}]

\* verifiser_skjerming, on the mapped journalpost.
Verifisert(k) ==
    Skjermet[k] => Melding(k).tilgang /\ \A p \in Melding(k).parter : p.unntatt

\* map_dokument and hent_media_base64: a template that was never rendered, which
\* the executor's decision stops before the gateway does, and a file that the
\* store does not have.
DokumentFeil(k) ==
    CASE Type[k] \in MedDokument /\ Dokument[k] = "urendret" -> "arkivmapping_urendret_mal"
      [] Type[k] \in MedDokument /\ Dokument[k] = "mangler"  -> "intern_media_mangler"
      [] OTHER                                               -> Nei

\* What ends a call before anything is sent: its document, which is looked up
\* first, its correspondents, its shielding, or a case's title.
EgenFeil(k) ==
    CASE DokumentFeil(k) # Nei -> DokumentFeil(k)
      [] DokumentFeil(k) = Nei /\ Type[k] = "OpprettJournalpost" /\ Parter[k] = "ingen_mottaker"
             -> "arkivmapping_mottaker_mangler"
      [] DokumentFeil(k) = Nei /\ Type[k] = "OpprettJournalpost" /\ Parter[k] = "uten_adresse"
             -> "arkivmapping_postadresse_mangler"
      [] Type[k] = "OpprettJournalpost" /\ ~Verifisert(k)
             -> "arkivmapping_skjerming_postcondition_brutt"
      [] Type[k] = "OpprettSak" /\ Tittel[k].bytes \notin 1..256
             -> "sikri_request_validation_failed"
      [] OTHER -> Nei

----------------------------------------------------------------------------
(* The calls                                                               *)

Til(k, s) == steg' = [steg EXCEPT ![k] = s]

Feilet(k, c, varig) ==
    /\ kode' = IF varig THEN [kode EXCEPT ![k] = c] ELSE kode
    /\ Til(k, IF varig THEN "feilet" ELSE "klar")

Forbered(k) ==
    /\ modus = "sikri" /\ steg[k] = "klar"
    /\ IF EgenFeil(k) # Nei THEN Feilet(k, EgenFeil(k), TRUE)
       ELSE Til(k, "forberedt") /\ UNCHANGED kode
    /\ UNCHANGED <<modus, maal, svar, arkiv, feil>>

\* The store does not answer: tried again.
MediaFeiler(k) ==
    /\ modus = "sikri" /\ steg[k] = "klar"
    /\ Type[k] \in MedDokument /\ Dokument[k] # "urendret"
    /\ feil < MaksFeil /\ feil' = feil + 1
    /\ Feilet(k, "intern_media_utilgjengelig", FALSE)
    /\ UNCHANGED <<modus, maal, svar, arkiv>>

\* Credentials are fetched for each call; a failure is tried again.
Hemmelighet(k) ==
    /\ steg[k] = "forberedt" /\ Til(k, "sendt")
    /\ UNCHANGED <<modus, maal, svar, kode, arkiv, feil>>

HemmelighetFeiler(k) ==
    /\ steg[k] = "forberedt" /\ feil < MaksFeil /\ feil' = feil + 1
    /\ Feilet(k, "sikri_secret_unavailable", FALSE)
    /\ UNCHANGED <<modus, maal, svar, arkiv>>

Ekko(k) == Tittel[k].tegn

\* The archive for the moment cannot, or not with these credentials.
Forbigaaende(k) ==
    {Svar(st, {}, Ekko(k)) : st \in {401, 403, 409, 429}}
    \cup {Svar(st, {"feil"}, Ekko(k)) : st \in {500, 503}}
    \cup {Svar(500, {"identifisering", "feil", "bad_gateway"}, Ekko(k))}

\* Nei is neither a code nor an answer.
ASSUME NeiAntagelse ==
    /\ Nei \notin Koder
    /\ \A k \in Kall : Nei \notin Forbigaaende(k)

ArkivetAvviser(k) ==
    /\ steg[k] = "sendt" /\ Til(k, "svart")
    /\ \/ Avslag[k] # Nei /\ UNCHANGED feil
          /\ svar' = [svar EXCEPT ![k] = Avslag[k]]
       \/ /\ feil < MaksFeil /\ feil' = feil + 1
          /\ \E s \in Forbigaaende(k) : svar' = [svar EXCEPT ![k] = s]
    /\ UNCHANGED <<modus, maal, kode, arkiv>>

Skriv(k) == arkiv' = IF Type[k] \in Leser THEN arkiv
                     ELSE [arkiv EXCEPT ![k] = Melding(k)]

ArkivetUtforer(k) ==
    /\ steg[k] = "sendt" /\ Avslag[k] = Nei
    /\ Skriv(k) /\ Til(k, "utfort")
    /\ UNCHANGED <<modus, maal, svar, kode, feil>>

\* A status other than 2xx: ensure_success.
Klassifiser(k) ==
    /\ steg[k] = "svart"
    /\ Feilet(k, Kode(svar[k]), Varig(svar[k]))
    /\ svar' = [svar EXCEPT ![k] = Nei]
    /\ UNCHANGED <<modus, maal, arkiv, feil>>

Lest(k) ==
    /\ steg[k] = "utfort" /\ Til(k, "ok")
    /\ UNCHANGED <<modus, maal, svar, kode, arkiv, feil>>

\* No answer within five minutes.
Transportfeil(k) ==
    /\ steg[k] \in {"sendt", "utfort"} /\ feil < MaksFeil /\ feil' = feil + 1
    /\ Feilet(k, "sikri_upstream_unavailable", FALSE)
    /\ UNCHANGED <<modus, maal, svar, arkiv>>

\* 2xx in another form, or without the case number or the journalpost's id.
Parsefeil(k) ==
    /\ steg[k] = "utfort" /\ Type[k] \in MedId \cup Leser \cup {"LeggTilVedlegg"}
    /\ feil < MaksFeil /\ feil' = feil + 1
    /\ Feilet(k, "sikri_response_unparsable", FALSE)
    /\ UNCHANGED <<modus, maal, svar, arkiv>>

----------------------------------------------------------------------------
(* The fake gateway, with the failure an environment variable asks for     *)

RESTANSESVAR == Svar(500, {"restanse"}, {})
VEDLEGGSSVAR == Svar(500, {"vedlegg_uten_innhold"}, {})

\* Mutant: the recoverable failure is one the archive ends a call with.
SomFeil_Ukjent(m) == <<"sikri_unknown_user", FALSE>>

SomFeil(m) ==
    CASE m = "irrecoverable"             -> <<"sikri_unknown_user", TRUE>>
      [] m = "recoverable"               -> <<"sikri_upstream_unavailable", FALSE>>
      [] m = "uavskrevne_restanser"      -> <<Kode(RESTANSESVAR), Varig(RESTANSESVAR)>>
      [] m = "manglende_dokumentinnhold" -> <<Kode(VEDLEGGSSVAR), Varig(VEDLEGGSSVAR)>>

\* What the environment asked for stays: the fake fails for as long as it runs.
FakeKall(k) ==
    /\ modus # "sikri" /\ steg[k] = "klar"
    /\ IF modus # "ingen" /\ maal \in {"alle", Type[k]}
       THEN Feilet(k, SomFeil(modus)[1], SomFeil(modus)[2]) /\ UNCHANGED arkiv
       ELSE Skriv(k) /\ Til(k, "ok") /\ UNCHANGED kode
    /\ UNCHANGED <<modus, maal, svar, feil>>

Fremover(k) ==
    \/ Forbered(k) \/ Hemmelighet(k) \/ ArkivetAvviser(k) \/ ArkivetUtforer(k)
    \/ Klassifiser(k) \/ Lest(k) \/ FakeKall(k)

Next ==
    \E k \in Kall :
        \/ Fremover(k)
        \/ MediaFeiler(k) \/ HemmelighetFeiler(k) \/ Transportfeil(k) \/ Parsefeil(k)

Spec == Init /\ [][Next]_vars

\* The executor tries until the call is decided.
FairSpec == Spec /\ \A k \in Kall : WF_vars(Fremover(k))

----------------------------------------------------------------------------
(* Properties                                                              *)

\* Codes, steps and failures; a code is kept of a terminal failure only.
TypeOK ==
    /\ steg \in [Kall -> {"ingen", "klar", "forberedt", "sendt", "utfort", "svart", "ok", "feilet"}]
    /\ \A k \in Kall : (kode[k] # Nei) = (steg[k] = "feilet")
    /\ \A k \in Kall : (svar[k] # Nei) = (steg[k] = "svart")
    /\ maal \in Typer \cup {"alle"} /\ feil \in 0..MaksFeil

\* A phrase of a refusal is in what the call itself sent.
LignerAvslag(k) ==
    \E i \in DOMAIN ERROR_RULES :
        /\ ERROR_RULES[i].varig /\ ERROR_RULES[i].ord # {}
        /\ ERROR_RULES[i].ord \subseteq Ekko(k) \cup {"feil", "identifisering"}

\* "Terminal feil krever positivt treff": what was sent fails for good only when
\* the archive has refused it for good; passing trouble, wrong credentials and
\* throttling never end an operation, unless its own texts are a refusal's: the
\* rules search the whole answer, and the answer repeats them.  The exception
\* is what our own side ends before it is sent: it is never sent and keeps the
\* mapping's or the store's own code.
TerminalErAvvist ==
    \A k \in Kall : modus = "sikri" /\ steg[k] = "feilet" =>
        IF EgenFeil(k) # Nei THEN kode[k] = EgenFeil(k) /\ arkiv[k] = Nei
        ELSE Avslag[k] # Nei \/ LignerAvslag(k)

\* A client whose command failed for good is told that processing failed when
\* its document could not be had, and else that something is wrong with what it
\* asked for: never that it is a passing thing or one of unknown cause, unless
\* the refusal itself looks like one.
TerminalKode ==
    \A k \in Kall :
        /\ steg[k] = "feilet"
        /\ Avslag[k] # Nei => ~Sier(Avslag[k], {"identifisering", "bad_gateway"})
        => IF modus = "sikri" /\ DokumentFeil(k) # Nei
           THEN Klientkode(kode[k]) = "ProcessingFailed"
           ELSE Klientkode(kode[k]) \in {"InvalidRequest", "NotFound", "PrerequisitePending"}

\* What is in the archive is withheld where it was to be, with every
\* correspondent of it (SKU-0015 R10).
SkjermingBevares ==
    \A k \in Kall : arkiv[k] # Nei /\ Skjermet[k] =>
        arkiv[k].tilgang /\ \A p \in arkiv[k].parter : p.unntatt

\* A failure of the fake is one that the archive's own answers are classified
\* as: tests against the fake measure the code that runs in production.
FakeErEkte ==
    modus \notin {"sikri", "ingen"} =>
        \E st \in {500, 503}, m \in SUBSET {"identifisering", "bad_gateway",
                                           "ikke_i_ephorte", "restanse",
                                           "vedlegg_uten_innhold"} :
            LET s == Svar(st, m, {}) IN SomFeil(modus) = <<Kode(s), Varig(s)>>

\* A refusal for good ends the call, and passing trouble does not stop it.
KalletAvgjores ==
    \A k \in Kall : modus # "recoverable" /\ steg[k] # "ingen"
                       => <>(steg[k] \in {"ok", "feilet"})

\* What ends a call for good is a refusal or our own side's inability to make
\* it, the client is told which, and the fake's refusals are the archive's.
FeilErRiktig == TypeOK /\ TerminalErAvvist /\ TerminalKode /\ FakeErEkte
=============================================================================
