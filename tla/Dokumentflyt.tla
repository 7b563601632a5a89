---------------------------- MODULE Dokumentflyt ----------------------------
(***************************************************************************)
(* A document from upload to archive: uploads to the object store, the     *)
(* check of references when a command arrives, the rendering of a template *)
(* and the sending of the stored bytes.  Uploads of several processes and  *)
(* the one executor work on the same store, and nothing locks it.          *)
(*                                                                         *)
(* Content is a record: its kind and the way it writes the token of the    *)
(* case number, which is all that the template functions look at.          *)
(***************************************************************************)
EXTENDS Naturals, Sequences, FiniteSets

CONSTANTS
    Opplastinger,   \* upload sessions
    Id, Innhold,    \* what each of them stores, and under which upload_id
    Dokumenter,     \* documents of commands
    Ref,            \* their dokument_referanse or mal_referanse
    Felter,         \* a template's declared fields; Bytes for a document as is
    Bytes, Ingen,
    MaksFeil        \* bound: failures, stops of the process included

\* How a template writes the token: not at all, as {{saksnummer}}, with blanks
\* inside the braces, twice, or it writes another one.
Skrivemaater == {"ingen", "stram", "luft", "to", "annet"}

\* rendered_dokument_referanse: a key derived from the document, under a
\* namespace of its own.
Rendret(d) == <<"pdf", d>>

ASSUME DokumentflytAntagelse ==
    /\ \A o \in Opplastinger : /\ Innhold[o].token \in Skrivemaater
                               /\ Innhold[o] # Ingen
                               /\ \A d \in Dokumenter : Id[o] # Rendret(d)
    /\ \A d \in Dokumenter : /\ Ref[d] \in {Id[o] : o \in Opplastinger}
                             /\ Felter[d] \in Seq({"saksnummer"}) \cup {Bytes}
    /\ Ingen \notin Dokumenter
    /\ MaksFeil \in Nat

VARIABLES
    lager,       \* the object store
    opplasting,  \* how far each upload session has come
    delt,        \* history: ids that two different contents were stored under
                 \* by sessions that overlapped
    saksnummer,  \* the case has its archive id
    dok,         \* the document of a command
    hand, steg,  \* the executor: its document, and how far the rendering is
    mal,         \* the bytes it has read
    mottatt,     \* history: what the reference named when the command came
    arkiv,       \* what was sent to the archive
    feil

lagerVars == <<opplasting, delt>>
arbeid == <<hand, steg, mal>>
vars == <<lager, lagerVars, saksnummer, dok, arbeid, mottatt, arkiv, feil>>

Nokler == {Id[o] : o \in Opplastinger} \cup {Rendret(d) : d \in Dokumenter}

Pdf(c, utfylt) == [slag |-> "pdf", av |-> c, utfylt |-> utfylt]
Inne == {"skriver", "skrevet"}

TypeOK ==
    /\ DOMAIN lager = Nokler
    /\ opplasting \in [Opplastinger ->
           {"klar", "ok", "konflikt", "utilgjengelig"} \cup Inne]
    /\ delt \subseteq Nokler /\ saksnummer \in BOOLEAN
    /\ dok \in [Dokumenter -> {"ny", "avvist", "avventer", "klar", "arkivert",
                               "feilet"}]
    /\ hand \in Dokumenter \cup {Ingen}
    /\ steg \in {"ledig", "utfylt", "pdf", "lagret"} /\ (hand = Ingen) = (steg = "ledig")
    /\ feil \in 0..MaksFeil

Init ==
    /\ lager = [n \in Nokler |-> Ingen]
    /\ opplasting = [o \in Opplastinger |-> "klar"] /\ delt = {}
    /\ saksnummer = FALSE /\ dok = [d \in Dokumenter |-> "ny"]
    /\ hand = Ingen /\ steg = "ledig" /\ mal = Ingen
    /\ mottatt = [d \in Dokumenter |-> Ingen] /\ arkiv = [d \in Dokumenter |-> Ingen]
    /\ feil = 0

----------------------------------------------------------------------------
(* Tokens: valider_tokens and substituer_tokens                            *)

\* The tokens of a template, blanks inside the braces trimmed; an unknown one
\* and a repeated one are errors.
Tokens(c) == IF c.token = "ingen" THEN {} ELSE {"saksnummer"}
Lesbar(c) == c.token \notin {"to", "annet"}

EnGang(felter) == \A i, j \in DOMAIN felter : felter[i] = felter[j] => i = j
Navn(felter) == {felter[i] : i \in DOMAIN felter}

\* Mutant: a template without the declared token passes.
Godtatt_Delmengde(c, felter) ==
    Lesbar(c) /\ EnGang(felter) /\ Tokens(c) \subseteq Navn(felter)

Godtatt(c, felter) ==
    Lesbar(c) /\ EnGang(felter) /\ Tokens(c) = Navn(felter)

\* Only the exact text {{saksnummer}} is replaced.
Utfylt(c) == c.token # "luft"

----------------------------------------------------------------------------
(* Upload: UploadStore::store, called by the session that has all chunks   *)

\* Mutant: what is stored already is a conflict, whatever it is.
Funn_AlltidKonflikt(o) == IF lager[Id[o]] = Ingen THEN "tomt" ELSE "konflikt"

\* inspect: nothing, the same size and digest, or something else.
Funn(o) == IF lager[Id[o]] = Ingen THEN "tomt"
           ELSE IF lager[Id[o]] = Innhold[o] THEN "ok" ELSE "konflikt"

\* The client starts a session, again when the last one ended without an answer.
Inspiser(o) ==
    /\ opplasting[o] \in {"klar", "utilgjengelig"}
    /\ opplasting' = [opplasting EXCEPT ![o] =
           IF Funn(o) = "tomt" THEN "skriver" ELSE Funn(o)]
    /\ UNCHANGED <<lager, delt, saksnummer, dok, arbeid, mottatt, arkiv, feil>>

Legges(o) ==
    /\ lager' = [lager EXCEPT ![Id[o]] = Innhold[o]]
    /\ delt' = delt \cup
           {Id[p] : p \in {p \in Opplastinger : /\ opplasting[p] \in Inne
                                                /\ Id[p] = Id[o]
                                                /\ Innhold[p] # Innhold[o]}}

\* Mutant: the answer is given without a look at the store beforehand.
Legg_Overalt(o) ==
    /\ opplasting[o] \in {"klar", "skriver"} /\ Legges(o)
    /\ opplasting' = [opplasting EXCEPT ![o] = "skrevet"]
    /\ UNCHANGED <<saksnummer, dok, arbeid, mottatt, arkiv, feil>>

Legg(o) ==
    /\ opplasting[o] = "skriver" /\ Legges(o)
    /\ opplasting' = [opplasting EXCEPT ![o] = "skrevet"]
    /\ UNCHANGED <<saksnummer, dok, arbeid, mottatt, arkiv, feil>>

\* The second look: nothing is ever deleted, so something is there.
Bekreft(o) ==
    /\ opplasting[o] = "skrevet"
    /\ opplasting' = [opplasting EXCEPT ![o] = Funn(o)]
    /\ UNCHANGED <<lager, delt, saksnummer, dok, arbeid, mottatt, arkiv, feil>>

\* The store fails a look or the write.  A write that fails may have happened.
OpplastingFeiler(o) ==
    /\ opplasting[o] \in {"klar", "utilgjengelig"} \cup Inne /\ feil < MaksFeil
    /\ \/ UNCHANGED <<lager, delt>>
       \/ opplasting[o] = "skriver" /\ Legges(o)
    /\ opplasting' = [opplasting EXCEPT ![o] = "utilgjengelig"]
    /\ feil' = feil + 1
    /\ UNCHANGED <<saksnummer, dok, arbeid, mottatt, arkiv>>

----------------------------------------------------------------------------
(* A command arrives: every reference must be in the store and a field be  *)
(* declared once; the template itself is not read                          *)

Malform(d) == Felter[d] # Bytes

Gyldig(d) == lager[Ref[d]] # Ingen /\ (Malform(d) => EnGang(Felter[d]))

Motta(d) ==
    /\ dok[d] = "ny"
    /\ dok' = [dok EXCEPT ![d] = IF ~Gyldig(d) THEN "avvist"
                                 ELSE IF Malform(d) THEN "avventer" ELSE "klar"]
    /\ mottatt' = [mottatt EXCEPT ![d] = lager[Ref[d]]]
    /\ UNCHANGED <<lager, lagerVars, saksnummer, arbeid, arkiv, feil>>

\* The store does not answer: the command is refused.
MottakFeiler(d) ==
    /\ dok[d] = "ny" /\ feil < MaksFeil
    /\ dok' = [dok EXCEPT ![d] = "avvist"] /\ feil' = feil + 1
    /\ UNCHANGED <<lager, lagerVars, saksnummer, arbeid, mottatt, arkiv>>

SakFaarNummer ==
    /\ ~saksnummer /\ saksnummer' = TRUE
    /\ UNCHANGED <<lager, lagerVars, dok, arbeid, mottatt, arkiv, feil>>

----------------------------------------------------------------------------
(* RenderDokument, by the one executor                                     *)

Slipp == hand' = Ingen /\ steg' = "ledig" /\ mal' = Ingen

\* vurder_render_dokument: declared fields wait for their values.
KanRendres(d) == dok[d] = "avventer" /\ (Felter[d] # <<>> => saksnummer)

\* The template is read and filled in; what its tokens do wrong is permanent.
HentMal(d) ==
    /\ hand = Ingen /\ KanRendres(d)
    /\ LET c == lager[Ref[d]]
       IN  IF c = Ingen \/ ~Godtatt(c, Felter[d])
           THEN dok' = [dok EXCEPT ![d] = "feilet"] /\ UNCHANGED arbeid
           ELSE /\ hand' = d /\ steg' = "utfylt" /\ mal' = Pdf(c, Utfylt(c))
                /\ UNCHANGED dok
    /\ UNCHANGED <<lager, lagerVars, saksnummer, mottatt, arkiv, feil>>

\* What ends a rendering short of a PDF: no token client, no identity token, no
\* connection or an answer by class.  Those that no later attempt will change:
Varige == {"token_client", "client_error"}
Svar == {"ok", "token_client", "token_request", "network", "auth_failure",
         "client_error", "server_error", "unexpected_status"}

Rendrer ==
    /\ steg = "utfylt"
    /\ \E s \in Svar :
          /\ s # "ok" => feil < MaksFeil
          /\ feil' = IF s = "ok" THEN feil ELSE feil + 1
          /\ dok' = IF s \in Varige THEN [dok EXCEPT ![hand] = "feilet"] ELSE dok
          /\ IF s = "ok" THEN steg' = "pdf" /\ UNCHANGED <<hand, mal>> ELSE Slipp
    /\ UNCHANGED <<lager, lagerVars, saksnummer, mottatt, arkiv>>

LagrePdf ==
    /\ steg = "pdf" /\ steg' = "lagret"
    /\ lager' = [lager EXCEPT ![Rendret(hand)] = mal]
    /\ UNCHANGED <<lagerVars, saksnummer, dok, hand, mal, mottatt, arkiv, feil>>

\* Mutant: the row is released without the document's new fact.
RendretFerdig_UtenFakta ==
    /\ steg = "lagret" /\ Slipp
    /\ UNCHANGED <<lager, lagerVars, saksnummer, dok, mottatt, arkiv, feil>>

\* The reference is committed with the operation; the document can be sent.
RendretFerdig ==
    /\ steg = "lagret" /\ dok' = [dok EXCEPT ![hand] = "klar"] /\ Slipp
    /\ UNCHANGED <<lager, lagerVars, saksnummer, mottatt, arkiv, feil>>

\* The store fails a read or the write, or the commit fails: from the start again.
RenderingFeiler ==
    /\ steg \in {"pdf", "lagret"} /\ feil < MaksFeil
    /\ feil' = feil + 1 /\ Slipp
    /\ \/ UNCHANGED lager
       \/ steg = "pdf" /\ lager' = [lager EXCEPT ![Rendret(hand)] = mal]
    /\ UNCHANGED <<lagerVars, saksnummer, dok, mottatt, arkiv>>

----------------------------------------------------------------------------
(* Sending: the bytes are read from the store once more                    *)

\* Mutant: the template's own bytes are sent.
Sendes_Mal(d) == Ref[d]

Sendes(d) == IF Malform(d) THEN Rendret(d) ELSE Ref[d]

Arkiver(d) ==
    /\ hand = Ingen /\ dok[d] = "klar" /\ saksnummer
    /\ dok' = [dok EXCEPT ![d] =
                  IF lager[Sendes(d)] = Ingen THEN "feilet" ELSE "arkivert"]
    /\ arkiv' = [arkiv EXCEPT ![d] = lager[Sendes(d)]]
    /\ UNCHANGED <<lager, lagerVars, saksnummer, arbeid, mottatt, feil>>

\* The process stops: its sessions are gone, the client hears nothing.
Krasj ==
    /\ feil < MaksFeil /\ feil' = feil + 1 /\ Slipp
    /\ opplasting' = [o \in Opplastinger |->
           IF opplasting[o] \in Inne THEN "utilgjengelig" ELSE opplasting[o]]
    /\ UNCHANGED <<lager, delt, saksnummer, dok, mottatt, arkiv>>

Utforer ==
    \/ \E d \in Dokumenter : HentMal(d) \/ Arkiver(d)
    \/ Rendrer \/ LagrePdf \/ RendretFerdig

Next ==
    \/ \E o \in Opplastinger : Inspiser(o) \/ Legg(o) \/ Bekreft(o) \/ OpplastingFeiler(o)
    \/ \E d \in Dokumenter : Motta(d) \/ MottakFeiler(d)
    \/ SakFaarNummer \/ RenderingFeiler \/ Krasj
    \/ Utforer

Spec == Init /\ [][Next]_vars

\* The executor runs on, a started session ends, and the case is created.
FairSpec ==
    /\ Spec /\ WF_vars(Utforer) /\ WF_vars(SakFaarNummer)
    /\ \A o \in Opplastinger : WF_vars(Legg(o)) /\ WF_vars(Bekreft(o))

----------------------------------------------------------------------------
(* Properties                                                              *)

\* A client that was told ok finds its content under its id for as long as it
\* may use it, unless sessions with different contents ran at the same time.
OkErLagret ==
    \A o \in Opplastinger :
        opplasting[o] = "ok" => lager[Id[o]] = Innhold[o] \/ Id[o] \in delt

\* A client that repeats its own upload, after whatever loss of answers, never
\* meets a conflict with itself.
GjentattErIkkeKonflikt ==
    \A o \in Opplastinger : opplasting[o] = "konflikt" =>
        \E p \in Opplastinger : Id[p] = Id[o] /\ Innhold[p] # Innhold[o]

\* What reaches the archive is what the reference named when the command was
\* accepted, or the PDF of it, however often the rendering began anew.
ArkivertErMottatt ==
    \A d \in Dokumenter : dok[d] = "arkivert" /\ Ref[d] \notin delt =>
        IF Malform(d) THEN arkiv[d].slag = "pdf" /\ arkiv[d].av = mottatt[d]
                      ELSE arkiv[d] = mottatt[d]

\* A document that was archived with declared fields came from a template that
\* had them and nothing else: felter and tokens match (SKU-0005 R7).
FelterPasser ==
    \A d \in Dokumenter :
        dok[d] \in {"klar", "arkivert"} /\ Malform(d) /\ Ref[d] \notin delt =>
            (mottatt[d].token = "ingen") = (Felter[d] = <<>>)

\* Every accepted document is archived or has failed in the end: no lost PDF,
\* answer or process leaves it waiting.
MottattBlirAvgjort ==
    \A d \in Dokumenter :
        dok[d] \in {"avventer", "klar"} ~> dok[d] \in {"arkivert", "feilet"}


\* What is uploaded and declared is what is stored and archived: a repeated
\* upload is no conflict, an ok stands, and the archive gets the bytes that the
\* reference named, with every field filled.
DokumentetStaar ==
    /\ TypeOK
    /\ OkErLagret
    /\ GjentattErIkkeKonflikt
    /\ ArkivertErMottatt
    /\ FelterPasser
=============================================================================
