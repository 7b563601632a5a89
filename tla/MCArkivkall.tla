---------------------------- MODULE MCArkivkall -----------------------------
(* Instances of Arkivkall for TLC. *)
EXTENDS Arkivkall

CONSTANTS
    sak, lang, jp, vedlegg, lukk, hent, tilgang, feltfeil, bruker, tomt, hjemlos, omtalt,
    uferdig, borte

\* A withheld case; one with too long a title; a withheld journalpost that is
\* sent out; an attachment without content; a closing with open journalposts; a
\* case that is not there; journalposts refused by text; two that cannot be
\* mapped; one whose title has a word of a refusal; a template as
\* attachment, should the decision let one through; and a journalpost whose file the store does not have, without a
\* recipient.
Alle == {sak, lang, jp, vedlegg, lukk, hent, tilgang, feltfeil, bruker, tomt, hjemlos, omtalt,
         uferdig, borte}
AlleTyper ==
    [k \in Alle |-> CASE k \in {sak, lang} -> "OpprettSak"
                      [] k \in {vedlegg, uferdig} -> "LeggTilVedlegg"
                      [] k = lukk -> "AvsluttSak" [] k = hent -> "HentSak"
                      [] OTHER -> "OpprettJournalpost"]
AlleTitler ==
    [k \in Alle |-> [tegn |-> IF k = omtalt THEN {"validering"} ELSE {}, bytes |-> IF k = lang THEN 262 ELSE 44]]
AlleParter ==
    [k \in Alle |-> CASE k = jp -> "utsending" [] k = tilgang -> "avsender"
                      [] k = feltfeil -> "mottakere" [] k \in {tomt, borte} -> "ingen_mottaker"
                      [] k = hjemlos -> "uten_adresse" [] OTHER -> "ingen"]
AlleSkjermet == [k \in Alle |-> k \in {sak, jp}]
AlleDokumenter ==
    [k \in Alle |-> CASE k = uferdig -> "urendret" [] k = borte -> "mangler" [] OTHER -> "lagret"]
AlleAvslag ==
    [k \in Alle |-> CASE k = vedlegg -> Svar(500, {"vedlegg_uten_innhold"}, {})
                      [] k = lukk -> Svar(500, {"restanse"}, {})
                      [] k = hent -> Svar(404, {}, {})
                      [] k = tilgang -> Svar(400, {"tilgang"}, {})
                      [] k = feltfeil -> Svar(500, {"validering", "feil"}, {})
                      [] k = bruker -> Svar(500, {"identifisering", "ikke_i_ephorte"}, {})
                      [] OTHER -> Nei]

\* Calls share the gateway and nothing else: each alone, and two pairs.
Forlopene == {{k} : k \in Alle} \cup {{sak, hent}, {jp, lukk}}
=============================================================================
