--------------------------- MODULE ArkivkallBevis ---------------------------
(***************************************************************************)
(* Proofs about Arkivkall: that what is withheld is stored so, and that     *)
(* the classification of answers ends a call that was sent on a refusal     *)
(* only, for every set of calls, titles, documents, refusals and gateways.  *)
(*                                                                          *)
(* The argument has two halves.  Lemmas about the tables (Forste, Grense,   *)
(* ForbigaaendeVarig, KodeVarig) say what the first rule that matches       *)
(* decides; the invariant Forklart says where the answer that is classified *)
(* came from.                                                               *)
(***************************************************************************)
EXTENDS Arkivkall, WellFoundedInduction, TLAPS

Steg == {"ingen", "klar", "forberedt", "sendt", "utfort", "svart", "ok", "feilet"}
Endelige == {"InvalidRequest", "NotFound", "PrerequisitePending"}

\* The answer is one the archive gives this call.
SvarFra(k, s) == s \in Forbigaaende(k) \/ (Avslag[k] # Nei /\ s = Avslag[k])

\* A refusal that does not look like a passing thing.
Tydelig(k) == Avslag[k] # Nei => ~Sier(Avslag[k], {"identifisering", "bad_gateway"})

Typet ==
    /\ modus \in Modi /\ maal \in Typer \cup {"alle"} /\ feil \in 0..MaksFeil
    /\ steg \in [Kall -> Steg]
    /\ kode \in [Kall -> Koder \cup {Nei}]
    /\ DOMAIN svar = Kall /\ DOMAIN arkiv = Kall

\* Why a call may fail for good with a code: our own side cannot make it, or
\* there is a refusal and the code says so.
Begrunnet(k, c) ==
    IF modus = "sikri" /\ EgenFeil(k) # Nei THEN c = EgenFeil(k)
    ELSE /\ modus = "sikri" => Avslag[k] # Nei \/ LignerAvslag(k)
         /\ Tydelig(k) => Klientkode(c) \in Endelige

\* What is known of each call: an answer is the archive's, a failure for good
\* has its reason, and what cannot be made is never under way.
Forklart ==
    \A k \in Kall :
        /\ (kode[k] # Nei) = (steg[k] = "feilet")
        /\ (svar[k] # Nei) = (steg[k] = "svart")
        /\ steg[k] = "svart" => SvarFra(k, svar[k])
        /\ steg[k] = "feilet" => Begrunnet(k, kode[k])
        /\ steg[k] \in {"forberedt", "sendt", "utfort", "svart"} =>
               modus = "sikri" /\ EgenFeil(k) = Nei

\* What is stored is what was mapped, if it could be.
SomMeldt ==
    \A k \in Kall : /\ arkiv[k] \in {Nei, Melding(k)}
                    /\ modus = "sikri" /\ EgenFeil(k) # Nei => arkiv[k] = Nei

Trygg == Typet /\ Forklart /\ SomMeldt

----------------------------------------------------------------------------
(* The tables                                                              *)

\* A non-empty set of indices has a least one.
LEMMA Forste ==
    ASSUME NEW S \in SUBSET Nat, S # {}
    PROVE  Min(S) \in S /\ \A i \in S : Min(S) <= i
<1> DEFINE R == {p \in Nat \X Nat : p[1] < p[2]}
<1>1. IsWellFoundedOn(R, Nat)
  BY NatLessThanWellFounded DEF OpToRel
<1> HIDE DEF R
<1>2. PICK i \in S : \A j \in S : ~(<<j, i>> \in R)
  BY <1>1, WFMin
<1>3. ASSUME NEW j \in S, j < i PROVE FALSE
  <2>1. <<j, i>> \in Nat \X Nat /\ <<j, i>>[1] < <<j, i>>[2]
    BY <1>3
  <2>2. <<j, i>> \in R
    BY <2>1 DEF R
  <2> QED
    BY <1>2, <2>2
<1> QED
  <2>1. i \in Nat /\ \A j \in S : i <= j
    BY <1>3
  <2> QED
    BY <2>1 DEF Min

\* There are eleven rules and ten codes.
LEMMA Grense == DOMAIN ERROR_RULES = 1..11 /\ DOMAIN KODER = 1..10
BY DEF ERROR_RULES, KODER, Regel

\* The rules that end a call, and what each looks for.
LEMMA VarigeRegler ==
    ASSUME NEW i \in 1..11, ERROR_RULES[i].varig
    PROVE  LET r == ERROR_RULES[i] IN
           \/ r.status = 500 /\ r.ord \in {{"identifisering", "ikke_i_ephorte"}, {"jp_uten_innhold"}}
           \/ r.status \in {400, 500} /\ r.ord \in {{"tilgang"}, {"validering", "feil"}}
           \/ r.status = 404 /\ r.ord = {}
<1>1. i \in {1, 2, 3, 4, 5, 6, 7, 8, 9, 10, 11}
  OBVIOUS
<1> QED
  BY <1>1 DEF ERROR_RULES, Regel

\* The first rule that matches an answer.
LEMMA ForsteRegel ==
    ASSUME NEW s, Treff(s) # {}
    PROVE  /\ Min(Treff(s)) \in 1..11
           /\ ERROR_RULES[Min(Treff(s))].status = s.status
           /\ ERROR_RULES[Min(Treff(s))].ord \subseteq Kropp(s)
           /\ \A i \in Treff(s) : Min(Treff(s)) <= i
<1>1. Treff(s) \in SUBSET Nat
  BY Grense DEF Treff
<1>2. Min(Treff(s)) \in Treff(s) /\ \A i \in Treff(s) : Min(Treff(s)) <= i
  BY <1>1, Forste
<1> QED
  BY <1>2, Grense DEF Treff, Sier

\* A passing failure is taken for a refusal only if the call's own texts are
\* one's, and never when it names a bad gateway.
LEMMA ForbigaaendeVarig ==
    ASSUME NEW k \in Kall, NEW s \in Forbigaaende(k), Varig(s)
    PROVE  LignerAvslag(k) /\ ~Sier(s, {"identifisering", "bad_gateway"})
<1> DEFINE m == Min(Treff(s))
<1>1. /\ s.melding \subseteq {"feil", "identifisering", "bad_gateway"}
      /\ s.ekko = Ekko(k) /\ s.status \notin {400, 404}
  BY DEF Forbigaaende, Svar
<1>2. Treff(s) # {} /\ ERROR_RULES[m].varig
  BY <1>1 DEF Varig
<1>3. /\ m \in 1..11 /\ ERROR_RULES[m].status = s.status
      /\ ERROR_RULES[m].ord \subseteq s.melding \cup Ekko(k)
      /\ \A i \in Treff(s) : m <= i
  BY <1>1, <1>2, ForsteRegel DEF Kropp
<1> HIDE DEF m
<1>4. /\ s.status = 500
      /\ ERROR_RULES[m].ord \in {{"identifisering", "ikke_i_ephorte"}, {"jp_uten_innhold"},
                                 {"tilgang"}, {"validering", "feil"}}
  BY <1>1, <1>2, <1>3, VarigeRegler
<1>5. LignerAvslag(k)
  <2>1. ERROR_RULES[m].ord # {} /\ "bad_gateway" \notin ERROR_RULES[m].ord
    BY <1>4
  <2>2. ERROR_RULES[m].ord \subseteq Ekko(k) \cup {"feil", "identifisering"}
    BY <1>1, <1>3, <2>1
  <2> QED
    BY <1>2, <1>3, <2>1, <2>2, Grense DEF LignerAvslag
<1>6. ASSUME Sier(s, {"identifisering", "bad_gateway"}) PROVE FALSE
  <2>1. ERROR_RULES[1] = Regel(500, {"identifisering", "bad_gateway"}, FALSE)
    BY DEF ERROR_RULES
  <2>2. 1 \in Treff(s) /\ ~ERROR_RULES[1].varig
    BY <1>4, <1>6, <2>1, Grense DEF Treff, Regel
  <2>3. m = 1
    BY <1>3, <2>2
  <2> QED
    BY <1>2, <2>2, <2>3
<1> QED
  BY <1>5, <1>6

\* Every answer has a code.
LEMMA ForsteKode ==
    ASSUME NEW s
    PROVE  /\ Min(Passer(s)) \in Passer(s) /\ Passer(s) \subseteq 1..10
           /\ \A i \in Passer(s) : Min(Passer(s)) <= i
           /\ Kode(s) = KODER[Min(Passer(s))] /\ Kode(s) \in Koder
<1>1. Passer(s) \in SUBSET Nat /\ 10 \in Passer(s) /\ Passer(s) \subseteq 1..10
  BY Grense DEF Passer
<1>2. Min(Passer(s)) \in Passer(s) /\ \A i \in Passer(s) : Min(Passer(s)) <= i
  BY <1>1, Forste
<1> QED
  BY <1>1, <1>2, Grense DEF Kode, Koder, Range

\* The code of an answer that ends a call says so.
LEMMA KodeVarig ==
    ASSUME NEW s, Varig(s), ~Sier(s, {"identifisering", "bad_gateway"})
    PROVE  Klientkode(Kode(s)) \in Endelige
<1> DEFINE p == Min(Passer(s))
<1>1. /\ p \in Passer(s) /\ Kode(s) = KODER[p] /\ p \in 1..10
      /\ \A i \in Passer(s) : p <= i
  BY ForsteKode
<1> HIDE DEF p
<1>2. p # 1
  BY <1>1 DEF Passer
<1>3. \E i \in 2..7 : i \in Passer(s)
  <2>1. CASE s.status = 500 /\ s.melding \cap {"restanse", "vedlegg_uten_innhold"} # {}
    <3>1. 3 \in Passer(s) \/ 4 \in Passer(s)
      BY <2>1, Grense DEF Passer
    <3> QED
      BY <3>1
  <2>2. CASE Treff(s) # {} /\ ERROR_RULES[Min(Treff(s))].varig
    <3> DEFINE r == ERROR_RULES[Min(Treff(s))]
    <3>1. /\ r.ord \subseteq Kropp(s)
          /\ \/ s.status = 500 /\ r.ord \in {{"identifisering", "ikke_i_ephorte"}, {"jp_uten_innhold"}}
             \/ s.status \in {400, 500} /\ r.ord \in {{"tilgang"}, {"validering", "feil"}}
             \/ s.status = 404
      BY <2>2, ForsteRegel, VarigeRegler
    <3> HIDE DEF r
    <3>2. \/ 2 \in Passer(s) \/ 4 \in Passer(s) \/ 5 \in Passer(s)
          \/ 6 \in Passer(s) \/ 7 \in Passer(s)
      BY <3>1, Grense DEF Passer, Sier
    <3> QED
      BY <3>2
  <2> QED
    BY <2>1, <2>2 DEF Varig
<1>4. p \in {2, 3, 4, 5, 6, 7}
  BY <1>1, <1>2, <1>3
<1>5. Kode(s) \in {"sikri_unknown_user", "sikri_unresolved_journalposter",
                   "sikri_missing_document_content", "sikri_access_control_rejected",
                   "sikri_validation_failed", "sikri_resource_not_found"}
  BY <1>1, <1>4 DEF KODER
<1> QED
  BY <1>5 DEF Klientkode, Endelige

\* What the mapping cannot make has a code that says whose fault it is, and its
\* guard against an open mark is never needed.
LEMMA EgenKode ==
    ASSUME NEW k \in Kall
    PROVE  /\ EgenFeil(k) \in Koder \cup {Nei}
           /\ DokumentFeil(k) # Nei => /\ EgenFeil(k) # Nei
                                       /\ Klientkode(EgenFeil(k)) = "ProcessingFailed"
           /\ DokumentFeil(k) = Nei /\ EgenFeil(k) # Nei =>
                  Klientkode(EgenFeil(k)) \in Endelige
<1>1. Verifisert(k)
  BY ArkivkallAntagelse DEF Verifisert, Melding, Part
<1>2. CASE DokumentFeil(k) = Nei
  <2>1. EgenFeil(k) \in {"sikri_request_validation_failed", "arkivmapping_mottaker_mangler",
                         "arkivmapping_postadresse_mangler", Nei}
    BY <1>1, <1>2 DEF EgenFeil
  <2> QED
    BY <1>2, <2>1 DEF Koder, Klientkode, Endelige
<1>3. CASE DokumentFeil(k) # Nei
  <2>1. /\ DokumentFeil(k) \in {"arkivmapping_urendret_mal", "intern_media_mangler"}
        /\ Type[k] \in MedDokument
    BY <1>3 DEF DokumentFeil
  <2>2. EgenFeil(k) = DokumentFeil(k)
    BY <1>1, <1>3, <2>1 DEF EgenFeil, MedDokument
  <2> QED
    BY <1>3, <2>1, <2>2 DEF Koder, Klientkode
<1> QED
  BY <1>2, <1>3

\* An answer the archive gives is kept as an answer.
LEMMA ErSvar == \A k \in Kall : \A s : SvarFra(k, s) => s # Nei
BY NeiAntagelse DEF SvarFra

\* What the fake fails a call with.
LEMMA SomFeilKode ==
    ASSUME NEW m \in Moduser \ {"sikri", "ingen"}
    PROVE  /\ SomFeil(m)[1] \in Koder
           /\ SomFeil(m)[2] => Klientkode(SomFeil(m)[1]) \in Endelige
<1> DEFINE liten == {"restanse", "vedlegg_uten_innhold"}
<1>1. ASSUME NEW w \in liten
      PROVE  ~Sier(Svar(500, {w}, {}), {"identifisering", "bad_gateway"})
  BY DEF Sier, Kropp, Svar
<1>2. CASE m = "irrecoverable"
  BY <1>2 DEF SomFeil, Koder, KODER, Range, Klientkode, Endelige
<1>3. CASE m = "recoverable"
  BY <1>3 DEF SomFeil, Koder, KODER, Range
<1>4. CASE m = "uavskrevne_restanser"
  <2>1. SomFeil(m) = <<Kode(RESTANSESVAR), Varig(RESTANSESVAR)>>
    BY <1>4 DEF SomFeil
  <2>2. Varig(RESTANSESVAR) => Klientkode(Kode(RESTANSESVAR)) \in Endelige
    BY <1>1, KodeVarig DEF RESTANSESVAR
  <2> QED
    BY <2>1, <2>2, ForsteKode
<1>5. CASE m = "manglende_dokumentinnhold"
  <2>1. SomFeil(m) = <<Kode(VEDLEGGSSVAR), Varig(VEDLEGGSSVAR)>>
    BY <1>5 DEF SomFeil
  <2>2. Varig(VEDLEGGSSVAR) => Klientkode(Kode(VEDLEGGSSVAR)) \in Endelige
    BY <1>1, KodeVarig DEF VEDLEGGSSVAR
  <2> QED
    BY <2>1, <2>2, ForsteKode
<1> QED
  BY <1>2, <1>3, <1>4, <1>5 DEF Moduser

----------------------------------------------------------------------------
(* The invariant                                                           *)

LEMMA TryggInit == Init => Trygg
<1> SUFFICES ASSUME Init PROVE Trygg
  OBVIOUS
<1>1. modus \in Modi /\ maal \in Typer \cup {"alle"} /\ feil \in 0..MaksFeil
  BY ArkivkallAntagelse DEF Init
<1>2. /\ steg \in [Kall -> {"ingen", "klar"}]
      /\ \A k \in Kall : kode[k] = Nei /\ svar[k] = Nei /\ arkiv[k] = Nei
      /\ kode \in [Kall -> {Nei}] /\ DOMAIN svar = Kall /\ DOMAIN arkiv = Kall
  BY DEF Init
<1> QED
  BY <1>1, <1>2 DEF Trygg, Typet, Forklart, SomMeldt, Steg

\* A call that fails, for good or to be tried again.
LEMMA FeiletBevarer ==
    ASSUME NEW k \in Kall, NEW c, NEW varig, Feilet(k, c, varig), Typet, Forklart,
           c \in Koder,
           varig => Begrunnet(k, c), steg[k] # "feilet",
           modus' = modus, \A j \in Kall \ {k} : svar'[j] = svar[j], svar'[k] = Nei
    PROVE  /\ steg' \in [Kall -> Steg] /\ kode' \in [Kall -> Koder \cup {Nei}]
           /\ Forklart'
<1>1. CASE varig
  <2>1. kode' = [kode EXCEPT ![k] = c] /\ steg' = [steg EXCEPT ![k] = "feilet"]
    BY <1>1 DEF Feilet, Til
  <2>2. c # Nei
    BY NeiAntagelse
  <2> QED
    BY <1>1, <2>1, <2>2 DEF Typet, Forklart, Steg, SvarFra, LignerAvslag, Tydelig, Begrunnet
<1>2. CASE ~varig
  <2>1. kode' = kode /\ steg' = [steg EXCEPT ![k] = "klar"]
    BY <1>2 DEF Feilet, Til
  <2> QED
    BY <2>1 DEF Typet, Forklart, Steg, SvarFra, LignerAvslag, Tydelig, Begrunnet
<1> QED
  BY <1>1, <1>2

\* A call that gets one step further.
LEMMA TilBevarer ==
    ASSUME NEW k \in Kall, NEW s \in {"forberedt", "sendt", "utfort", "ok"}, Til(k, s),
           Typet, Forklart, steg[k] \notin {"feilet", "svart"},
           s = "ok" \/ (modus = "sikri" /\ EgenFeil(k) = Nei), UNCHANGED <<modus, svar, kode>>
    PROVE  steg' \in [Kall -> Steg] /\ Forklart'
<1>1. steg' = [steg EXCEPT ![k] = s]
  BY DEF Til
<1> QED
  BY <1>1 DEF Typet, Forklart, Steg, SvarFra, LignerAvslag, Tydelig, Begrunnet

LEMMA TryggNeste == Trygg /\ [Next]_vars => Trygg'
<1> SUFFICES ASSUME Trygg, [Next]_vars PROVE Trygg'
  OBVIOUS
<1> USE DEF Trygg
<1>1. ASSUME NEW k \in Kall, Forbered(k) PROVE Trygg'
  <2>1. modus = "sikri" /\ steg[k] = "klar" /\ UNCHANGED <<modus, maal, svar, arkiv, feil>>
    BY <1>1 DEF Forbered
  <2>2. Typet' /\ Forklart'
    <3>1. CASE EgenFeil(k) # Nei
      <4>1. Feilet(k, EgenFeil(k), TRUE)
        BY <1>1, <3>1 DEF Forbered
      <4>2. svar[k] = Nei
        BY <2>1 DEF Forklart
      <4>3. /\ steg' \in [Kall -> Steg] /\ kode' \in [Kall -> Koder \cup {Nei}]
            /\ Forklart'
        BY <2>1, <3>1, <4>1, <4>2, EgenKode, FeiletBevarer DEF Begrunnet
      <4> QED
        BY <2>1, <4>3 DEF Typet
    <3>2. CASE EgenFeil(k) = Nei
      <4>1. Til(k, "forberedt") /\ UNCHANGED kode
        BY <1>1, <3>2 DEF Forbered
      <4> QED
        BY <2>1, <3>2, <4>1, TilBevarer DEF Typet
    <3> QED
      BY <3>1, <3>2
  <2> QED
    BY <2>1, <2>2 DEF SomMeldt
<1>2. ASSUME NEW k \in Kall, Hemmelighet(k) PROVE Trygg'
  <2>1. /\ steg[k] = "forberedt" /\ Til(k, "sendt")
        /\ UNCHANGED <<modus, maal, svar, kode, arkiv, feil>>
    BY <1>2 DEF Hemmelighet
  <2>2. modus = "sikri" /\ EgenFeil(k) = Nei
    BY <2>1 DEF Forklart
  <2> QED
    BY <2>1, <2>2, TilBevarer DEF Typet, SomMeldt
<1>3. ASSUME NEW k \in Kall, HemmelighetFeiler(k) PROVE Trygg'
  <2>1. /\ steg[k] = "forberedt" /\ Feilet(k, "sikri_secret_unavailable", FALSE)
        /\ UNCHANGED <<modus, maal, svar, arkiv>> /\ feil < MaksFeil /\ feil' = feil + 1
    BY <1>3 DEF HemmelighetFeiler
  <2>2. svar[k] = Nei /\ "sikri_secret_unavailable" \in Koder /\ feil' \in 0..MaksFeil
    BY <2>1, ArkivkallAntagelse DEF Forklart, Koder, Typet
  <2> QED
    BY <2>1, <2>2, FeiletBevarer DEF Typet, SomMeldt
<1>13. ASSUME NEW k \in Kall, MediaFeiler(k) PROVE Trygg'
  <2>1. /\ steg[k] = "klar" /\ Feilet(k, "intern_media_utilgjengelig", FALSE)
        /\ UNCHANGED <<modus, maal, svar, arkiv>> /\ feil < MaksFeil /\ feil' = feil + 1
    BY <1>13 DEF MediaFeiler
  <2>2. svar[k] = Nei /\ "intern_media_utilgjengelig" \in Koder /\ feil' \in 0..MaksFeil
    BY <2>1, ArkivkallAntagelse DEF Forklart, Koder, Typet
  <2> QED
    BY <2>1, <2>2, FeiletBevarer DEF Typet, SomMeldt
<1>4. ASSUME NEW k \in Kall, ArkivetAvviser(k) PROVE Trygg'
  <2>1. PICK s : SvarFra(k, s) /\ svar' = [svar EXCEPT ![k] = s]
    BY <1>4 DEF ArkivetAvviser, SvarFra
  <2>2. /\ steg[k] = "sendt" /\ steg' = [steg EXCEPT ![k] = "svart"]
        /\ UNCHANGED <<modus, maal, kode, arkiv>> /\ feil' \in 0..MaksFeil
    BY <1>4, ArkivkallAntagelse DEF ArkivetAvviser, Til, Typet
  <2>3. s # Nei
    BY <2>1, ErSvar
  <2>4. Typet'
    BY <2>1, <2>2 DEF Typet, Steg
  <2>5. Forklart'
    BY <2>1, <2>2, <2>3 DEF Forklart, Typet, SvarFra, LignerAvslag, Tydelig, Begrunnet
  <2> QED
    BY <2>2, <2>4, <2>5 DEF SomMeldt
<1>5. ASSUME NEW k \in Kall, ArkivetUtforer(k) PROVE Trygg'
  <2>1. /\ steg[k] = "sendt" /\ Skriv(k) /\ Til(k, "utfort")
        /\ UNCHANGED <<modus, maal, svar, kode, feil>>
    BY <1>5 DEF ArkivetUtforer
  <2>2. modus = "sikri" /\ EgenFeil(k) = Nei
    BY <2>1 DEF Forklart
  <2>3. DOMAIN arkiv' = Kall /\ SomMeldt'
    BY <2>1, <2>2 DEF Skriv, SomMeldt, Typet, Melding, Part
  <2> QED
    BY <2>1, <2>2, <2>3, TilBevarer DEF Typet
<1>6. ASSUME NEW k \in Kall, Klassifiser(k) PROVE Trygg'
  <2> DEFINE s == svar[k]
  <2>1. /\ steg[k] = "svart" /\ Feilet(k, Kode(s), Varig(s))
        /\ svar' = [svar EXCEPT ![k] = Nei] /\ UNCHANGED <<modus, maal, arkiv, feil>>
    BY <1>6 DEF Klassifiser
  <2>2. SvarFra(k, s) /\ EgenFeil(k) = Nei
    BY <2>1 DEF Forklart
  <2> HIDE DEF s
  <2>3. Kode(s) \in Koder
    BY ForsteKode
  <2>4. Varig(s) => Avslag[k] # Nei \/ LignerAvslag(k)
    BY <2>2, ForbigaaendeVarig DEF SvarFra
  <2>5. Varig(s) /\ Tydelig(k) => Klientkode(Kode(s)) \in Endelige
    BY <2>2, ForbigaaendeVarig, KodeVarig DEF SvarFra, Tydelig
  <2>6. DOMAIN svar' = Kall /\ svar'[k] = Nei /\ \A j \in Kall \ {k} : svar'[j] = svar[j]
    BY <2>1 DEF Typet
  <2>7. /\ steg' \in [Kall -> Steg] /\ kode' \in [Kall -> Koder \cup {Nei}]
        /\ Forklart'
    <3>1. Varig(s) => Begrunnet(k, Kode(s))
      BY <2>2, <2>4, <2>5 DEF Begrunnet
    <3> QED
      BY <2>1, <2>3, <2>6, <3>1, FeiletBevarer
  <2> QED
    BY <2>1, <2>6, <2>7 DEF Typet, SomMeldt
<1>7. ASSUME NEW k \in Kall, Lest(k) PROVE Trygg'
  <2>1. /\ steg[k] = "utfort" /\ Til(k, "ok")
        /\ UNCHANGED <<modus, maal, svar, kode, arkiv, feil>>
    BY <1>7 DEF Lest
  <2> QED
    BY <2>1, TilBevarer DEF Typet, SomMeldt
<1>8. ASSUME NEW k \in Kall, NEW c \in {"sikri_upstream_unavailable", "sikri_response_unparsable"},
             steg[k] \in {"sendt", "utfort"}, Feilet(k, c, FALSE),
             feil < MaksFeil, feil' = feil + 1, UNCHANGED <<modus, maal, svar, arkiv>>
      PROVE  Trygg'
  <2>1. svar[k] = Nei /\ feil' \in 0..MaksFeil
    BY <1>8, ArkivkallAntagelse DEF Forklart, Typet
  <2>2. c \in Koder
    BY DEF Koder, Range, KODER
  <2> QED
    BY <1>8, <2>1, <2>2, FeiletBevarer DEF Typet, SomMeldt
<1>9. ASSUME NEW k \in Kall, Transportfeil(k) PROVE Trygg'
  BY <1>8, <1>9 DEF Transportfeil
<1>10. ASSUME NEW k \in Kall, Parsefeil(k) PROVE Trygg'
  BY <1>8, <1>10 DEF Parsefeil
<1>11. ASSUME NEW k \in Kall, FakeKall(k) PROVE Trygg'
  <2>1. /\ modus # "sikri" /\ steg[k] = "klar" /\ UNCHANGED <<modus, maal, svar, feil>>
    BY <1>11 DEF FakeKall
  <2>2. CASE modus # "ingen" /\ maal \in {"alle", Type[k]}
    <3>1. Feilet(k, SomFeil(modus)[1], SomFeil(modus)[2]) /\ UNCHANGED arkiv
      BY <1>11, <2>2 DEF FakeKall
    <3>2. modus \in Moduser \ {"sikri", "ingen"}
      BY <2>1, <2>2, ArkivkallAntagelse DEF Typet
    <3>3. svar[k] = Nei
      BY <2>1 DEF Forklart
    <3> QED
      BY <2>1, <3>1, <3>2, <3>3, SomFeilKode, FeiletBevarer DEF Typet, SomMeldt, Begrunnet
  <2>3. CASE ~(modus # "ingen" /\ maal \in {"alle", Type[k]})
    <3>1. Skriv(k) /\ Til(k, "ok") /\ UNCHANGED kode
      BY <1>11, <2>3 DEF FakeKall
    <3>2. DOMAIN arkiv' = Kall /\ SomMeldt'
      BY <2>1, <3>1 DEF Skriv, SomMeldt, Typet, Melding, Part
    <3> QED
      BY <2>1, <3>1, <3>2, TilBevarer DEF Typet
  <2> QED
    BY <2>2, <2>3
<1>12. CASE UNCHANGED vars
  BY <1>12 DEF vars, Typet, Forklart, SomMeldt, SvarFra, LignerAvslag, Tydelig, Begrunnet
<1> QED
  BY <1>1, <1>2, <1>3, <1>4, <1>5, <1>6, <1>7, <1>9, <1>10, <1>11, <1>12, <1>13 DEF Next, Fremover

LEMMA TryggHolder == Spec => []Trygg
<1> QED
  BY TryggInit, TryggNeste, PTL DEF Spec

----------------------------------------------------------------------------
(* The theorems                                                            *)

\* Every mode of the fake fails a call as an answer of the archive would.
LEMMA FakenErEkte == modus \in Modi => FakeErEkte
<1> SUFFICES ASSUME modus \in Moduser \ {"sikri", "ingen"}
             PROVE  \E st \in {500, 503}, m \in SUBSET {"identifisering", "bad_gateway",
                                   "ikke_i_ephorte", "restanse", "vedlegg_uten_innhold"} :
                       SomFeil(modus) = <<Kode(Svar(st, m, {})), Varig(Svar(st, m, {}))>>
  BY ArkivkallAntagelse DEF FakeErEkte
<1> DEFINE bruker == Svar(500, {"identifisering", "ikke_i_ephorte"}, {})
           nede == Svar(500, {"identifisering", "bad_gateway"}, {})
<1>1. CASE modus = "irrecoverable"
  <2>1. Treff(bruker) = {2} /\ ERROR_RULES[2].varig
    BY DEF Treff, ERROR_RULES, Regel, Sier, Kropp, Svar
  <2>2. Min(Treff(bruker)) = 2
    BY <2>1, Forste
  <2>3. Varig(bruker)
    BY <2>1, <2>2 DEF Varig
  <2>4. 2 \in Passer(bruker) /\ 1 \notin Passer(bruker)
    BY <2>3, Grense DEF Passer, Sier, Kropp, Svar
  <2>5. Min(Passer(bruker)) = 2
    BY <2>4, ForsteKode
  <2>6. Kode(bruker) = "sikri_unknown_user"
    BY <2>5 DEF Kode, KODER
  <2> HIDE DEF bruker
  <2>7. SomFeil(modus) = <<Kode(bruker), Varig(bruker)>>
    BY <1>1, <2>3, <2>6 DEF SomFeil
  <2> QED
    BY <2>7 DEF bruker
<1>2. CASE modus = "recoverable"
  <2>1. Treff(nede) = {1} /\ ~ERROR_RULES[1].varig
    BY DEF Treff, ERROR_RULES, Regel, Sier, Kropp, Svar
  <2>2. Min(Treff(nede)) = 1
    BY <2>1, Forste
  <2>3. ~Varig(nede)
    BY <2>1, <2>2 DEF Varig, Svar
  <2>4. 1 \in Passer(nede)
    BY Grense DEF Passer, Sier, Kropp, Svar
  <2>5. Min(Passer(nede)) = 1
    BY <2>4, ForsteKode
  <2>6. Kode(nede) = "sikri_upstream_unavailable"
    BY <2>5 DEF Kode, KODER
  <2> HIDE DEF nede
  <2>7. SomFeil(modus) = <<Kode(nede), Varig(nede)>>
    BY <1>2, <2>3, <2>6 DEF SomFeil, Varig
  <2> QED
    BY <2>7 DEF nede
<1>3. CASE modus = "uavskrevne_restanser"
  BY <1>3 DEF SomFeil, RESTANSESVAR
<1>4. CASE modus = "manglende_dokumentinnhold"
  BY <1>4 DEF SomFeil, VEDLEGGSSVAR
<1> QED
  BY <1>1, <1>2, <1>3, <1>4 DEF Moduser

\* SikriFeil::fra_http, map_journalpost, map_dokument, error_code_for and the
\* fake: a call that was sent ends for good on a refusal, or because its own
\* texts are a refusal's; one that our own side cannot make is never sent and
\* keeps its code; the client is told which; the fake's are the archive's.
THEOREM FeilErRiktigHolder == Spec => []FeilErRiktig
<1>1. Trygg => FeilErRiktig
  <2> SUFFICES ASSUME Trygg PROVE FeilErRiktig
    OBVIOUS
  <2>1. TypeOK
    BY DEF Trygg, Typet, Forklart, TypeOK, Steg
  <2>2. TerminalErAvvist /\ TerminalKode
    <3>1. TerminalErAvvist
      BY DEF Trygg, Forklart, SomMeldt, Begrunnet, TerminalErAvvist
    <3>2. TerminalKode
      <4> SUFFICES ASSUME NEW k \in Kall, steg[k] = "feilet", Tydelig(k)
                   PROVE  IF modus = "sikri" /\ DokumentFeil(k) # Nei
                          THEN Klientkode(kode[k]) = "ProcessingFailed"
                          ELSE Klientkode(kode[k]) \in Endelige
        BY DEF TerminalKode, Tydelig, Endelige
      <4>1. Begrunnet(k, kode[k])
        BY DEF Trygg, Forklart
      <4> QED
        BY <4>1, EgenKode DEF Begrunnet
    <3> QED
      BY <3>1, <3>2
  <2>3. FakeErEkte
    BY FakenErEkte DEF Trygg, Typet
  <2> QED
    BY <2>1, <2>2, <2>3 DEF FeilErRiktig
<1> QED
  BY <1>1, TryggHolder, PTL

\* map_journalpost and verifiser_skjerming (SKU-0015 R10): what is stored of a
\* withheld case or journalpost is withheld, every correspondent with it.
THEOREM SkjermingBevaresHolder == Spec => []SkjermingBevares
<1>1. Trygg => SkjermingBevares
  BY DEF Trygg, SomMeldt, SkjermingBevares, Melding, Part
<1> QED
  BY <1>1, TryggHolder, PTL
=============================================================================
