---------------------------- MODULE MottakBevis -----------------------------
(***************************************************************************)
(* From request to operations, for every set of requests, commands and     *)
(* handlers and every bound: no dispatched command is lost, an "ok" is     *)
(* true, a discard is final, and decomposition finds its entities.         *)
(*                                                                         *)
(* None of them is inductive.  IngenTapes speaks of streams and of rows;   *)
(* what carries it is what each handler knows between two of its steps     *)
(* (Paa, ValKjent, DekKjent): a handler acknowledges a message only when   *)
(* the command is on the next stream or decided, and that does not change  *)
(* again whatever else is delivered, repeated or dropped.                  *)
(***************************************************************************)
EXTENDS Mottak, FiniteSetTheorems, TLAPS

----------------------------------------------------------------------------
(* Types *)

\* There are at most MaksKopier messages of a command, so they can be counted.
LEMMA AntallNat ==
    ASSUME NEW S \in SUBSET Meldinger, NEW c \in Kommandoer
    PROVE  Antall(S, c) \in Nat
<1> DEFINE T == {m \in S : m[1] = c}
<1>1. IsFiniteSet(1..MaksKopier)
  BY FS_Interval, MottakAntagelse
<1>2. IsFiniteSet({c} \X (1..MaksKopier))
  BY <1>1, FS_Product, FS_Singleton
<1>3. T \subseteq {c} \X (1..MaksKopier)
  BY DEF Meldinger
<1>4. IsFiniteSet(T)
  BY <1>2, <1>3, FS_Subset
<1> QED
  BY <1>4, FS_CardinalityType DEF Antall

LEMMA InnholdType ==
    ASSUME NEW r \in Foresporsler
    PROVE  /\ Len(Innhold[r]) \in Nat \ {0}
           /\ \A i \in 1..Len(Innhold[r]) : Innhold[r][i] \in Kommandoer
BY MottakAntagelse

LEMMA NaaType ==
    ASSUME TypeOK, NEW r \in Foresporsler
    PROVE  Naa(r) \in Kommandoer
BY InnholdType DEF TypeOK, Naa

LEMMA TypeInit == Init => TypeOK
<1> SUFFICES ASSUME Init PROVE TypeOK
  OBVIOUS
<1>1. \A r \in Foresporsler : 1 \in 1..Len(Innhold[r])
  BY InnholdType
<1> QED
  BY <1>1, MottakAntagelse
     DEF Init, TypeOK, Entitetstyper, IngestSteg, ValSteg, DekSteg, LedigVal, LedigDek,
         Saksnokler, Hendelser

LEMMA BesvarType ==
    ASSUME TypeOK, NEW r \in Foresporsler, NEW s \in IngestSteg,
           NEW n \in 1..Len(Innhold[r]), NEW svar \in {"ingen", "ok", "feil"},
           Besvar(r, s, n, svar)
    PROVE  /\ klient' \in [Foresporsler -> [sendt : 0..MaksSendt, steg : IngestSteg,
                                            nr : Nat, svar : {"ingen", "ok", "feil"}]]
           /\ \A q \in Foresporsler : klient'[q].nr \in 1..Len(Innhold[q])
BY InnholdType DEF TypeOK, Besvar

LEMMA IngestType ==
    ASSUME TypeOK, NEW r \in Foresporsler, NEW s \in IngestSteg, Ingest(r, s)
    PROVE  /\ klient' \in [Foresporsler -> [sendt : 0..MaksSendt, steg : IngestSteg,
                                            nr : Nat, svar : {"ingen", "ok", "feil"}]]
           /\ \A q \in Foresporsler : klient'[q].nr \in 1..Len(Innhold[q])
<1>1. klient[r].nr \in 1..Len(Innhold[r]) /\ klient[r].svar \in {"ingen", "ok", "feil"}
  BY DEF TypeOK
<1> QED
  BY <1>1, BesvarType DEF Ingest

LEMMA NesteType ==
    ASSUME TypeOK, NEW r \in Foresporsler, Neste(r)
    PROVE  /\ klient' \in [Foresporsler -> [sendt : 0..MaksSendt, steg : IngestSteg,
                                            nr : Nat, svar : {"ingen", "ok", "feil"}]]
           /\ \A q \in Foresporsler : klient'[q].nr \in 1..Len(Innhold[q])
<1>1. /\ klient[r].nr \in 1..Len(Innhold[r]) /\ klient[r].svar \in {"ingen", "ok", "feil"}
      /\ Len(Innhold[r]) \in Nat
  BY InnholdType DEF TypeOK
<1>2. "registrer" \in IngestSteg /\ "venter" \in IngestSteg
  BY DEF IngestSteg
<1>3. CASE klient[r].nr < Len(Innhold[r])
  <2>1. klient[r].nr + 1 \in 1..Len(Innhold[r])
    BY <1>1, <1>3
  <2> QED
    BY <1>1, <1>2, <1>3, <2>1, BesvarType DEF Neste
<1>4. CASE ~(klient[r].nr < Len(Innhold[r]))
  BY <1>1, <1>2, <1>4, BesvarType DEF Neste
<1> QED
  BY <1>3, <1>4

LEMMA TilInnboksType ==
    ASSUME TypeOK, NEW c \in Kommandoer, TilInnboks(c)
    PROVE  /\ innboks' \subseteq Meldinger /\ innboksKvittert' \subseteq innboks'
           /\ innboksVindu' \subseteq Kommandoer /\ innboks \subseteq innboks'
<1>1. Antall(innboks, c) \in Nat
  BY AntallNat DEF TypeOK
<1> QED
  BY <1>1, MottakAntagelse DEF TypeOK, TilInnboks, Meldinger

LEMMA TilKlarType ==
    ASSUME TypeOK, NEW c \in Kommandoer, NEW u \in BOOLEAN, TilKlar(c, u)
    PROVE  /\ klar' \subseteq Meldinger /\ klarKvittert' \subseteq klar'
           /\ klarVindu' \subseteq Kommandoer /\ klar \subseteq klar'
<1>1. Antall(klar, c) \in Nat
  BY AntallNat DEF TypeOK
<1> QED
  BY <1>1, MottakAntagelse DEF TypeOK, TilKlar, Meldinger

LEMMA RegistrertType ==
    ASSUME TypeOK, NEW x \in Referanser, NEW c \in Kommandoer, NEW N,
           N = Minter(Payload[c])
               \cup IF Payload[c].nummer THEN {<<Payload[c].sak, "sak">>} ELSE {}
    PROVE  Registrert(x, N) \in Entitetstyper
<1>1. \A e \in N : e[2] \in Entitetstyper
  BY DEF Minter, Entitetstyper
<1> QED
  BY <1>1 DEF Registrert, TypeOK

LEMMA TypeIngest ==
    ASSUME TypeOK, NEW r \in Foresporsler, Send(r) \/ IngestGaar(r) \/ IngestFeiler(r)
    PROVE  TypeOK'
<1> USE DEF dbVars, arkivVars, innboksVars, klarVars
<1>0. Naa(r) \in Kommandoer
  BY NaaType
<1>1. CASE Send(r)
  <2>1. klient[r].sendt \in 0..MaksSendt /\ MaksSendt \in Nat /\ 1 \in 1..Len(Innhold[r])
    BY InnholdType, MottakAntagelse DEF TypeOK
  <2>2. "registrer" \in IngestSteg
    BY DEF IngestSteg
  <2>3. /\ klient' \in [Foresporsler -> [sendt : 0..MaksSendt, steg : IngestSteg,
                                         nr : Nat, svar : {"ingen", "ok", "feil"}]]
        /\ \A q \in Foresporsler : klient'[q].nr \in 1..Len(Innhold[q])
    BY <1>1, <2>1, <2>2 DEF TypeOK, Send
  <2> QED
    BY <1>1, <2>3 DEF TypeOK, Send
<1>2. CASE Registrer(r)
  <2>1. /\ klient' \in [Foresporsler -> [sendt : 0..MaksSendt, steg : IngestSteg,
                                         nr : Nat, svar : {"ingen", "ok", "feil"}]]
        /\ \A q \in Foresporsler : klient'[q].nr \in 1..Len(Innhold[q])
    BY <1>2, NesteType, IngestType DEF Registrer, IngestSteg
  <2> QED
    BY <1>0, <1>2, <2>1 DEF TypeOK, Registrer
<1>3. CASE RegistrerEntiteter(r)
  <2>1. /\ klient' \in [Foresporsler -> [sendt : 0..MaksSendt, steg : IngestSteg,
                                         nr : Nat, svar : {"ingen", "ok", "feil"}]]
        /\ \A q \in Foresporsler : klient'[q].nr \in 1..Len(Innhold[q])
    BY <1>3, IngestType DEF RegistrerEntiteter, IngestSteg
  <2>2. entitet' \in [Referanser -> Entitetstyper]
    BY <1>0, <1>3, RegistrertType DEF RegistrerEntiteter
  <2> QED
    BY <1>3, <2>1, <2>2 DEF TypeOK, RegistrerEntiteter
<1>4. CASE KnyttSak(r)
  <2>1. /\ klient' \in [Foresporsler -> [sendt : 0..MaksSendt, steg : IngestSteg,
                                         nr : Nat, svar : {"ingen", "ok", "feil"}]]
        /\ \A q \in Foresporsler : klient'[q].nr \in 1..Len(Innhold[q])
    BY <1>4, IngestType DEF KnyttSak, IngestSteg
  <2> QED
    BY <1>0, <1>4, <2>1 DEF TypeOK, KnyttSak
<1>5. CASE Dispatch(r)
  <2>1. /\ klient' \in [Foresporsler -> [sendt : 0..MaksSendt, steg : IngestSteg,
                                         nr : Nat, svar : {"ingen", "ok", "feil"}]]
        /\ \A q \in Foresporsler : klient'[q].nr \in 1..Len(Innhold[q])
    BY <1>5, IngestType DEF Dispatch, IngestSteg
  <2>2. /\ innboks' \subseteq Meldinger /\ innboksKvittert' \subseteq innboks'
        /\ innboksVindu' \subseteq Kommandoer
    BY <1>0, <1>5, TilInnboksType DEF Dispatch
  <2> QED
    BY <1>5, <2>1, <2>2 DEF TypeOK, Dispatch
<1>6. CASE MarkerDispatchet(r)
  <2>1. /\ klient' \in [Foresporsler -> [sendt : 0..MaksSendt, steg : IngestSteg,
                                         nr : Nat, svar : {"ingen", "ok", "feil"}]]
        /\ \A q \in Foresporsler : klient'[q].nr \in 1..Len(Innhold[q])
    BY <1>6, IngestType DEF MarkerDispatchet, IngestSteg
  <2> QED
    BY <1>0, <1>6, <2>1 DEF TypeOK, MarkerDispatchet
<1>7. CASE PubliserMottatt(r)
  <2>1. /\ klient' \in [Foresporsler -> [sendt : 0..MaksSendt, steg : IngestSteg,
                                         nr : Nat, svar : {"ingen", "ok", "feil"}]]
        /\ \A q \in Foresporsler : klient'[q].nr \in 1..Len(Innhold[q])
    BY <1>7, NesteType DEF PubliserMottatt
  <2> QED
    BY <1>0, <1>7, <2>1 DEF TypeOK, PubliserMottatt, Fortell, Hendelser
<1>8. CASE IngestFeiler(r)
  <2>1. /\ klient' \in [Foresporsler -> [sendt : 0..MaksSendt, steg : IngestSteg,
                                         nr : Nat, svar : {"ingen", "ok", "feil"}]]
        /\ \A q \in Foresporsler : klient'[q].nr \in 1..Len(Innhold[q])
    BY <1>8, BesvarType DEF TypeOK, IngestFeiler, IngestSteg
  <2> QED
    BY <1>8, <2>1, MottakAntagelse DEF TypeOK, IngestFeiler, KanFeile
<1> QED
  BY <1>1, <1>2, <1>3, <1>4, <1>5, <1>6, <1>7, <1>8 DEF IngestGaar

\* What every handler of a command is in the middle of.
ValKmd == \A v \in Handterere : validator[v].steg # "ledig" =>
             /\ validator[v].kmd \in Kommandoer
             /\ v \in Validatorer => /\ validator[v].melding \in innboks
                                     /\ validator[v].melding[1] = validator[v].kmd
             /\ validator[v].steg = "kvitter" => v \in Validatorer
DekKmd == \A d \in Dekomponerere : dekomponerer[d].steg # "ledig" =>
             /\ dekomponerer[d].kmd \in Kommandoer
             /\ dekomponerer[d].melding \in klar
             /\ dekomponerer[d].melding[1] = dekomponerer[d].kmd
Typet == TypeOK /\ ValKmd /\ DekKmd

LEMMA ViderefortType ==
    ASSUME Typet, NEW v \in Handterere, NEW s \in ValSteg, NEW u \in {"ingen", "ok", "avvist"},
           Viderefor(v, s, u)
    PROVE  validator' \in [Handterere -> [steg : ValSteg,
                        kmd : Kommandoer \cup {Ingen},
                        melding : Meldinger \cup {Ingen},
                        utfall : {"ingen", "ok", "avvist"}]]
BY DEF Typet, TypeOK, Viderefor

LEMMA GaarTilType ==
    ASSUME Typet, NEW d \in Dekomponerere, NEW s \in DekSteg, GaarTil(d, s)
    PROVE  dekomponerer' \in [Dekomponerere -> [steg : DekSteg,
                        kmd : Kommandoer \cup {Ingen},
                        melding : Meldinger \cup {Ingen}]]
BY DEF Typet, TypeOK, GaarTil

LEMMA LedigType ==
    /\ LedigVal \in [steg : ValSteg, kmd : Kommandoer \cup {Ingen},
                     melding : Meldinger \cup {Ingen}, utfall : {"ingen", "ok", "avvist"}]
    /\ LedigDek \in [steg : DekSteg, kmd : Kommandoer \cup {Ingen},
                     melding : Meldinger \cup {Ingen}]
BY DEF LedigVal, LedigDek, ValSteg, DekSteg

LEMMA TypeValidering ==
    ASSUME Typet, NEW v \in Handterere,
           \/ v \in Validatorer /\ \E m \in innboks : HentInnboks(v, m)
           \/ v \in Operatorer /\ \E c \in Kommandoer : Revalider(v, c)
           \/ ValideringGaar(v) \/ ValideringFeiler(v)
    PROVE  TypeOK'
<1> USE DEF dbVars, arkivVars, innboksVars, klarVars
<1>1. CASE \E m \in innboks : HentInnboks(v, m)
  <2> PICK m \in innboks : HentInnboks(v, m)
    BY <1>1
  <2>1. m \in Meldinger /\ m[1] \in Kommandoer
    BY DEF Typet, TypeOK, Meldinger
  <2> QED
    BY <2>1 DEF Typet, TypeOK, HentInnboks, ValSteg
<1>2. CASE \E c \in Kommandoer : Revalider(v, c)
  BY <1>2 DEF Typet, TypeOK, Revalider, ValSteg
<1>3. CASE Valider(v)
  <2>1. validator' \in [Handterere -> [steg : ValSteg,
                        kmd : Kommandoer \cup {Ingen},
                        melding : Meldinger \cup {Ingen},
                        utfall : {"ingen", "ok", "avvist"}]]
    BY <1>3, ViderefortType DEF Valider, ValSteg
  <2> QED
    BY <1>3, <2>1 DEF Typet, TypeOK, Valider
<1>4. CASE SendKlar(v)
  <2>1. validator' \in [Handterere -> [steg : ValSteg,
                        kmd : Kommandoer \cup {Ingen},
                        melding : Meldinger \cup {Ingen},
                        utfall : {"ingen", "ok", "avvist"}]]
    <3>1. validator[v].utfall \in {"ingen", "ok", "avvist"} /\ "publiser" \in ValSteg
      BY DEF Typet, TypeOK, ValSteg
    <3> QED
      BY <1>4, <3>1, ViderefortType DEF SendKlar
  <2>2. validator[v].kmd \in Kommandoer /\ (v \in Operatorer) \in BOOLEAN
    BY <1>4 DEF Typet, ValKmd, SendKlar
  <2>3. /\ klar' \subseteq Meldinger /\ klarKvittert' \subseteq klar'
        /\ klarVindu' \subseteq Kommandoer
    BY <1>4, <2>2, TilKlarType DEF Typet, SendKlar
  <2> QED
    BY <1>4, <2>1, <2>3 DEF Typet, TypeOK, SendKlar
<1>5. CASE PubliserValidering(v)
  <2>1. validator' \in [Handterere -> [steg : ValSteg,
                        kmd : Kommandoer \cup {Ingen},
                        melding : Meldinger \cup {Ingen},
                        utfall : {"ingen", "ok", "avvist"}]]
    <3>1. validator[v].utfall \in {"ingen", "ok", "avvist"} /\ "kvitter" \in ValSteg
      BY DEF Typet, TypeOK, ValSteg
    <3>2. CASE v \in Operatorer
      BY <1>5, <3>2, LedigType DEF Typet, TypeOK, PubliserValidering
    <3>3. CASE v \notin Operatorer
      BY <1>5, <3>1, <3>3, ViderefortType DEF PubliserValidering
    <3> QED
      BY <3>2, <3>3
  <2>2. validator[v].kmd \in Kommandoer
    BY <1>5 DEF Typet, ValKmd, PubliserValidering
  <2>3. strom' \in [Kommandoer -> SUBSET Hendelser]
    BY <1>5, <2>2 DEF Typet, TypeOK, PubliserValidering, Fortell, Hendelser
  <2> QED
    BY <1>5, <2>1, <2>3 DEF Typet, TypeOK, PubliserValidering
<1>6. CASE KvitterInnboks(v)
  <2>0. validator[v].melding \in innboks
    BY <1>6 DEF Typet, ValKmd, KvitterInnboks
  <2> QED
    BY <1>6, <2>0, LedigType DEF Typet, TypeOK, KvitterInnboks
<1>7. CASE ValideringFeiler(v)
  BY <1>7, LedigType, MottakAntagelse DEF Typet, TypeOK, ValideringFeiler, KanFeile
<1> QED
  BY <1>1, <1>2, <1>3, <1>4, <1>5, <1>6, <1>7 DEF ValideringGaar

LEMMA TypeDekomponering ==
    ASSUME Typet, NEW d \in Dekomponerere,
           \/ \E m \in klar : HentKlar(d, m)
           \/ DekomponeringGaar(d) \/ DekomponeringFeiler(d)
    PROVE  TypeOK'
<1> USE DEF dbVars, arkivVars, innboksVars, klarVars
<1>0. dekomponerer[d].steg # "ledig" =>
         dekomponerer[d].kmd \in Kommandoer /\ dekomponerer[d].melding \in klar
  BY DEF Typet, DekKmd
<1>1. CASE \E m \in klar : HentKlar(d, m)
  <2> PICK m \in klar : HentKlar(d, m)
    BY <1>1
  <2>1. m \in Meldinger /\ m[1] \in Kommandoer
    BY DEF Typet, TypeOK, Meldinger
  <2> QED
    BY <2>1 DEF Typet, TypeOK, HentKlar, DekSteg
<1>2. CASE Plan(d)
  <2>1. dekomponerer' \in [Dekomponerere -> [steg : DekSteg,
                        kmd : Kommandoer \cup {Ingen}, melding : Meldinger \cup {Ingen}]]
    BY <1>2, GaarTilType DEF Plan, DekSteg
  <2>2. entitet' \in [Referanser -> Entitetstyper]
    BY <1>2 DEF Typet, TypeOK, Plan, Entitetstyper
  <2> QED
    BY <1>2, <2>1, <2>2 DEF Typet, TypeOK, Plan
<1>3. CASE Lagre(d)
  <2>1. dekomponerer' \in [Dekomponerere -> [steg : DekSteg,
                        kmd : Kommandoer \cup {Ingen}, melding : Meldinger \cup {Ingen}]]
    BY <1>3, GaarTilType DEF Lagre, DekSteg
  <2> QED
    BY <1>0, <1>3, <2>1 DEF Typet, TypeOK, Lagre
<1>4. CASE PubliserDekomponering(d)
  <2>1. dekomponerer' \in [Dekomponerere -> [steg : DekSteg,
                        kmd : Kommandoer \cup {Ingen}, melding : Meldinger \cup {Ingen}]]
    BY <1>4, GaarTilType DEF PubliserDekomponering, DekSteg
  <2>2. strom' \in [Kommandoer -> SUBSET Hendelser]
    BY <1>0, <1>4 DEF Typet, TypeOK, PubliserDekomponering, Fortell, Hendelser
  <2> QED
    BY <1>4, <2>1, <2>2 DEF Typet, TypeOK, PubliserDekomponering
<1>5. CASE KvitterKlar(d)
  BY <1>0, <1>5, LedigType DEF Typet, TypeOK, KvitterKlar
<1>6. CASE DekomponeringFeiler(d)
  BY <1>6, LedigType, MottakAntagelse DEF Typet, TypeOK, DekomponeringFeiler, KanFeile
<1> QED
  BY <1>1, <1>2, <1>3, <1>4, <1>5, <1>6 DEF DekomponeringGaar

LEMMA TypeResten ==
    ASSUME TypeOK, NEW c \in Kommandoer, VinduUtlop(c) \/ Forkast(c) \/ Fullfor(c)
    PROVE  TypeOK'
<1> USE DEF dbVars, arkivVars, innboksVars, klarVars
<1>1. CASE VinduUtlop(c)
  BY <1>1, MottakAntagelse DEF TypeOK, VinduUtlop, KanFeile
<1>2. CASE Forkast(c)
  BY <1>2 DEF TypeOK, Forkast
<1>3. CASE Fullfor(c)
  <2>1. strom' \in [Kommandoer -> SUBSET Hendelser]
    BY <1>3 DEF TypeOK, Fullfor, Fortell, Hendelser
  <2> QED
    BY <1>3, <2>1 DEF TypeOK, Fullfor, Saksnokler
<1> QED
  BY <1>1, <1>2, <1>3

\* A handler takes a message and its command, keeps them to the end of its
\* work, and messages are never removed from a stream.
LEMMA StrommerVokser ==
    ASSUME Typet, [Next]_vars
    PROVE  innboks \subseteq innboks' /\ klar \subseteq klar'
<1>1. ASSUME NEW r \in Foresporsler, Send(r) \/ IngestGaar(r) \/ IngestFeiler(r)
      PROVE  innboks \subseteq innboks' /\ klar \subseteq klar'
  BY <1>1 DEF innboksVars, klarVars, IngestGaar, Send, Registrer, RegistrerEntiteter,
     KnyttSak, Dispatch, TilInnboks, MarkerDispatchet, PubliserMottatt, IngestFeiler
<1>2. ASSUME NEW v, ValideringGaar(v) \/ ValideringFeiler(v)
      PROVE  innboks \subseteq innboks' /\ klar \subseteq klar'
  BY <1>2 DEF innboksVars, klarVars, ValideringGaar, Valider, SendKlar, TilKlar,
     PubliserValidering, KvitterInnboks, ValideringFeiler
<1>3. ASSUME NEW d, DekomponeringGaar(d) \/ DekomponeringFeiler(d)
      PROVE  innboks \subseteq innboks' /\ klar \subseteq klar'
  BY <1>3 DEF innboksVars, klarVars, DekomponeringGaar, Plan, Lagre,
     PubliserDekomponering, KvitterKlar, DekomponeringFeiler
<1> QED
  BY <1>1, <1>2, <1>3
     DEF Next, vars, innboksVars, klarVars, HentInnboks, Revalider, HentKlar,
         VinduUtlop, Forkast, Fullfor

LEMMA ValKmdSteg ==
    ASSUME Typet, TypeOK', [Next]_vars
    PROVE  ValKmd'
<1>0. innboks \subseteq innboks'
  BY StrommerVokser
<1>1. CASE UNCHANGED validator
  BY <1>0, <1>1 DEF Typet, ValKmd
<1>2. ASSUME NEW v \in Handterere,
             validator' = [validator EXCEPT ![v] = LedigVal]
      PROVE  ValKmd'
  BY <1>0, <1>2 DEF Typet, TypeOK, ValKmd, LedigVal
<1>3. ASSUME NEW v \in Handterere, NEW s, NEW u, Viderefor(v, s, u),
             validator[v].steg # "ledig", s = "kvitter" => v \notin Operatorer
      PROVE  ValKmd'
  BY <1>0, <1>3 DEF Typet, TypeOK, ValKmd, Viderefor, Handterere
<1>4. ASSUME NEW v \in Validatorer, NEW m \in innboks, HentInnboks(v, m)
      PROVE  ValKmd'
  <2>1. m[1] \in Kommandoer
    BY DEF Typet, TypeOK, Meldinger
  <2> QED
    BY <1>0, <1>4, <2>1 DEF Typet, TypeOK, ValKmd, HentInnboks
<1>5. ASSUME NEW v \in Operatorer, NEW c \in Kommandoer, Revalider(v, c)
      PROVE  ValKmd'
  BY <1>0, <1>5, MottakAntagelse DEF Typet, TypeOK, ValKmd, Revalider
<1>6. ASSUME NEW v \in Handterere, ValideringGaar(v) \/ ValideringFeiler(v)
      PROVE  ValKmd'
  BY <1>6, <1>2, <1>3 DEF ValideringGaar, Valider, SendKlar, PubliserValidering,
     KvitterInnboks, ValideringFeiler
<1>7. ASSUME NEW r \in Foresporsler, Send(r) \/ IngestGaar(r) \/ IngestFeiler(r)
      PROVE  UNCHANGED validator
  BY <1>7 DEF IngestGaar, Send, Registrer, RegistrerEntiteter, KnyttSak, Dispatch,
     MarkerDispatchet, PubliserMottatt, IngestFeiler
<1>8. ASSUME NEW d \in Dekomponerere,
             \/ \E m \in klar : HentKlar(d, m)
             \/ DekomponeringGaar(d) \/ DekomponeringFeiler(d)
      PROVE  UNCHANGED validator
  BY <1>8 DEF HentKlar, DekomponeringGaar, Plan, Lagre, PubliserDekomponering,
     KvitterKlar, DekomponeringFeiler
<1>9. ASSUME NEW c \in Kommandoer, VinduUtlop(c) \/ Forkast(c) \/ Fullfor(c)
      PROVE  UNCHANGED validator
  BY <1>9 DEF VinduUtlop, Forkast, Fullfor
<1> QED
  BY <1>1, <1>4, <1>5, <1>6, <1>7, <1>8, <1>9 DEF Next, vars

LEMMA DekKmdSteg ==
    ASSUME Typet, TypeOK', [Next]_vars
    PROVE  DekKmd'
<1>0. klar \subseteq klar'
  BY StrommerVokser
<1>1. CASE UNCHANGED dekomponerer
  BY <1>0, <1>1 DEF Typet, DekKmd
<1>2. ASSUME NEW d \in Dekomponerere,
             dekomponerer' = [dekomponerer EXCEPT ![d] = LedigDek]
      PROVE  DekKmd'
  BY <1>0, <1>2 DEF Typet, TypeOK, DekKmd, LedigDek
<1>3. ASSUME NEW d \in Dekomponerere, NEW s, GaarTil(d, s), dekomponerer[d].steg # "ledig"
      PROVE  DekKmd'
  BY <1>0, <1>3 DEF Typet, TypeOK, DekKmd, GaarTil
<1>4. ASSUME NEW d \in Dekomponerere, NEW m \in klar, HentKlar(d, m)
      PROVE  DekKmd'
  <2>1. m[1] \in Kommandoer
    BY DEF Typet, TypeOK, Meldinger
  <2> QED
    BY <1>0, <1>4, <2>1 DEF Typet, TypeOK, DekKmd, HentKlar
<1>5. ASSUME NEW d \in Dekomponerere, DekomponeringGaar(d) \/ DekomponeringFeiler(d)
      PROVE  DekKmd'
  BY <1>5, <1>2, <1>3 DEF DekomponeringGaar, Plan, Lagre, PubliserDekomponering,
     KvitterKlar, DekomponeringFeiler
<1>6. ASSUME NEW r \in Foresporsler, Send(r) \/ IngestGaar(r) \/ IngestFeiler(r)
      PROVE  UNCHANGED dekomponerer
  BY <1>6 DEF IngestGaar, Send, Registrer, RegistrerEntiteter, KnyttSak, Dispatch,
     MarkerDispatchet, PubliserMottatt, IngestFeiler
<1>7. ASSUME NEW v, \/ \E m \in innboks : HentInnboks(v, m)
                    \/ \E c \in Kommandoer : Revalider(v, c)
                    \/ ValideringGaar(v) \/ ValideringFeiler(v)
      PROVE  UNCHANGED dekomponerer
  BY <1>7 DEF HentInnboks, Revalider, ValideringGaar, Valider, SendKlar,
     PubliserValidering, KvitterInnboks, ValideringFeiler
<1>8. ASSUME NEW c \in Kommandoer, VinduUtlop(c) \/ Forkast(c) \/ Fullfor(c)
      PROVE  UNCHANGED dekomponerer
  BY <1>8 DEF VinduUtlop, Forkast, Fullfor
<1> QED
  BY <1>1, <1>4, <1>5, <1>6, <1>7, <1>8 DEF Next, vars

LEMMA TypetInit == Init => Typet
BY TypeInit DEF Init, Typet, ValKmd, DekKmd, LedigVal, LedigDek

LEMMA TypetSteg == Typet /\ [Next]_vars => Typet'
<1> SUFFICES ASSUME Typet, [Next]_vars
             PROVE  TypeOK'
  BY ValKmdSteg, DekKmdSteg DEF Typet
<1>1. CASE UNCHANGED vars
  BY <1>1 DEF vars, dbVars, arkivVars, innboksVars, klarVars, Typet, TypeOK
<1>2. CASE \E v \in Handterere :
              \/ v \in Validatorer /\ \E m \in innboks : HentInnboks(v, m)
              \/ v \in Operatorer /\ \E c \in Kommandoer : Revalider(v, c)
              \/ ValideringGaar(v) \/ ValideringFeiler(v)
  BY <1>2, TypeValidering
<1> QED
  BY <1>1, <1>2, TypeIngest, TypeDekomponering, TypeResten DEF Next, Typet, Handterere

\* Every variable keeps its type, and there are never more than MaksKopier
\* messages of a command in a stream.
THEOREM MottakTyper == Spec => []TypeOK
BY TypetInit, TypetSteg, PTL DEF Spec, Typet

----------------------------------------------------------------------------
(* What a step may do to the rows and the streams *)

Paa(S, c) == \E m \in S : m[1] = c

\* What is decided stays decided, and a row that says dispatched keeps saying so.
LEMMA Varig ==
    ASSUME Typet, [Next]_vars
    PROVE  /\ dekomponert \subseteq dekomponert' /\ forkastet \subseteq forkastet'
           /\ \A c \in Kommandoer : strom[c] \subseteq strom'[c]
           /\ \A c \in Kommandoer : rad[c] = "dispatchet" => rad'[c] = "dispatchet"
<1> DEFINE V == /\ dekomponert \subseteq dekomponert' /\ forkastet \subseteq forkastet'
                /\ \A c \in Kommandoer : strom[c] \subseteq strom'[c]
                /\ \A c \in Kommandoer : rad[c] = "dispatchet" => rad'[c] = "dispatchet"
<1> USE DEF dbVars
<1>0. TypeOK
  BY DEF Typet
<1>1. ASSUME NEW r \in Foresporsler, Send(r) \/ IngestGaar(r) \/ IngestFeiler(r)
      PROVE  V
  BY <1>0, <1>1 DEF TypeOK, IngestGaar, Send, Registrer, RegistrerEntiteter, KnyttSak,
     Dispatch, MarkerDispatchet, PubliserMottatt, Fortell, IngestFeiler
<1>2. ASSUME NEW v, \/ \E m \in innboks : HentInnboks(v, m)
                    \/ \E c \in Kommandoer : Revalider(v, c)
                    \/ ValideringGaar(v) \/ ValideringFeiler(v)
      PROVE  V
  <2>1. CASE PubliserValidering(v)
    BY <1>0, <2>1 DEF TypeOK, PubliserValidering, Fortell
  <2>2. CASE ~PubliserValidering(v)
    BY <1>2, <2>2 DEF HentInnboks, Revalider, ValideringGaar, Valider, SendKlar,
       KvitterInnboks, ValideringFeiler
  <2> QED
    BY <2>1, <2>2
<1>3. ASSUME NEW d, \/ \E m \in klar : HentKlar(d, m)
                    \/ DekomponeringGaar(d) \/ DekomponeringFeiler(d)
      PROVE  V
  <2>1. CASE PubliserDekomponering(d)
    BY <1>0, <2>1 DEF TypeOK, PubliserDekomponering, Fortell
  <2>2. CASE ~PubliserDekomponering(d)
    BY <1>3, <2>2 DEF HentKlar, DekomponeringGaar, Plan, Lagre, KvitterKlar,
       DekomponeringFeiler
  <2> QED
    BY <2>1, <2>2
<1>4. ASSUME NEW c \in Kommandoer, VinduUtlop(c) \/ Forkast(c) \/ Fullfor(c)
      PROVE  V
  <2>1. CASE Fullfor(c)
    BY <1>0, <2>1 DEF TypeOK, Fullfor, Fortell
  <2>2. CASE VinduUtlop(c) \/ Forkast(c)
    BY <1>0, <2>2 DEF TypeOK, VinduUtlop, Forkast
  <2> QED
    BY <1>4, <2>1, <2>2
<1> QED
  BY <1>1, <1>2, <1>3, <1>4 DEF Next, vars

LEMMA AvgjortVarig ==
    ASSUME Typet, [Next]_vars, NEW c \in Kommandoer, Avgjort(c)
    PROVE  Avgjort(c)'
BY Varig DEF Avgjort

\* The inbox is written by ingest, acknowledged by a listener, and forgets ids.
LEMMA InnboksEndring ==
    ASSUME Typet, [Next]_vars
    PROVE  \/ UNCHANGED <<innboks, innboksKvittert>> /\ innboksVindu' \subseteq innboksVindu
           \/ \E c \in Kommandoer : TilInnboks(c)
           \/ \E v \in Handterere : KvitterInnboks(v)
<1> USE DEF innboksVars
<1>1. ASSUME NEW r \in Foresporsler, Send(r) \/ IngestGaar(r) \/ IngestFeiler(r)
      PROVE  UNCHANGED innboksVars \/ \E c \in Kommandoer : TilInnboks(c)
  BY <1>1, NaaType DEF Typet, IngestGaar, Send, Registrer, RegistrerEntiteter, KnyttSak,
     Dispatch, MarkerDispatchet, PubliserMottatt, IngestFeiler
<1>2. ASSUME NEW v, \/ \E m \in innboks : HentInnboks(v, m)
                    \/ \E c \in Kommandoer : Revalider(v, c)
                    \/ ValideringGaar(v) \/ ValideringFeiler(v)
      PROVE  UNCHANGED innboksVars \/ KvitterInnboks(v)
  BY <1>2 DEF HentInnboks, Revalider, ValideringGaar, Valider, SendKlar,
     PubliserValidering, ValideringFeiler
<1>3. ASSUME NEW d, \/ \E m \in klar : HentKlar(d, m)
                    \/ DekomponeringGaar(d) \/ DekomponeringFeiler(d)
      PROVE  UNCHANGED innboksVars
  BY <1>3 DEF HentKlar, DekomponeringGaar, Plan, Lagre, PubliserDekomponering,
     KvitterKlar, DekomponeringFeiler
<1>4. ASSUME NEW c \in Kommandoer, VinduUtlop(c) \/ Forkast(c) \/ Fullfor(c)
      PROVE  UNCHANGED <<innboks, innboksKvittert>> /\ innboksVindu' \subseteq innboksVindu
  BY <1>4 DEF VinduUtlop, Forkast, Fullfor
<1> QED
  BY <1>1, <1>2, <1>3, <1>4 DEF Next, vars, Handterere

\* And so with the ready stream, which validation writes.
LEMMA KlarEndring ==
    ASSUME Typet, [Next]_vars
    PROVE  \/ UNCHANGED <<klar, klarKvittert>> /\ klarVindu' \subseteq klarVindu
           \/ \E v \in Handterere : SendKlar(v)
           \/ \E d \in Dekomponerere : KvitterKlar(d)
<1> USE DEF klarVars
<1>1. ASSUME NEW r \in Foresporsler, Send(r) \/ IngestGaar(r) \/ IngestFeiler(r)
      PROVE  UNCHANGED klarVars
  BY <1>1 DEF IngestGaar, Send, Registrer, RegistrerEntiteter, KnyttSak,
     Dispatch, MarkerDispatchet, PubliserMottatt, IngestFeiler
<1>2. ASSUME NEW v, \/ \E m \in innboks : HentInnboks(v, m)
                    \/ \E c \in Kommandoer : Revalider(v, c)
                    \/ ValideringGaar(v) \/ ValideringFeiler(v)
      PROVE  UNCHANGED klarVars \/ SendKlar(v)
  BY <1>2 DEF HentInnboks, Revalider, ValideringGaar, Valider, KvitterInnboks,
     PubliserValidering, ValideringFeiler
<1>3. ASSUME NEW d, \/ \E m \in klar : HentKlar(d, m)
                    \/ DekomponeringGaar(d) \/ DekomponeringFeiler(d)
      PROVE  UNCHANGED klarVars \/ KvitterKlar(d)
  BY <1>3 DEF HentKlar, DekomponeringGaar, Plan, Lagre, PubliserDekomponering,
     DekomponeringFeiler
<1>4. ASSUME NEW c \in Kommandoer, VinduUtlop(c) \/ Forkast(c) \/ Fullfor(c)
      PROVE  UNCHANGED <<klar, klarKvittert>> /\ klarVindu' \subseteq klarVindu
  BY <1>4 DEF VinduUtlop, Forkast, Fullfor
<1> QED
  BY <1>1, <1>2, <1>3, <1>4 DEF Next, vars, Handterere

\* The steps of one listener, and the end of its work.
LEMMA ValEndring ==
    ASSUME Typet, [Next]_vars
    PROVE  \/ UNCHANGED validator
           \/ \E v \in Handterere :
                 \/ validator' = [validator EXCEPT ![v] = LedigVal]
                 \/ \E m \in innboks : HentInnboks(v, m)
                 \/ \E c \in Kommandoer : Revalider(v, c)
                 \/ Valider(v) \/ SendKlar(v)
                 \/ v \notin Operatorer /\ PubliserValidering(v)
<1>1. ASSUME NEW r \in Foresporsler, Send(r) \/ IngestGaar(r) \/ IngestFeiler(r)
      PROVE  UNCHANGED validator
  BY <1>1 DEF IngestGaar, Send, Registrer, RegistrerEntiteter, KnyttSak, Dispatch,
     MarkerDispatchet, PubliserMottatt, IngestFeiler
<1>2. ASSUME NEW v \in Handterere, ValideringGaar(v) \/ ValideringFeiler(v)
      PROVE  \/ validator' = [validator EXCEPT ![v] = LedigVal]
             \/ Valider(v) \/ SendKlar(v)
             \/ v \notin Operatorer /\ PubliserValidering(v)
  BY <1>2 DEF ValideringGaar, PubliserValidering, KvitterInnboks, ValideringFeiler
<1>3. ASSUME NEW d, \/ \E m \in klar : HentKlar(d, m)
                    \/ DekomponeringGaar(d) \/ DekomponeringFeiler(d)
      PROVE  UNCHANGED validator
  BY <1>3 DEF HentKlar, DekomponeringGaar, Plan, Lagre, PubliserDekomponering,
     KvitterKlar, DekomponeringFeiler
<1>4. ASSUME NEW c \in Kommandoer, VinduUtlop(c) \/ Forkast(c) \/ Fullfor(c)
      PROVE  UNCHANGED validator
  BY <1>4 DEF VinduUtlop, Forkast, Fullfor
<1> QED
  BY <1>1, <1>2, <1>3, <1>4 DEF Next, vars, Handterere

LEMMA DekEndring ==
    ASSUME Typet, [Next]_vars
    PROVE  \/ UNCHANGED dekomponerer
           \/ \E d \in Dekomponerere :
                 \/ dekomponerer' = [dekomponerer EXCEPT ![d] = LedigDek]
                 \/ \E m \in klar : HentKlar(d, m)
                 \/ Plan(d) \/ Lagre(d) \/ PubliserDekomponering(d)
<1>1. ASSUME NEW r \in Foresporsler, Send(r) \/ IngestGaar(r) \/ IngestFeiler(r)
      PROVE  UNCHANGED dekomponerer
  BY <1>1 DEF IngestGaar, Send, Registrer, RegistrerEntiteter, KnyttSak, Dispatch,
     MarkerDispatchet, PubliserMottatt, IngestFeiler
<1>2. ASSUME NEW v, \/ \E m \in innboks : HentInnboks(v, m)
                    \/ \E c \in Kommandoer : Revalider(v, c)
                    \/ ValideringGaar(v) \/ ValideringFeiler(v)
      PROVE  UNCHANGED dekomponerer
  BY <1>2 DEF HentInnboks, Revalider, ValideringGaar, Valider, SendKlar,
     PubliserValidering, KvitterInnboks, ValideringFeiler
<1>3. ASSUME NEW d, DekomponeringGaar(d) \/ DekomponeringFeiler(d)
      PROVE  \/ dekomponerer' = [dekomponerer EXCEPT ![d] = LedigDek]
             \/ Plan(d) \/ Lagre(d) \/ PubliserDekomponering(d)
  BY <1>3 DEF DekomponeringGaar, KvitterKlar, DekomponeringFeiler
<1>4. ASSUME NEW c \in Kommandoer, VinduUtlop(c) \/ Forkast(c) \/ Fullfor(c)
      PROVE  UNCHANGED dekomponerer
  BY <1>4 DEF VinduUtlop, Forkast, Fullfor
<1> QED
  BY <1>1, <1>2, <1>3, <1>4 DEF Next, vars

----------------------------------------------------------------------------
(* No command is lost *)

\* An id in the window stands for a message that was stored.
Vinduer == /\ \A c \in innboksVindu : Paa(innboks, c)
           /\ \A c \in klarVindu : Paa(klar, c)

\* A message on the inbox is unacknowledged, or its command has gone on.
InnboksGaarVidere == \A m \in innboks :
    \/ Paa(innboks \ innboksKvittert, m[1]) \/ Paa(klar, m[1]) \/ Avgjort(m[1])
KlarGaarVidere == \A m \in klar : Paa(klar \ klarKvittert, m[1]) \/ Avgjort(m[1])

\* What the handlers know between two steps.
ValKjent == \A v \in Handterere :
    /\ validator[v].steg = "send" => validator[v].utfall = "ok"
    /\ validator[v].steg \in {"publiser", "kvitter"} /\ validator[v].utfall = "ok"
         => Paa(klar, validator[v].kmd)
    /\ validator[v].steg = "kvitter" /\ validator[v].utfall # "ok"
         => "avvist" \in strom[validator[v].kmd]
DekKjent == \A d \in Dekomponerere :
    /\ dekomponerer[d].steg = "publiser_utfores" => dekomponerer[d].kmd \in dekomponert
    /\ dekomponerer[d].steg = "kvitter" => Avgjort(dekomponerer[d].kmd)

\* Only what is on the inbox is marked as dispatched.
RadPaaInnboks ==
    /\ \A c \in Kommandoer : rad[c] = "dispatchet" => Paa(innboks, c)
    /\ \A r \in Foresporsler : klient[r].steg = "marker" => Paa(innboks, Naa(r))

Sporet == /\ Vinduer /\ InnboksGaarVidere /\ KlarGaarVidere
          /\ ValKjent /\ DekKjent /\ RadPaaInnboks

LEMMA SporetInit == Init => Sporet
BY DEF Init, Sporet, Vinduer, InnboksGaarVidere, KlarGaarVidere, ValKjent, DekKjent,
       RadPaaInnboks, LedigVal, LedigDek

\* A publish leaves a message of the command on the stream, new or old.
LEMMA TilInnboksPaa ==
    ASSUME Typet, Vinduer, NEW c \in Kommandoer, TilInnboks(c)
    PROVE  Paa(innboks', c)
<1>1. CASE c \in innboksVindu
  BY <1>1 DEF TilInnboks, Vinduer, Paa
<1>2. CASE c \notin innboksVindu
  <2> DEFINE m == <<c, Antall(innboks, c) + 1>>
  <2>1. m \in innboks' /\ m[1] = c
    BY <1>2 DEF TilInnboks
  <2> QED
    BY <2>1 DEF Paa
<1> QED
  BY <1>1, <1>2

LEMMA TilKlarPaa ==
    ASSUME Typet, Vinduer, NEW c \in Kommandoer, NEW u \in BOOLEAN, TilKlar(c, u)
    PROVE  Paa(klar', c)
<1>1. CASE c \in klarVindu /\ ~u
  BY <1>1 DEF TilKlar, Vinduer, Paa
<1>2. CASE ~(c \in klarVindu /\ ~u)
  <2> DEFINE m == <<c, Antall(klar, c) + 1>>
  <2>1. m \in klar' /\ m[1] = c
    BY <1>2 DEF TilKlar
  <2> QED
    BY <2>1 DEF Paa
<1> QED
  BY <1>1, <1>2

LEMMA VinduerSteg ==
    ASSUME Typet, Sporet, [Next]_vars
    PROVE  Vinduer'
<1>0. innboks \subseteq innboks' /\ klar \subseteq klar'
  BY StrommerVokser
<1>1. \A c \in innboksVindu' : Paa(innboks', c)
  <2>1. CASE innboksVindu' \subseteq innboksVindu
    BY <1>0, <2>1 DEF Sporet, Vinduer, Paa
  <2>2. CASE \E c \in Kommandoer : TilInnboks(c)
    BY <1>0, <2>2, TilInnboksPaa DEF Sporet, Vinduer, Paa, TilInnboks
  <2> QED
    BY <2>1, <2>2, InnboksEndring DEF KvitterInnboks
<1>2. \A c \in klarVindu' : Paa(klar', c)
  <2>1. CASE klarVindu' \subseteq klarVindu
    BY <1>0, <2>1 DEF Sporet, Vinduer, Paa
  <2>2. ASSUME NEW v \in Handterere, SendKlar(v)
        PROVE  \A c \in klarVindu' : Paa(klar', c)
    <3>1. validator[v].kmd \in Kommandoer /\ (v \in Operatorer) \in BOOLEAN
      BY <2>2 DEF Typet, ValKmd, SendKlar
    <3>2. Paa(klar', validator[v].kmd)
      BY <2>2, <3>1, TilKlarPaa DEF Sporet, SendKlar
    <3> QED
      BY <1>0, <2>2, <3>2 DEF Sporet, Vinduer, Paa, SendKlar, TilKlar
  <2> QED
    BY <2>1, <2>2, KlarEndring DEF KvitterKlar
<1> QED
  BY <1>1, <1>2 DEF Vinduer

LEMMA InnboksSteg ==
    ASSUME Typet, Typet', Sporet, [Next]_vars
    PROVE  InnboksGaarVidere'
<1>0. klar \subseteq klar' /\ \A m \in innboks' : m[1] \in Kommandoer
  BY StrommerVokser DEF Typet, TypeOK, Meldinger
<1>1. ASSUME NEW m \in innboks, Avgjort(m[1])
      PROVE  Avgjort(m[1])'
  BY <1>1, AvgjortVarig DEF Typet, TypeOK, Meldinger
<1>2. CASE UNCHANGED <<innboks, innboksKvittert>>
  BY <1>0, <1>1, <1>2 DEF Sporet, InnboksGaarVidere, Paa
<1>3. ASSUME NEW c \in Kommandoer, TilInnboks(c)
      PROVE  InnboksGaarVidere'
  BY <1>0, <1>1, <1>3 DEF Typet, TypeOK, Sporet, InnboksGaarVidere, Paa, TilInnboks
<1>4. ASSUME NEW v \in Handterere, KvitterInnboks(v)
      PROVE  InnboksGaarVidere'
  <2> DEFINE n == validator[v].melding  c == validator[v].kmd
  <2>1. n \in innboks /\ n[1] = c
    BY <1>4 DEF Typet, ValKmd, KvitterInnboks
  <2>2. Paa(klar, c) \/ Avgjort(c)
    BY <1>4 DEF Sporet, ValKjent, KvitterInnboks, Avgjort
  <2>3. ASSUME NEW m \in innboks
        PROVE  \/ Paa(innboks \ (innboksKvittert \cup {n}), m[1])
               \/ Paa(klar, m[1]) \/ Avgjort(m[1])
    BY <2>1, <2>2 DEF Sporet, InnboksGaarVidere, Paa
  <2> QED
    BY <1>0, <1>1, <1>4, <2>3 DEF InnboksGaarVidere, Paa, KvitterInnboks
<1> QED
  BY <1>2, <1>3, <1>4, InnboksEndring

LEMMA KlarSteg ==
    ASSUME Typet, Typet', Sporet, [Next]_vars
    PROVE  KlarGaarVidere'
<1>1. ASSUME NEW m \in klar, Avgjort(m[1])
      PROVE  Avgjort(m[1])'
  BY <1>1, AvgjortVarig DEF Typet, TypeOK, Meldinger
<1>2. CASE UNCHANGED <<klar, klarKvittert>>
  BY <1>1, <1>2 DEF Sporet, KlarGaarVidere, Paa
<1>3. ASSUME NEW v \in Handterere, SendKlar(v)
      PROVE  KlarGaarVidere'
  BY <1>1, <1>3 DEF Typet, TypeOK, Sporet, KlarGaarVidere, Paa, SendKlar, TilKlar
<1>4. ASSUME NEW d \in Dekomponerere, KvitterKlar(d)
      PROVE  KlarGaarVidere'
  <2> DEFINE n == dekomponerer[d].melding  c == dekomponerer[d].kmd
  <2>1. n \in klar /\ n[1] = c
    BY <1>4 DEF Typet, DekKmd, KvitterKlar
  <2>2. Avgjort(c)
    BY <1>4 DEF Sporet, DekKjent, KvitterKlar
  <2>3. ASSUME NEW m \in klar
        PROVE  Paa(klar \ (klarKvittert \cup {n}), m[1]) \/ Avgjort(m[1])
    BY <2>1, <2>2 DEF Sporet, KlarGaarVidere, Paa
  <2> QED
    BY <1>1, <1>4, <2>3 DEF KlarGaarVidere, Paa, KvitterKlar
<1> QED
  BY <1>2, <1>3, <1>4, KlarEndring

LEMMA ValKjentSteg ==
    ASSUME Typet, Typet', Sporet, [Next]_vars
    PROVE  ValKjent'
<1>0. /\ klar \subseteq klar'
      /\ \A c \in Kommandoer : strom[c] \subseteq strom'[c]
      /\ \A v \in Handterere : validator[v].steg # "ledig" => validator[v].kmd \in Kommandoer
  BY StrommerVokser, Varig DEF Typet, ValKmd
\* What one listener does is nothing to the others.
<1>1. ASSUME NEW v \in Handterere, \A w \in Handterere : w # v => validator'[w] = validator[w],
             /\ validator'[v].steg = "send" => validator'[v].utfall = "ok"
             /\ validator'[v].steg \in {"publiser", "kvitter"} /\ validator'[v].utfall = "ok"
                  => Paa(klar', validator'[v].kmd)
             /\ validator'[v].steg = "kvitter" /\ validator'[v].utfall # "ok"
                  => "avvist" \in strom'[validator'[v].kmd]
      PROVE  ValKjent'
  BY <1>0, <1>1 DEF Sporet, ValKjent, Paa
<1>2. CASE UNCHANGED validator
  BY <1>0, <1>2 DEF Sporet, ValKjent, Paa
<1>3. ASSUME NEW v \in Handterere
      PROVE  /\ validator' = [validator EXCEPT ![v] = LedigVal] => ValKjent'
             /\ (\E m \in innboks : HentInnboks(v, m)) => ValKjent'
             /\ (\E c \in Kommandoer : Revalider(v, c)) => ValKjent'
             /\ Valider(v) => ValKjent'
  <2>1. ASSUME \A w \in Handterere : w # v => validator'[w] = validator[w],
               \/ validator'[v].steg \in {"ledig", "valider"}
               \/ validator'[v].steg = "send" /\ validator'[v].utfall = "ok"
               \/ validator'[v].steg = "publiser" /\ validator'[v].utfall = "avvist"
        PROVE  ValKjent'
    BY <1>1, <2>1
  <2>2. validator' = [validator EXCEPT ![v] = LedigVal] => ValKjent'
    BY <2>1 DEF Typet, TypeOK, LedigVal
  <2>3. (\E m \in innboks : HentInnboks(v, m)) => ValKjent'
    BY <2>1 DEF Typet, TypeOK, HentInnboks
  <2>4. (\E c \in Kommandoer : Revalider(v, c)) => ValKjent'
    BY <2>1 DEF Typet, TypeOK, Revalider
  <2>5. Valider(v) => ValKjent'
    BY <2>1 DEF Typet, TypeOK, Valider, Viderefor
  <2> QED
    BY <2>2, <2>3, <2>4, <2>5
<1>4. ASSUME NEW v \in Handterere, SendKlar(v)
      PROVE  ValKjent'
  <2>1. validator[v].kmd \in Kommandoer /\ (v \in Operatorer) \in BOOLEAN
    BY <1>4 DEF Typet, ValKmd, SendKlar
  <2>2. Paa(klar', validator[v].kmd)
    BY <1>4, <2>1, TilKlarPaa DEF Sporet, SendKlar
  <2> QED
    BY <1>1, <1>4, <2>2 DEF Typet, TypeOK, SendKlar, Viderefor
<1>5. ASSUME NEW v \in Handterere, v \notin Operatorer, PubliserValidering(v)
      PROVE  ValKjent'
  <2>1. /\ validator[v].kmd \in Kommandoer
        /\ validator[v].utfall = "ok" => Paa(klar, validator[v].kmd)
    BY <1>5 DEF Typet, ValKmd, PubliserValidering, Sporet, ValKjent
  <2>2. validator[v].utfall # "ok" => "avvist" \in strom'[validator[v].kmd]
    BY <1>5, <2>1 DEF Typet, TypeOK, PubliserValidering, Fortell
  <2>3. validator[v].utfall = "ok" => Paa(klar', validator[v].kmd)
    BY <1>0, <2>1 DEF Paa
  <2>4. /\ \A w \in Handterere : w # v => validator'[w] = validator[w]
        /\ validator'[v].steg = "kvitter" /\ validator'[v].utfall = validator[v].utfall
        /\ validator'[v].kmd = validator[v].kmd
    BY <1>5 DEF Typet, TypeOK, PubliserValidering, Viderefor
  <2> QED
    BY <1>1, <2>2, <2>3, <2>4
<1> QED
  BY <1>2, <1>3, <1>4, <1>5, ValEndring

LEMMA DekKjentSteg ==
    ASSUME Typet, Typet', Sporet, [Next]_vars
    PROVE  DekKjent'
<1>0. /\ dekomponert \subseteq dekomponert'
      /\ \A c \in Kommandoer : Avgjort(c) => Avgjort(c)'
      /\ \A d \in Dekomponerere : dekomponerer[d].steg # "ledig" => dekomponerer[d].kmd \in Kommandoer
  BY Varig, AvgjortVarig DEF Typet, DekKmd
<1>1. ASSUME NEW d \in Dekomponerere, \A e \in Dekomponerere : e # d => dekomponerer'[e] = dekomponerer[e],
             NEW c, dekomponerer'[d].kmd = c,
             dekomponerer'[d].steg = "publiser_utfores" => c \in dekomponert',
             dekomponerer'[d].steg = "kvitter" => Avgjort(c)'
      PROVE  DekKjent'
  <2> SUFFICES ASSUME NEW e \in Dekomponerere
               PROVE  /\ dekomponerer'[e].steg = "publiser_utfores" => dekomponerer'[e].kmd \in dekomponert'
                      /\ dekomponerer'[e].steg = "kvitter" => Avgjort(dekomponerer[e].kmd)'
    BY DEF DekKjent
  <2>1. CASE e = d
    BY <1>1, <2>1 DEF Avgjort
  <2>2. CASE e # d
    BY <1>0, <1>1, <2>2 DEF Sporet, DekKjent, Avgjort
  <2> QED
    BY <2>1, <2>2
<1>2. CASE UNCHANGED dekomponerer
  BY <1>0, <1>2 DEF Sporet, DekKjent, Avgjort
<1>3. ASSUME NEW d \in Dekomponerere
      PROVE  /\ dekomponerer' = [dekomponerer EXCEPT ![d] = LedigDek] => DekKjent'
             /\ (\E m \in klar : HentKlar(d, m)) => DekKjent'
             /\ Plan(d) => DekKjent'
  <2>1. ASSUME \A e \in Dekomponerere : e # d => dekomponerer'[e] = dekomponerer[e],
               dekomponerer'[d].steg \in {"ledig", "plan", "lagre", "publiser_feilet"}
        PROVE  DekKjent'
    BY <1>1, <2>1
  <2>2. dekomponerer' = [dekomponerer EXCEPT ![d] = LedigDek] => DekKjent'
    BY <2>1 DEF Typet, TypeOK, LedigDek
  <2>3. (\E m \in klar : HentKlar(d, m)) => DekKjent'
    BY <2>1 DEF Typet, TypeOK, HentKlar
  <2>4. Plan(d) => DekKjent'
    BY <2>1 DEF Typet, TypeOK, Plan, GaarTil
  <2> QED
    BY <2>2, <2>3, <2>4
<1>4. ASSUME NEW d \in Dekomponerere, Lagre(d)
      PROVE  DekKjent'
  <2>1. /\ \A e \in Dekomponerere : e # d => dekomponerer'[e] = dekomponerer[e]
        /\ dekomponerer'[d].kmd = dekomponerer[d].kmd
        /\ dekomponerer'[d].steg = "publiser_utfores" => dekomponerer[d].kmd \in dekomponert'
        /\ dekomponerer'[d].steg = "kvitter"
             => dekomponerer[d].kmd \in dekomponert' \cup forkastet'
    BY <1>4 DEF Typet, TypeOK, Lagre, GaarTil
  <2> QED
    BY <1>1, <2>1 DEF Avgjort
<1>5. ASSUME NEW d \in Dekomponerere, PubliserDekomponering(d)
      PROVE  DekKjent'
  <2>1. dekomponerer[d].kmd \in Kommandoer
    BY <1>0, <1>5 DEF PubliserDekomponering
  <2>2. \/ dekomponerer[d].kmd \in dekomponert'
        \/ "feilet" \in strom'[dekomponerer[d].kmd]
    BY <1>0, <1>5, <2>1 DEF Typet, TypeOK, PubliserDekomponering, Fortell, Sporet, DekKjent
  <2>3. /\ \A e \in Dekomponerere : e # d => dekomponerer'[e] = dekomponerer[e]
        /\ dekomponerer'[d].kmd = dekomponerer[d].kmd
        /\ dekomponerer'[d].steg = "kvitter"
    BY <1>5 DEF Typet, TypeOK, PubliserDekomponering, GaarTil
  <2> QED
    BY <1>1, <2>2, <2>3 DEF Avgjort
<1> QED
  BY <1>2, <1>3, <1>4, <1>5, DekEndring

LEMMA RadSteg ==
    ASSUME Typet, Typet', Sporet, [Next]_vars
    PROVE  RadPaaInnboks'
<1>0. innboks \subseteq innboks'
  BY StrommerVokser
<1>1. CASE UNCHANGED <<rad, klient>>
  BY <1>0, <1>1 DEF Sporet, RadPaaInnboks, Paa, Naa
<1>2. ASSUME NEW r \in Foresporsler, \A q \in Foresporsler : q # r => klient'[q] = klient[q],
             klient'[r].steg = "marker" => Paa(innboks', Naa(r)'),
             \A c \in Kommandoer : rad'[c] = "dispatchet" => rad[c] = "dispatchet"
                                      \/ Paa(innboks, c)
      PROVE  RadPaaInnboks'
  BY <1>0, <1>2 DEF Sporet, RadPaaInnboks, Paa, Naa
<1>3. ASSUME NEW r \in Foresporsler, NEW s, NEW n, NEW svar, Besvar(r, s, n, svar)
      PROVE  /\ \A q \in Foresporsler : q # r => klient'[q] = klient[q]
             /\ klient'[r].steg = s /\ klient'[r].nr = n
  BY <1>3 DEF Typet, TypeOK, Besvar
<1>4. ASSUME NEW r \in Foresporsler, Neste(r)
      PROVE  /\ \A q \in Foresporsler : q # r => klient'[q] = klient[q]
             /\ klient'[r].steg # "marker"
  BY <1>3, <1>4 DEF Neste
<1>5. ASSUME NEW r \in Foresporsler, NEW s, Ingest(r, s)
      PROVE  /\ \A q \in Foresporsler : q # r => klient'[q] = klient[q]
             /\ klient'[r].steg = s /\ Naa(r)' = Naa(r)
  BY <1>3, <1>5 DEF Ingest, Naa
<1>6. ASSUME NEW r \in Foresporsler, Send(r)
      PROVE  RadPaaInnboks'
  <2>1. /\ \A q \in Foresporsler : q # r => klient'[q] = klient[q]
        /\ klient'[r].steg = "registrer"
    BY <1>6 DEF Typet, TypeOK, Send
  <2> QED
    BY <1>2, <1>6, <2>1 DEF Send, dbVars
<1>7. ASSUME NEW r \in Foresporsler, Registrer(r)
      PROVE  RadPaaInnboks'
  <2>1. \A c \in Kommandoer : rad'[c] = "dispatchet" => rad[c] = "dispatchet"
    BY <1>7 DEF Typet, TypeOK, Registrer
  <2> QED
    BY <1>2, <1>4, <1>5, <1>7, <2>1 DEF Registrer
<1>8. ASSUME NEW r \in Foresporsler, RegistrerEntiteter(r) \/ KnyttSak(r) \/ PubliserMottatt(r)
                                     \/ IngestFeiler(r)
      PROVE  RadPaaInnboks'
  BY <1>2, <1>3, <1>4, <1>5, <1>8
     DEF RegistrerEntiteter, KnyttSak, PubliserMottatt, IngestFeiler, dbVars
<1>9. ASSUME NEW r \in Foresporsler, Dispatch(r)
      PROVE  RadPaaInnboks'
  <2>1. Paa(innboks', Naa(r))
    BY <1>9, NaaType, TilInnboksPaa DEF Typet, Sporet, Dispatch
  <2> QED
    BY <1>2, <1>5, <1>9, <2>1 DEF Dispatch, dbVars
<1>10. ASSUME NEW r \in Foresporsler, MarkerDispatchet(r)
       PROVE  RadPaaInnboks'
  <2>1. Paa(innboks, Naa(r))
    BY <1>10 DEF MarkerDispatchet, Sporet, RadPaaInnboks
  <2>2. \A c \in Kommandoer : rad'[c] = "dispatchet" => rad[c] = "dispatchet" \/ Paa(innboks, c)
    BY <1>10, <2>1 DEF MarkerDispatchet, Typet, TypeOK
  <2>3. /\ \A q \in Foresporsler : q # r => klient'[q] = klient[q]
        /\ klient'[r].steg = "publiser"
    BY <1>5, <1>10 DEF MarkerDispatchet
  <2> QED
    BY <1>2, <2>2, <2>3
<1>11. ASSUME NEW v, \/ \E m \in innboks : HentInnboks(v, m)
                     \/ \E c \in Kommandoer : Revalider(v, c)
                     \/ ValideringGaar(v) \/ ValideringFeiler(v)
       PROVE  UNCHANGED <<rad, klient>>
  BY <1>11 DEF dbVars, HentInnboks, Revalider, ValideringGaar, Valider, SendKlar,
     PubliserValidering, KvitterInnboks, ValideringFeiler
<1>12. ASSUME NEW d, \/ \E m \in klar : HentKlar(d, m)
                     \/ DekomponeringGaar(d) \/ DekomponeringFeiler(d)
       PROVE  UNCHANGED <<rad, klient>>
  BY <1>12 DEF dbVars, HentKlar, DekomponeringGaar, Plan, Lagre, PubliserDekomponering,
     KvitterKlar, DekomponeringFeiler
<1>13. ASSUME NEW c \in Kommandoer, VinduUtlop(c) \/ Forkast(c) \/ Fullfor(c)
       PROVE  UNCHANGED <<rad, klient>>
  BY <1>13 DEF dbVars, VinduUtlop, Forkast, Fullfor
<1> QED
  BY <1>1, <1>6, <1>7, <1>8, <1>9, <1>10, <1>11, <1>12, <1>13 DEF Next, vars, dbVars, IngestGaar

LEMMA SporetSteg == Typet /\ Sporet /\ [Next]_vars => Sporet'
BY TypetSteg, VinduerSteg, InnboksSteg, KlarSteg, ValKjentSteg, DekKjentSteg, RadSteg DEF Sporet

\* What ingest has marked as dispatched is on one of the streams until it is
\* decided, for every number of clients, handlers, copies and failures.
THEOREM IngenTapesHolder == Spec => []IngenTapes
<1>1. Typet /\ Sporet => IngenTapes
  <2> SUFFICES ASSUME Typet, Sporet, NEW c \in Kommandoer, rad[c] = "dispatchet"
               PROVE  Underveis(c) \/ Avgjort(c)
    BY DEF IngenTapes
  <2>1. PICK m \in innboks : m[1] = c
    BY DEF Sporet, RadPaaInnboks, Paa
  <2>2. Paa(innboks \ innboksKvittert, c) \/ Paa(klar, c) \/ Avgjort(c)
    BY <2>1 DEF Sporet, InnboksGaarVidere
  <2>3. Paa(klar, c) => Paa(klar \ klarKvittert, c) \/ Avgjort(c)
    BY DEF Sporet, KlarGaarVidere, Paa
  <2> QED
    BY <2>2, <2>3 DEF Paa, Underveis
<1> QED
  BY TypetInit, TypetSteg, SporetInit, SporetSteg, <1>1, PTL DEF Spec

----------------------------------------------------------------------------
(* The reply and the discard *)

\* A request that is under way has marked every command before the present one.
Kvittert == \A r \in Foresporsler :
    /\ klient[r].steg # "venter" =>
          \A i \in 1..(klient[r].nr - 1) : rad[Innhold[r][i]] = "dispatchet"
    /\ klient[r].steg = "publiser" => rad[Naa(r)] = "dispatchet"
Svarer == Kvittert /\ OkErSann

\* What a client claims stays true while it does not move itself.
LEMMA SvarStaar ==
    ASSUME Typet, [Next]_vars, Svarer, NEW q \in Foresporsler, klient'[q] = klient[q]
    PROVE  /\ klient'[q].steg # "venter" =>
                \A i \in 1..(klient'[q].nr - 1) : rad'[Innhold[q][i]] = "dispatchet"
           /\ klient'[q].steg = "publiser" => rad'[Innhold[q][klient'[q].nr]] = "dispatchet"
           /\ klient'[q].svar = "ok" =>
                \A i \in 1..Len(Innhold[q]) : rad'[Innhold[q][i]] = "dispatchet"
<1>1. /\ klient[q].nr \in 1..Len(Innhold[q]) /\ Len(Innhold[q]) \in Nat
      /\ \A i \in 1..Len(Innhold[q]) : Innhold[q][i] \in Kommandoer
  BY InnholdType DEF Typet, TypeOK
<1>2. \A i \in 1..Len(Innhold[q]) :
         rad[Innhold[q][i]] = "dispatchet" => rad'[Innhold[q][i]] = "dispatchet"
  BY <1>1, Varig
<1>3. \A i \in 1..(klient[q].nr - 1) : i \in 1..Len(Innhold[q])
  BY <1>1
<1>4. klient[q].steg # "venter" =>
         \A i \in 1..(klient[q].nr - 1) : rad[Innhold[q][i]] = "dispatchet"
  BY DEF Svarer, Kvittert
<1>5. klient[q].steg = "publiser" => rad[Innhold[q][klient[q].nr]] = "dispatchet"
  BY DEF Svarer, Kvittert, Naa
<1>6. klient[q].svar = "ok" =>
         \A i \in 1..Len(Innhold[q]) : rad[Innhold[q][i]] = "dispatchet"
  BY DEF Svarer, OkErSann
<1> QED
  BY <1>1, <1>2, <1>3, <1>4, <1>5, <1>6

\* A step that leaves the clients alone leaves what they know.
LEMMA SvarerStille ==
    ASSUME Typet, [Next]_vars, Svarer, UNCHANGED klient
    PROVE  Svarer'
BY SvarStaar DEF Svarer, Kvittert, OkErSann, Naa

\* One client moves: what it claims must be true of the rows.
LEMMA SvarerEn ==
    ASSUME Typet, [Next]_vars, Svarer, NEW r \in Foresporsler,
           \A q \in Foresporsler : q # r => klient'[q] = klient[q],
           klient'[r].steg # "venter" =>
              \A i \in 1..(klient'[r].nr - 1) : rad'[Innhold[r][i]] = "dispatchet",
           klient'[r].steg = "publiser" => rad'[Innhold[r][klient'[r].nr]] = "dispatchet",
           klient'[r].svar = "ok" =>
              \A i \in 1..Len(Innhold[r]) : rad'[Innhold[r][i]] = "dispatchet"
    PROVE  Svarer'
<1> SUFFICES ASSUME NEW q \in Foresporsler
             PROVE  /\ klient'[q].steg # "venter" =>
                         \A i \in 1..(klient'[q].nr - 1) : rad'[Innhold[q][i]] = "dispatchet"
                    /\ klient'[q].steg = "publiser" => rad'[Innhold[q][klient'[q].nr]] = "dispatchet"
                    /\ klient'[q].svar = "ok" =>
                         \A i \in 1..Len(Innhold[q]) : rad'[Innhold[q][i]] = "dispatchet"
  BY DEF Svarer, Kvittert, OkErSann, Naa
<1>1. CASE q = r
  BY <1>1
<1>2. CASE q # r
  BY <1>2, SvarStaar
<1> QED
  BY <1>1, <1>2

LEMMA SvarerIngest ==
    ASSUME Typet, [Next]_vars, Svarer, NEW r \in Foresporsler,
           Send(r) \/ IngestGaar(r) \/ IngestFeiler(r)
    PROVE  Svarer'
<1> DEFINE n == klient[r].nr
           L == Len(Innhold[r])
<1>0. /\ n \in 1..L /\ L \in Nat
      /\ \A i \in 1..L : Innhold[r][i] \in Kommandoer
      /\ \A c \in Kommandoer : rad[c] = "dispatchet" => rad'[c] = "dispatchet"
  BY Varig, InnholdType DEF Typet, TypeOK
<1>1. ASSUME NEW s, NEW k, NEW svar, Besvar(r, s, k, svar)
      PROVE  /\ \A q \in Foresporsler : q # r => klient'[q] = klient[q]
             /\ klient'[r].steg = s /\ klient'[r].nr = k /\ klient'[r].svar = svar
  BY <1>1 DEF Typet, TypeOK, Besvar
<1>2. klient[r].steg # "venter" =>
         \A i \in 1..(n - 1) : rad'[Innhold[r][i]] = "dispatchet"
  BY <1>0 DEF Svarer, Kvittert
<1>3. klient[r].svar = "ok" => \A i \in 1..L : rad'[Innhold[r][i]] = "dispatchet"
  BY <1>0 DEF Svarer, OkErSann
\* The next step of the same command.
<1>4. ASSUME klient[r].steg # "venter", NEW s, Ingest(r, s),
             s = "publiser" => rad'[Naa(r)] = "dispatchet"
      PROVE  Svarer'
  <2>1. /\ \A q \in Foresporsler : q # r => klient'[q] = klient[q]
        /\ klient'[r].steg = s /\ klient'[r].nr = n /\ klient'[r].svar = klient[r].svar
    BY <1>1, <1>4 DEF Ingest
  <2> QED
    BY <1>2, <1>3, <1>4, <2>1, SvarerEn DEF Naa
\* The next command, or the reply: this command is marked.
<1>5. ASSUME klient[r].steg # "venter", Neste(r), rad'[Naa(r)] = "dispatchet"
      PROVE  Svarer'
  <2>1. \A i \in 1..n : rad'[Innhold[r][i]] = "dispatchet"
    BY <1>0, <1>2, <1>5 DEF Naa
  <2>2. CASE n < L
    <3>1. /\ \A q \in Foresporsler : q # r => klient'[q] = klient[q]
          /\ klient'[r].steg = "registrer" /\ klient'[r].nr = n + 1
          /\ klient'[r].svar = klient[r].svar
      BY <1>1, <1>5, <2>2 DEF Neste
    <3>2. \A i \in 1..(klient'[r].nr - 1) : rad'[Innhold[r][i]] = "dispatchet"
      BY <1>0, <2>1, <3>1
    <3> QED
      BY <1>3, <3>1, <3>2, SvarerEn
  <2>3. CASE ~(n < L)
    <3>1. /\ \A q \in Foresporsler : q # r => klient'[q] = klient[q]
          /\ klient'[r].steg = "venter" /\ klient'[r].svar = "ok"
      BY <1>1, <1>5, <2>3 DEF Neste
    <3>2. n = L
      BY <1>0, <2>3
    <3> QED
      BY <2>1, <3>1, <3>2, SvarerEn
  <2> QED
    BY <2>2, <2>3
<1>6. CASE Send(r)
  <2>1. /\ \A q \in Foresporsler : q # r => klient'[q] = klient[q]
        /\ klient'[r].steg = "registrer" /\ klient'[r].nr = 1 /\ klient'[r].svar = "ingen"
    BY <1>6 DEF Send, Typet, TypeOK
  <2> QED
    BY <2>1, SvarerEn
<1>7. CASE Registrer(r)
  <2>1. CASE rad[Naa(r)] = "dispatchet"
    BY <1>5, <1>7, <2>1 DEF Registrer
  <2>2. CASE rad[Naa(r)] # "dispatchet"
    BY <1>4, <1>7, <2>2 DEF Registrer
  <2> QED
    BY <2>1, <2>2
<1>8. CASE RegistrerEntiteter(r) \/ KnyttSak(r) \/ Dispatch(r)
  BY <1>4, <1>8 DEF RegistrerEntiteter, KnyttSak, Dispatch
<1>9. CASE MarkerDispatchet(r)
  <2>1. rad'[Naa(r)] = "dispatchet"
    BY <1>9, NaaType DEF MarkerDispatchet, Typet, TypeOK
  <2> QED
    BY <1>4, <1>9, <2>1 DEF MarkerDispatchet
<1>10. CASE PubliserMottatt(r)
  <2>1. rad'[Naa(r)] = "dispatchet"
    BY <1>0, <1>10, NaaType DEF PubliserMottatt, Typet, Svarer, Kvittert
  <2> QED
    BY <1>5, <1>10, <2>1 DEF PubliserMottatt
<1>11. CASE IngestFeiler(r)
  <2>1. /\ \A q \in Foresporsler : q # r => klient'[q] = klient[q]
        /\ klient'[r].steg = "venter" /\ klient'[r].svar = "feil"
    BY <1>1, <1>11 DEF IngestFeiler
  <2> QED
    BY <2>1, SvarerEn
<1> QED
  BY <1>6, <1>7, <1>8, <1>9, <1>10, <1>11 DEF IngestGaar

LEMMA SvarerSteg == Typet /\ Svarer /\ [Next]_vars => Svarer'
<1> SUFFICES ASSUME Typet, Svarer, [Next]_vars
             PROVE  Svarer'
  OBVIOUS
<1>1. ASSUME NEW v, \/ \E m \in innboks : HentInnboks(v, m)
                    \/ \E c \in Kommandoer : Revalider(v, c)
                    \/ ValideringGaar(v) \/ ValideringFeiler(v)
      PROVE  UNCHANGED klient
  BY <1>1 DEF HentInnboks, Revalider, ValideringGaar, Valider, SendKlar,
     PubliserValidering, KvitterInnboks, ValideringFeiler
<1>2. ASSUME NEW d, \/ \E m \in klar : HentKlar(d, m)
                    \/ DekomponeringGaar(d) \/ DekomponeringFeiler(d)
      PROVE  UNCHANGED klient
  BY <1>2 DEF HentKlar, DekomponeringGaar, Plan, Lagre, PubliserDekomponering,
     KvitterKlar, DekomponeringFeiler
<1>3. ASSUME NEW c \in Kommandoer, VinduUtlop(c) \/ Forkast(c) \/ Fullfor(c)
      PROVE  UNCHANGED klient
  BY <1>3 DEF VinduUtlop, Forkast, Fullfor
<1> QED
  BY <1>1, <1>2, <1>3, SvarerIngest, SvarerStille DEF Next, vars

\* "ok" is the truth about the whole batch, however often it was sent and
\* wherever an earlier attempt stopped.
THEOREM OkErSannHolder == Spec => []OkErSann
<1>1. Init => Svarer
  BY DEF Init, Svarer, Kvittert, OkErSann
<1> QED
  BY TypetInit, TypetSteg, SvarerSteg, <1>1, PTL DEF Spec, Svarer

\* No delivery and no retry gives a discarded command operations.
THEOREM ForkastetErEndeligHolder == Spec => ForkastetErEndelig
<1> DEFINE E == \A c \in forkastet : c \in dekomponert' => c \in dekomponert
<1> USE DEF dbVars
<1>1. ASSUME NEW r \in Foresporsler, Send(r) \/ IngestGaar(r) \/ IngestFeiler(r)
      PROVE  UNCHANGED dekomponert
  BY <1>1 DEF IngestGaar, Send, Registrer, RegistrerEntiteter, KnyttSak, Dispatch,
     MarkerDispatchet, PubliserMottatt, IngestFeiler
<1>2. ASSUME NEW v, \/ \E m \in innboks : HentInnboks(v, m)
                    \/ \E c \in Kommandoer : Revalider(v, c)
                    \/ ValideringGaar(v) \/ ValideringFeiler(v)
      PROVE  UNCHANGED dekomponert
  BY <1>2 DEF HentInnboks, Revalider, ValideringGaar, Valider, SendKlar,
     PubliserValidering, KvitterInnboks, ValideringFeiler
<1>3. ASSUME NEW d, \/ \E m \in klar : HentKlar(d, m)
                    \/ DekomponeringGaar(d) \/ DekomponeringFeiler(d)
      PROVE  E
  BY <1>3 DEF HentKlar, DekomponeringGaar, Plan, Lagre, PubliserDekomponering,
     KvitterKlar, DekomponeringFeiler
<1>4. ASSUME NEW c \in Kommandoer, VinduUtlop(c) \/ Forkast(c) \/ Fullfor(c)
      PROVE  UNCHANGED dekomponert
  BY <1>4 DEF VinduUtlop, Forkast, Fullfor
<1>5. [Next]_vars => [E]_vars
  BY <1>1, <1>2, <1>3, <1>4 DEF Next, vars
<1> QED
  BY <1>5, PTL DEF Spec, ForkastetErEndelig

----------------------------------------------------------------------------
(* Entities, and the verdict of decomposition *)

Kjent(c) == \A e \in Minter(Payload[c]) : entitet[e[1]] # "ingen"
Sakskjent(c) == Payload[c].nummer \/ entitet[Payload[c].sak] # "ingen"

\* Ingest registers before it publishes, and a listener's command is from there.
Registrerte ==
    /\ \A m \in innboks : Kjent(m[1])
    /\ \A r \in Foresporsler :
          klient[r].steg \in {"knytt", "dispatch", "marker", "publiser"} => Kjent(Naa(r))
    /\ \A v \in Handterere : validator[v].steg # "ledig" => Kjent(validator[v].kmd)
    /\ \A v \in Handterere : validator[v].steg = "send" => Sakskjent(validator[v].kmd)
Entiteter == Registrerte /\ KlarHarEntitet

LEMMA RefType ==
    ASSUME NEW c \in Kommandoer
    PROVE  /\ Payload[c].sak \in Referanser
           /\ \A e \in Minter(Payload[c]) :
                 e[1] \in Referanser /\ e[2] \in {"sak", "journalpost", "dokument"}
<1>1. /\ Payload[c].sak \in Referanser /\ Payload[c].ref \in Referanser
      /\ \A d \in Payload[c].dokumenter : d \in Referanser
  <2>1. Payload[c].dokumenter \in {Payload[k].dokumenter : k \in Kommandoer}
    OBVIOUS
  <2>2. \A d \in Payload[c].dokumenter : d \in Referanser
    BY <2>1 DEF Referanser
  <2>3. Payload[c].ref \in Referanser
    BY DEF Referanser
  <2>4. Payload[c].sak \in Saksnokler
    BY DEF Saksnokler
  <2>5. Payload[c].sak \in Referanser
    BY <2>4 DEF Referanser
  <2> QED
    BY <2>2, <2>3, <2>5
<1>2. ASSUME NEW e \in Minter(Payload[c])
      PROVE  \/ e = <<Payload[c].ref, "sak">> \/ e = <<Payload[c].ref, "journalpost">>
             \/ \E d \in Payload[c].dokumenter : e = <<d, "dokument">>
  BY <1>2 DEF Minter
<1> QED
  BY <1>1, <1>2

\* An entity keeps its kind.
LEMMA EntitetVarig ==
    ASSUME Typet, [Next]_vars, NEW x \in Referanser, entitet[x] # "ingen"
    PROVE  entitet'[x] = entitet[x]
<1> USE DEF dbVars
<1>1. ASSUME NEW r \in Foresporsler, Send(r) \/ IngestGaar(r) \/ IngestFeiler(r)
      PROVE  entitet'[x] = entitet[x]
  BY <1>1 DEF IngestGaar, Send, Registrer, RegistrerEntiteter, Registrert, KnyttSak,
     Dispatch, MarkerDispatchet, PubliserMottatt, IngestFeiler
<1>2. ASSUME NEW v, \/ \E m \in innboks : HentInnboks(v, m)
                    \/ \E c \in Kommandoer : Revalider(v, c)
                    \/ ValideringGaar(v) \/ ValideringFeiler(v)
      PROVE  entitet'[x] = entitet[x]
  BY <1>2 DEF HentInnboks, Revalider, ValideringGaar, Valider, SendKlar,
     PubliserValidering, KvitterInnboks, ValideringFeiler
<1>3. ASSUME NEW d, \/ \E m \in klar : HentKlar(d, m)
                    \/ DekomponeringGaar(d) \/ DekomponeringFeiler(d)
      PROVE  entitet'[x] = entitet[x]
  BY <1>3 DEF Typet, TypeOK, HentKlar, DekomponeringGaar, Plan, Lagre,
     PubliserDekomponering, KvitterKlar, DekomponeringFeiler
<1>4. ASSUME NEW c \in Kommandoer, VinduUtlop(c) \/ Forkast(c) \/ Fullfor(c)
      PROVE  entitet'[x] = entitet[x]
  BY <1>4 DEF VinduUtlop, Forkast, Fullfor
<1> QED
  BY <1>1, <1>2, <1>3, <1>4 DEF Next, vars

LEMMA KjentVarig ==
    ASSUME Typet, [Next]_vars, NEW c \in Kommandoer
    PROVE  (Kjent(c) => Kjent(c)') /\ (Sakskjent(c) => Sakskjent(c)')
BY RefType, EntitetVarig DEF Kjent, Sakskjent

LEMMA KlarKjent ==
    KlarHarEntitet <=> \A m \in klar : Kjent(m[1]) /\ Sakskjent(m[1])
BY DEF KlarHarEntitet, Kjent, Sakskjent

\* registrer_entiteter leaves no reference of the command without an entity.
LEMMA EtterRegistrering ==
    ASSUME Typet, NEW r \in Foresporsler, RegistrerEntiteter(r)
    PROVE  Kjent(Naa(r))'
<1> DEFINE c == Naa(r)
           N == Minter(Payload[c])
                  \cup IF Payload[c].nummer THEN {<<Payload[c].sak, "sak">>} ELSE {}
<1>1. c \in Kommandoer
  BY NaaType DEF Typet
<1>2. \A e \in N : e[1] \in Referanser /\ e[2] \in {"sak", "journalpost", "dokument"}
  BY <1>1, RefType
<1>3. \A x \in Referanser : entitet'[x] = Registrert(x, N)
  BY DEF RegistrerEntiteter
<1>4. ASSUME NEW e \in N
      PROVE  Registrert(e[1], N) # "ingen"
  <2>1. CASE entitet[e[1]] # "ingen"
    BY <2>1 DEF Registrert
  <2>2. CASE entitet[e[1]] = "ingen"
    <3>1. PICK f \in N : Registrert(e[1], N) = f[2]
      BY <2>2 DEF Registrert
    <3> QED
      BY <1>2, <3>1
  <2> QED
    BY <2>1, <2>2
<1>5. Naa(r)' = c
  BY DEF RegistrerEntiteter, Ingest, Besvar, Naa, Typet, TypeOK
<1> QED
  BY <1>2, <1>3, <1>4, <1>5 DEF Kjent

LEMMA AntallPaa ==
    ASSUME NEW S, NEW c, Antall(S, c) > 0
    PROVE  Paa(S, c)
<1>1. Cardinality({}) = 0
  BY FS_EmptySet
<1>2. CASE \A m \in S : m[1] # c
  <2>1. {m \in S : m[1] = c} = {}
    BY <1>2
  <2> QED
    BY <1>1, <2>1 DEF Antall
<1> QED
  BY <1>2 DEF Paa

LEMMA EntitetInnboks ==
    ASSUME Typet, Entiteter, [Next]_vars
    PROVE  \A m \in innboks' : Kjent(m[1])'
<1>0. ASSUME NEW m \in innboks
      PROVE  Kjent(m[1])'
  BY KjentVarig DEF Typet, TypeOK, Meldinger, Entiteter, Registrerte
<1>1. ASSUME NEW r \in Foresporsler, Dispatch(r)
      PROVE  \A m \in innboks' : Kjent(m[1])'
  <2>1. Naa(r) \in Kommandoer /\ Kjent(Naa(r))
    BY <1>1, NaaType DEF Typet, Entiteter, Registrerte, Dispatch
  <2>2. Kjent(Naa(r))'
    <3> DEFINE c == Naa(r)
    <3>1. Kjent(c) /\ c \in Kommandoer
      BY <2>1
    <3>2. klient'[r].nr = klient[r].nr
      BY <1>1 DEF Typet, TypeOK, Dispatch, Ingest, Besvar
    <3>3. \A e \in Minter(Payload[c]) : entitet'[e[1]] # "ingen"
      BY <3>1, EntitetVarig, RefType DEF Kjent
    <3> QED
      BY <3>2, <3>3 DEF Kjent, Naa
  <2>3. Naa(r)' = Naa(r)
    BY <1>1 DEF Typet, TypeOK, Dispatch, Ingest, Besvar, Naa
  <2>4. \A m \in innboks' : m \in innboks \/ m[1] = Naa(r)
    BY <1>1 DEF Dispatch, TilInnboks
  <2> QED
    BY <1>0, <2>2, <2>3, <2>4 DEF Kjent
<1>2. (\E r \in Foresporsler : Dispatch(r)) \/ innboks' \subseteq innboks
  <2>1. ASSUME NEW r \in Foresporsler, Send(r) \/ IngestGaar(r) \/ IngestFeiler(r), ~Dispatch(r)
        PROVE  UNCHANGED innboks
    BY <2>1 DEF innboksVars, IngestGaar, Send, Registrer, RegistrerEntiteter, KnyttSak,
       MarkerDispatchet, PubliserMottatt, IngestFeiler
  <2>2. ASSUME NEW v, ValideringGaar(v) \/ ValideringFeiler(v)
        PROVE  UNCHANGED innboks
    BY <2>2 DEF innboksVars, ValideringGaar, Valider, SendKlar, PubliserValidering,
       KvitterInnboks, ValideringFeiler
  <2>3. ASSUME NEW d, DekomponeringGaar(d) \/ DekomponeringFeiler(d)
        PROVE  UNCHANGED innboks
    BY <2>3 DEF innboksVars, DekomponeringGaar, Plan, Lagre, PubliserDekomponering,
       KvitterKlar, DekomponeringFeiler
  <2> QED
    BY <2>1, <2>2, <2>3 DEF Next, vars, innboksVars, HentInnboks, Revalider, HentKlar,
       VinduUtlop, Forkast, Fullfor
<1> QED
  BY <1>0, <1>1, <1>2

LEMMA EntitetKlient ==
    ASSUME Typet, Entiteter, [Next]_vars, NEW r \in Foresporsler,
           klient'[r].steg \in {"knytt", "dispatch", "marker", "publiser"}
    PROVE  Kjent(Naa(r))'
<1> DEFINE c == Naa(r)
<1>0. c \in Kommandoer
  BY NaaType DEF Typet
<1>1. ASSUME klient'[r].nr = klient[r].nr, Kjent(c)
      PROVE  Kjent(Naa(r))'
  <2>1. \A e \in Minter(Payload[c]) : entitet'[e[1]] # "ingen"
    BY <1>0, <1>1, EntitetVarig, RefType DEF Kjent
  <2> QED
    BY <1>1, <2>1 DEF Kjent, Naa
<1>2. CASE klient'[r] = klient[r]
  BY <1>1, <1>2 DEF Entiteter, Registrerte
<1>3. CASE KnyttSak(r) \/ Dispatch(r) \/ MarkerDispatchet(r)
  BY <1>1, <1>3 DEF Typet, TypeOK, KnyttSak, Dispatch, MarkerDispatchet, Ingest, Besvar,
     Entiteter, Registrerte
<1>4. CASE RegistrerEntiteter(r)
  BY <1>4, EtterRegistrering
<1>5. CASE Send(r) \/ Registrer(r) \/ PubliserMottatt(r) \/ IngestFeiler(r)
  BY <1>5 DEF Typet, TypeOK, Send, Registrer, PubliserMottatt, IngestFeiler, Ingest,
     Neste, Besvar
<1>6. ASSUME NEW q \in Foresporsler, q # r, Send(q) \/ IngestGaar(q) \/ IngestFeiler(q)
      PROVE  klient'[r] = klient[r]
  BY <1>6 DEF Typet, TypeOK, IngestGaar, Send, Registrer, RegistrerEntiteter, KnyttSak,
     Dispatch, MarkerDispatchet, PubliserMottatt, IngestFeiler, Ingest, Neste, Besvar
<1>7. ASSUME NEW v, \/ \E m \in innboks : HentInnboks(v, m)
                    \/ \E k \in Kommandoer : Revalider(v, k)
                    \/ ValideringGaar(v) \/ ValideringFeiler(v)
      PROVE  UNCHANGED klient
  BY <1>7 DEF HentInnboks, Revalider, ValideringGaar, Valider, SendKlar,
     PubliserValidering, KvitterInnboks, ValideringFeiler
<1>8. ASSUME NEW d, \/ \E m \in klar : HentKlar(d, m)
                    \/ DekomponeringGaar(d) \/ DekomponeringFeiler(d)
      PROVE  UNCHANGED klient
  BY <1>8 DEF HentKlar, DekomponeringGaar, Plan, Lagre, PubliserDekomponering,
     KvitterKlar, DekomponeringFeiler
<1>9. ASSUME NEW k \in Kommandoer, VinduUtlop(k) \/ Forkast(k) \/ Fullfor(k)
      PROVE  UNCHANGED klient
  BY <1>9 DEF VinduUtlop, Forkast, Fullfor
<1> QED
  BY <1>2, <1>3, <1>4, <1>5, <1>6, <1>7, <1>8, <1>9 DEF Next, vars, IngestGaar

LEMMA EntitetVal ==
    ASSUME Typet, Entiteter, [Next]_vars, NEW v \in Handterere
    PROVE  /\ validator'[v].steg # "ledig" => Kjent(validator[v].kmd)'
           /\ validator'[v].steg = "send" => Sakskjent(validator[v].kmd)'
<1>1. CASE validator'[v] = validator[v]
  <2>1. validator[v].steg # "ledig" => validator[v].kmd \in Kommandoer
    BY DEF Typet, ValKmd
  <2> DEFINE c == validator[v].kmd
  <2>2. validator[v].steg # "ledig" => \A e \in Minter(Payload[c]) : entitet'[e[1]] # "ingen"
    BY <2>1, EntitetVarig, RefType DEF Entiteter, Registrerte, Kjent
  <2>3. validator[v].steg = "send" => Payload[c].nummer \/ entitet'[Payload[c].sak] # "ingen"
    BY <2>1, EntitetVarig, RefType DEF Entiteter, Registrerte, Sakskjent
  <2> QED
    BY <1>1, <2>2, <2>3 DEF Kjent, Sakskjent
<1>2. ASSUME NEW c \in Kommandoer, Kjent(c), validator'[v].kmd = c,
             validator'[v].steg = "send" => Sakskjent(c)
      PROVE  /\ validator'[v].steg # "ledig" => Kjent(validator[v].kmd)'
             /\ validator'[v].steg = "send" => Sakskjent(validator[v].kmd)'
  BY <1>2, KjentVarig DEF Kjent, Sakskjent
<1>3. CASE validator'[v].steg = "ledig"
  BY <1>3
<1>4. CASE \E m \in innboks : HentInnboks(v, m)
  <2> PICK m \in innboks : HentInnboks(v, m)
    BY <1>4
  <2>1. m[1] \in Kommandoer /\ Kjent(m[1])
    BY DEF Typet, TypeOK, Meldinger, Entiteter, Registrerte
  <2>2. validator'[v].kmd = m[1] /\ validator'[v].steg = "valider"
    BY DEF Typet, TypeOK, HentInnboks
  <2> QED
    BY <1>2, <2>1, <2>2
<1>5. CASE \E c \in Kommandoer : Revalider(v, c)
  <2> PICK c \in Kommandoer : Revalider(v, c)
    BY <1>5
  <2>1. Paa(innboks, c)
    BY AntallPaa DEF Revalider
  <2>2. Kjent(c)
    BY <2>1 DEF Paa, Entiteter, Registrerte
  <2>3. validator'[v].kmd = c /\ validator'[v].steg = "valider"
    BY DEF Typet, TypeOK, Revalider
  <2> QED
    BY <1>2, <2>2, <2>3
<1>6. CASE Valider(v) \/ SendKlar(v) \/ (v \notin Operatorer /\ PubliserValidering(v))
  <2> DEFINE c == validator[v].kmd
  <2>1. c \in Kommandoer /\ Kjent(c)
    BY <1>6 DEF Typet, ValKmd, Entiteter, Registrerte, Valider, SendKlar, PubliserValidering
  <2>2. validator'[v].kmd = c
    BY <1>6 DEF Typet, TypeOK, Valider, SendKlar, PubliserValidering, Viderefor
  <2>3. validator'[v].steg = "send" => Valider(v) /\ Godkjent(Payload[c])
    BY <1>6 DEF Typet, TypeOK, Valider, SendKlar, PubliserValidering, Viderefor
  <2>4. Godkjent(Payload[c]) => Sakskjent(c)
    <3>1. CASE Payload[c].type = "opprett_sak"
      BY <2>1, <3>1, MottakAntagelse DEF ErPayload, Kjent, Sakskjent, Minter
    <3>2. CASE Payload[c].type # "opprett_sak"
      BY <3>2 DEF Godkjent, Sakskjent
    <3> QED
      BY <3>1, <3>2
  <2> QED
    BY <1>2, <2>1, <2>2, <2>3, <2>4
<1>7. ASSUME NEW w \in Handterere, w # v,
             \/ validator' = [validator EXCEPT ![w] = LedigVal]
             \/ \E m \in innboks : HentInnboks(w, m)
             \/ \E c \in Kommandoer : Revalider(w, c)
             \/ Valider(w) \/ SendKlar(w)
             \/ w \notin Operatorer /\ PubliserValidering(w)
      PROVE  validator'[v] = validator[v]
  BY <1>7 DEF Typet, TypeOK, HentInnboks, Revalider, Valider, SendKlar,
     PubliserValidering, Viderefor
<1>8. validator' = [validator EXCEPT ![v] = LedigVal] => validator'[v].steg = "ledig"
  BY DEF Typet, TypeOK, LedigVal
<1> QED
  BY <1>1, <1>3, <1>4, <1>5, <1>6, <1>7, <1>8, ValEndring

LEMMA EntitetKlar ==
    ASSUME Typet, Entiteter, [Next]_vars
    PROVE  \A m \in klar' : Kjent(m[1])' /\ Sakskjent(m[1])'
<1>0. ASSUME NEW m \in klar
      PROVE  Kjent(m[1])' /\ Sakskjent(m[1])'
  BY KjentVarig, KlarKjent DEF Typet, TypeOK, Meldinger, Entiteter
<1>1. ASSUME NEW v \in Handterere, SendKlar(v)
      PROVE  \A m \in klar' : Kjent(m[1])' /\ Sakskjent(m[1])'
  <2> DEFINE c == validator[v].kmd
  <2>1. c \in Kommandoer /\ Kjent(c) /\ Sakskjent(c)
    BY <1>1 DEF SendKlar, Typet, ValKmd, Entiteter, Registrerte
  <2>2. \A m \in klar' : m \in klar \/ m[1] = c
    BY <1>1 DEF SendKlar, TilKlar
  <2> HIDE DEF c
  <2>3. Kjent(c)' /\ Sakskjent(c)'
    BY <1>1, <2>1, EntitetVarig, RefType DEF c, Kjent, Sakskjent, SendKlar, Viderefor, Typet, TypeOK
  <2>4. c' = c
    BY <1>1 DEF c, SendKlar, Viderefor, Typet, TypeOK
  <2> QED
    BY <1>0, <2>2, <2>3, <2>4 DEF Kjent, Sakskjent
<1> QED
  BY <1>0, <1>1, KlarEndring DEF KvitterKlar, klarVars

LEMMA EntiteterSteg == Typet /\ Entiteter /\ [Next]_vars => Entiteter'
<1> SUFFICES ASSUME Typet, Entiteter, [Next]_vars
             PROVE  Entiteter'
  OBVIOUS
<1>1. \A r \in Foresporsler :
         klient'[r].steg \in {"knytt", "dispatch", "marker", "publiser"} => Kjent(Naa(r))'
  BY EntitetKlient
<1>2. Registrerte'
  BY <1>1, EntitetInnboks, EntitetVal DEF Registrerte
<1>3. KlarHarEntitet'
  BY EntitetKlar DEF KlarHarEntitet, Kjent, Sakskjent
<1> QED
  BY <1>2, <1>3 DEF Entiteter

LEMMA EntiteterInit == Init => Entiteter
BY DEF Init, Entiteter, Registrerte, KlarHarEntitet, LedigVal

\* What reaches decomposition has its entities: validation let nothing through
\* that ingest had not registered.
THEOREM KlarHarEntitetHolder == Spec => []KlarHarEntitet
BY TypetInit, TypetSteg, EntiteterInit, EntiteterSteg, PTL DEF Spec, Entiteter

\* On the ready stream every entity of a command is settled, and the plan of it
\* is the same whenever it is made.
LEMMA PlanStaar ==
    ASSUME Typet, Entiteter, [Next]_vars, NEW c \in Kommandoer, Paa(klar, c)
    PROVE  Planlegges(Payload[c])' <=> Planlegges(Payload[c])
<1>1. Kjent(c) /\ Sakskjent(c)
  BY KlarKjent DEF Paa, Entiteter
<1>2. \A e \in Minter(Payload[c]) : entitet'[e[1]] = entitet[e[1]]
  BY <1>1, EntitetVarig, RefType DEF Kjent
<1>3. Payload[c].nummer \/ entitet'[Payload[c].sak] = entitet[Payload[c].sak]
  BY <1>1, EntitetVarig, RefType DEF Sakskjent
<1> QED
  BY <1>2, <1>3 DEF Planlegges

Planlagt ==
    /\ \A c \in dekomponert : Paa(klar, c) /\ Planlegges(Payload[c])
    /\ \A c \in Kommandoer : "feilet" \in strom[c] => Paa(klar, c) /\ ~Planlegges(Payload[c])
    /\ \A d \in Dekomponerere :
         /\ dekomponerer[d].steg \in {"lagre", "publiser_utfores"}
              => Planlegges(Payload[dekomponerer[d].kmd])
         /\ dekomponerer[d].steg = "publiser_feilet"
              => ~Planlegges(Payload[dekomponerer[d].kmd])

\* A listener at work has a message of its command.
LEMMA DekPaa ==
    ASSUME Typet, NEW d \in Dekomponerere, dekomponerer[d].steg # "ledig"
    PROVE  dekomponerer[d].kmd \in Kommandoer /\ Paa(klar, dekomponerer[d].kmd)
BY DEF Typet, DekKmd, Paa

\* Only decomposition tells Feilet.
LEMMA AndreFortellinger ==
    ASSUME Typet, NEW k, NEW h, h # "feilet", Fortell(k, h), NEW c \in Kommandoer,
           "feilet" \in strom'[c]
    PROVE  "feilet" \in strom[c]
BY DEF Fortell, Typet, TypeOK

LEMMA PlanlagtRader ==
    ASSUME Typet, Entiteter, Planlagt, [Next]_vars
    PROVE  /\ \A c \in dekomponert' : Paa(klar, c) /\ Planlegges(Payload[c])
           /\ \A c \in Kommandoer : "feilet" \in strom'[c] => Paa(klar, c) /\ ~Planlegges(Payload[c])
<1> DEFINE G == /\ \A c \in dekomponert' : Paa(klar, c) /\ Planlegges(Payload[c])
                /\ \A c \in Kommandoer : "feilet" \in strom'[c] => Paa(klar, c) /\ ~Planlegges(Payload[c])
<1>0. /\ \A c \in dekomponert : Paa(klar, c) /\ Planlegges(Payload[c])
      /\ \A c \in Kommandoer : "feilet" \in strom[c] => Paa(klar, c) /\ ~Planlegges(Payload[c])
  BY DEF Planlagt
<1> USE DEF dbVars
<1>1. ASSUME NEW r \in Foresporsler, Send(r) \/ IngestGaar(r) \/ IngestFeiler(r)
      PROVE  G
  <2>1. /\ UNCHANGED dekomponert
        /\ \A c \in Kommandoer : "feilet" \in strom'[c] => "feilet" \in strom[c]
    BY <1>1, AndreFortellinger DEF IngestGaar, Send, Registrer, RegistrerEntiteter, KnyttSak,
       Dispatch, MarkerDispatchet, PubliserMottatt, IngestFeiler
  <2> QED
    BY <1>0, <2>1
<1>2. ASSUME NEW v, \/ \E m \in innboks : HentInnboks(v, m)
                    \/ \E c \in Kommandoer : Revalider(v, c)
                    \/ ValideringGaar(v) \/ ValideringFeiler(v)
      PROVE  G
  <2>1. /\ UNCHANGED dekomponert
        /\ \A c \in Kommandoer : "feilet" \in strom'[c] => "feilet" \in strom[c]
    BY <1>2, AndreFortellinger DEF HentInnboks, Revalider, ValideringGaar, Valider, SendKlar,
       PubliserValidering, KvitterInnboks, ValideringFeiler
  <2> QED
    BY <1>0, <2>1
<1>3. ASSUME NEW d \in Dekomponerere, Lagre(d)
      PROVE  G
  <2> DEFINE k == dekomponerer[d].kmd
  <2>1. k \in Kommandoer /\ Paa(klar, k) /\ Planlegges(Payload[k])
    BY <1>3, DekPaa DEF Lagre, Planlagt
  <2>2. (\A c \in dekomponert' : c \in dekomponert \/ c = k) /\ UNCHANGED strom
    BY <1>3 DEF Lagre
  <2> QED
    BY <1>0, <2>1, <2>2
<1>4. ASSUME NEW d \in Dekomponerere, PubliserDekomponering(d)
      PROVE  G
  <2> DEFINE k == dekomponerer[d].kmd
  <2>1. k \in Kommandoer /\ Paa(klar, k)
    BY <1>4, DekPaa DEF PubliserDekomponering
  <2>2. dekomponerer[d].steg = "publiser_feilet" => ~Planlegges(Payload[k])
    BY DEF Planlagt
  <2>3. UNCHANGED dekomponert
    BY <1>4 DEF PubliserDekomponering
  <2>4. \A c \in Kommandoer : "feilet" \in strom'[c] =>
           "feilet" \in strom[c] \/ (c = k /\ dekomponerer[d].steg = "publiser_feilet")
    BY <1>4, <2>1 DEF PubliserDekomponering, Fortell, Typet, TypeOK
  <2> QED
    BY <1>0, <2>1, <2>2, <2>3, <2>4
<1>5. ASSUME NEW d, \/ \E m \in klar : HentKlar(d, m)
                    \/ Plan(d) \/ KvitterKlar(d) \/ DekomponeringFeiler(d)
      PROVE  G
  <2>1. UNCHANGED <<dekomponert, strom>>
    BY <1>5 DEF HentKlar, Plan, KvitterKlar, DekomponeringFeiler
  <2> QED
    BY <1>0, <2>1
<1>6. ASSUME NEW k \in Kommandoer, VinduUtlop(k) \/ Forkast(k) \/ Fullfor(k)
      PROVE  G
  <2>1. /\ UNCHANGED dekomponert
        /\ \A c \in Kommandoer : "feilet" \in strom'[c] => "feilet" \in strom[c]
    BY <1>6, AndreFortellinger DEF VinduUtlop, Forkast, Fullfor
  <2> QED
    BY <1>0, <2>1
<1> QED
  BY <1>0, <1>1, <1>2, <1>3, <1>4, <1>5, <1>6 DEF Next, vars, DekomponeringGaar

LEMMA PlanlagtDek ==
    ASSUME Typet, Entiteter, Planlagt, [Next]_vars, NEW d \in Dekomponerere
    PROVE  /\ dekomponerer'[d].steg \in {"lagre", "publiser_utfores"}
                => Planlegges(Payload[dekomponerer[d].kmd])'
           /\ dekomponerer'[d].steg = "publiser_feilet"
                => ~Planlegges(Payload[dekomponerer[d].kmd])'
<1> DEFINE k == dekomponerer[d].kmd
           Ja == Planlegges(Payload[k])
\* The listener's command and verdict, read before the step.
<1>1. ASSUME dekomponerer[d].steg # "ledig", dekomponerer'[d].kmd = k,
             dekomponerer'[d].steg \in {"lagre", "publiser_utfores"} => Planlegges(Payload[k]),
             dekomponerer'[d].steg = "publiser_feilet" => ~Planlegges(Payload[k])
      PROVE  /\ dekomponerer'[d].steg \in {"lagre", "publiser_utfores"}
                  => Planlegges(Payload[dekomponerer[d].kmd])'
             /\ dekomponerer'[d].steg = "publiser_feilet"
                  => ~Planlegges(Payload[dekomponerer[d].kmd])'
  <2>1. PICK c \in Kommandoer : c = k /\ Paa(klar, c)
    BY <1>1, DekPaa
  <2>2. Planlegges(Payload[c])' <=> Planlegges(Payload[c])
    BY <2>1, PlanStaar
  <2> QED
    BY <1>1, <2>1, <2>2 DEF Planlegges
<1>2. CASE dekomponerer'[d] = dekomponerer[d]
  <2>1. CASE dekomponerer[d].steg = "ledig"
    BY <1>2, <2>1
  <2>2. CASE dekomponerer[d].steg # "ledig"
    BY <1>1, <1>2, <2>2 DEF Planlagt
  <2> QED
    BY <2>1, <2>2
<1>3. CASE dekomponerer'[d].steg \in {"ledig", "plan", "kvitter"}
  BY <1>3
<1>4. CASE Plan(d)
  BY <1>1, <1>4 DEF Plan, GaarTil, Typet, TypeOK
<1>5. CASE Lagre(d)
  BY <1>1, <1>5 DEF Lagre, GaarTil, Typet, TypeOK, Planlagt
<1>6. /\ dekomponerer' = [dekomponerer EXCEPT ![d] = LedigDek] => dekomponerer'[d].steg = "ledig"
      /\ (\E m \in klar : HentKlar(d, m)) => dekomponerer'[d].steg = "plan"
      /\ PubliserDekomponering(d) => dekomponerer'[d].steg = "kvitter"
  BY DEF LedigDek, HentKlar, PubliserDekomponering, GaarTil, Typet, TypeOK
<1>7. ASSUME NEW e \in Dekomponerere, e # d,
             \/ dekomponerer' = [dekomponerer EXCEPT ![e] = LedigDek]
             \/ \E m \in klar : HentKlar(e, m)
             \/ Plan(e) \/ Lagre(e) \/ PubliserDekomponering(e)
      PROVE  dekomponerer'[d] = dekomponerer[d]
  BY <1>7 DEF HentKlar, Plan, Lagre, PubliserDekomponering, GaarTil, Typet, TypeOK
<1> QED
  BY <1>2, <1>3, <1>4, <1>5, <1>6, <1>7, DekEndring

LEMMA PlanlagtSteg == Typet /\ Entiteter /\ Planlagt /\ [Next]_vars => Planlagt'
<1> SUFFICES ASSUME Typet, Entiteter, Planlagt, [Next]_vars
             PROVE  Planlagt'
  OBVIOUS
<1>0. dekomponert' \subseteq Kommandoer /\ klar \subseteq klar'
  BY TypetSteg, StrommerVokser DEF Typet, TypeOK
<1>1. ASSUME NEW c \in Kommandoer, Paa(klar, c)
      PROVE  Paa(klar, c)' /\ (Planlegges(Payload[c])' <=> Planlegges(Payload[c]))
  BY <1>0, <1>1, PlanStaar DEF Paa
<1>2. \A c \in dekomponert' : Paa(klar, c)' /\ Planlegges(Payload[c])'
  BY <1>0, <1>1, PlanlagtRader
<1>3. \A c \in Kommandoer : "feilet" \in strom'[c] => Paa(klar, c)' /\ ~Planlegges(Payload[c])'
  BY <1>1, PlanlagtRader
<1>4. \A d \in Dekomponerere :
         /\ dekomponerer'[d].steg \in {"lagre", "publiser_utfores"}
              => Planlegges(Payload[dekomponerer[d].kmd])'
         /\ dekomponerer'[d].steg = "publiser_feilet"
              => ~Planlegges(Payload[dekomponerer[d].kmd])'
  BY PlanlagtDek
<1> QED
  BY <1>2, <1>3, <1>4 DEF Planlagt

\* A permanent failure that decomposition has told is not contradicted by any
\* later delivery: the plan it refused is refused for ever.
THEOREM FeiletStaarHolder == Spec => []FeiletStaar
<1>1. Init => Planlagt
  BY DEF Init, Planlagt, LedigDek
<1>2. Typet /\ Planlagt => FeiletStaar
  BY DEF Planlagt, FeiletStaar, Typet, TypeOK
<1> QED
  BY TypetInit, TypetSteg, EntiteterInit, EntiteterSteg, PlanlagtSteg, <1>1, <1>2, PTL DEF Spec

\* What is decided stays decided, whatever is redelivered, repeated or retried.
THEOREM AvgjortStaarHolder == Spec => AvgjortStaar
BY MottakTyper, KlarHarEntitetHolder, FeiletStaarHolder, ForkastetErEndeligHolder, PTL
   DEF AvgjortStaar
=============================================================================
