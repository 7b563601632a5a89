----------------------------- MODULE AdminBevis ------------------------------
(***************************************************************************)
(* The operator's side, for every set of commands, operations and cases    *)
(* and every course of requests, work and failures: a refusal has changed  *)
(* nothing, an ok has released all it saw failed, what is unresolved stops  *)
(* every release on its case, and what a read shows was so at one moment.  *)
(*                                                                         *)
(* A loop keeps what it read while the rows go on.  The invariant says of  *)
(* each loop, at each place in its request, how what it keeps relates to   *)
(* the rows now; Framgang says all that the rest of the system can do to   *)
(* the rows meanwhile.                                                     *)
(***************************************************************************)
EXTENDS Adminflate, FiniteSetTheorems, TLAPS

Lesere == {"HentCommand", "HentSak"}
Frigivere == {"RetryCommands", "RetrySak"}
Stegene == {"ledig", "les", "les_fakta", "les_ops", "velg", "handle", "original",
            "valider", "forkast"}
Rad == [Operasjoner -> Status \cup {Nei}]
Sakene == {SakAv[c] : c \in Kommando} \cup {Nei}
Forespurt == (UNION {F.foresporsler : F \in Forlop}) \cup {Nei}

Post == [handling : {"Revalider", "IngenEndring", "FrigiOperasjoner"},
         sak : Sakene, feilet : SUBSET Operasjoner]
Planer == UNION {[C -> Post] : C \in SUBSET Kommando}

Innhold == [dekomponert : BOOLEAN, ops : SUBSET Operasjoner,
            utfall : {"fullfort", "feilet", "krever_avklaring", "uavklart"}]
Lesninger == UNION {[C -> Innhold] : C \in SUBSET Kommando}

Lokke == [f : Forespurt, steg : Stegene, valgt : SUBSET (Kommando \cup {Nei}),
          plan : Planer, igjen : SUBSET Kommando, mangler : SUBSET Kommando,
          snap : Rad \cup {<< >>}, lest : Lesninger,
          gjort : SUBSET (Operasjoner \cup Kommando), frigitt : SUBSET Operasjoner,
          utfall : Utfallene]

\* The fields of a loop at its places: which route it is, what it has done.
PaaPlass(r, x) ==
    /\ x.steg = "velg" => r = "RetrySak" /\ DOMAIN x.plan = {}
    /\ x.steg \in {"handle", "original", "valider"} => r \in Frigivere
    /\ x.steg = "forkast" => r = "ForkastCommands"
    /\ x.steg \in {"les", "les_fakta", "les_ops"} => r \in Lesere
    /\ x.steg # "ledig" => x.utfall = "ingen"
    /\ x.steg \notin {"ledig", "valider"} => x.gjort = {}
    /\ IsFiniteSet(x.valgt)

\* What a plan says of a command c whose rows are now in o.
PlanGjelder(x, c, o) ==
    /\ x.plan[c].handling # "Revalider" => x.plan[c].sak = SakAv[c]
    /\ x.plan[c].feilet \subseteq OpsAv[c]
    /\ x.plan[c].feilet # {} => x.plan[c].handling = "FrigiOperasjoner"
    /\ \A p \in x.plan[c].feilet : o[p] = "feilet" \/ p \in x.frigitt

\* What a release owes a command c.
Skyldig(x, c) ==
    /\ x.plan[c].feilet \subseteq x.frigitt
    /\ x.plan[c].handling = "Revalider" => c \in x.gjort \cup x.igjen

PlanOK(x, o) ==
    /\ x.steg \in {"original", "valider"} =>
           /\ x.valgt \subseteq Kommando
           /\ Cardinality(x.valgt) <= MAKS_COMMANDS_PER_RETRY
           /\ DOMAIN x.plan = x.valgt /\ x.igjen \subseteq x.valgt
    /\ x.steg = "original" => \A c \in x.valgt : PlanGjelder(x, c, o)
    /\ x.steg = "valider" => \A c \in x.valgt : Skyldig(x, c)

\* A snapshot is behind the rows, never beside them.
Bevart(s, o) ==
    /\ s \in Rad
    /\ \A p \in Operasjoner : s[p] = "ok" => o[p] = "ok"
    /\ \A c \in Kommando : Rader(c, s) # {} => Rader(c, o) = Rader(c, s)

LestOK(x, o) ==
    /\ x.steg \in {"les_fakta", "les_ops"} => Bevart(x.snap, o)
    /\ x.steg = "les_ops" => \A c \in DOMAIN x.lest :
           x.lest[c].dekomponert <=> Rader(c, x.snap) # {}

FullfortI(c, o) == Rader(c, o) # {} /\ \A p \in Rader(c, o) : o[p] = "ok"

\* The three properties of an answer, of one loop.
SvarOK(r, x, o) ==
    /\ x.utfall \notin {"ingen", "ok", "intern_feil"} => x.gjort = {}
    /\ r \in Frigivere /\ x.utfall = "ok" => \A c \in DOMAIN x.plan :
           /\ x.plan[c].feilet \subseteq x.frigitt
           /\ x.plan[c].handling = "Revalider" => c \in x.gjort
    /\ r \in Lesere /\ x.utfall = "ok" => \A c \in DOMAIN x.lest :
           /\ x.lest[c].dekomponert <=> x.lest[c].ops # {}
           /\ x.lest[c].utfall = "fullfort" => FullfortI(c, o)

Gyldig(r, x, o) ==
    /\ x \in Lokke
    /\ PaaPlass(r, x) /\ PlanOK(x, o) /\ LestOK(x, o) /\ SvarOK(r, x, o)

Felles ==
    /\ op \in Rad
    /\ koblet \subseteq Kommando /\ forkastet \subseteq Kommando /\ validert \subseteq Kommando
    /\ forlop \in Forlop /\ lytter \subseteq Ruter
    /\ antall \in 0..forlop.antall /\ feil \in 0..forlop.feil

\* The inductive invariant.
Sant ==
    /\ Felles
    /\ DOMAIN b = Ruter
    /\ \A r \in Ruter : Gyldig(r, b[r], op)

----------------------------------------------------------------------------
(* What the invariant gives                                                *)

LEMMA SantGirEgenskapene == Sant => SvaretErSant /\ LesingErSann
<1> SUFFICES ASSUME Sant PROVE SvaretErSant /\ LesingErSann
  OBVIOUS
<1>1. TypeOK
  <2>1. \A r \in Ruter : b[r].utfall \in Utfallene
    BY DEF Sant, Gyldig, Lokke
  <2>2. \A r \in Ruter : b[r].steg \in {"original", "valider"} =>
              /\ b[r].valgt \subseteq Kommando
              /\ Cardinality(b[r].valgt) <= MAKS_COMMANDS_PER_RETRY
              /\ DOMAIN b[r].plan = b[r].valgt /\ b[r].igjen \subseteq b[r].valgt
    BY DEF Sant, Gyldig, PlanOK
  <2> QED
    BY <2>1, <2>2 DEF Sant, Felles, TypeOK, Rad
<1>2. AvvistErUrort
  BY DEF Sant, Gyldig, SvarOK, AvvistErUrort
<1>3. OkHarVirket
  BY DEF Sant, Gyldig, SvarOK, OkHarVirket, Frigivere, Ruter
<1>4. LestErEttOyeblikk
  BY DEF Sant, Gyldig, SvarOK, LestErEttOyeblikk, Lesere, Ruter
<1>5. FullfortErEndelig
  BY DEF Sant, Gyldig, SvarOK, FullfortErEndelig, Lesere, Ruter, FullfortI, Fullfort
<1> QED
  BY <1>1, <1>2, <1>3, <1>4, <1>5 DEF SvaretErSant, LesingErSann

----------------------------------------------------------------------------
(* The data                                                                *)

LEMMA TomFunksjon == ASSUME NEW S PROVE << >> \in [{} -> S]
  OBVIOUS

LEMMA TommePlaner == << >> \in Planer /\ << >> \in Lesninger /\ DOMAIN << >> = {}
  BY TomFunksjon DEF Planer, Lesninger

LEMMA RekkeEndelig == ASSUME NEW S, NEW s \in Seq(S) PROVE IsFiniteSet(Range(s))
<1>1. s \in Seq(Range(s))
  BY DEF Range
<1>2. \A e \in Range(s) : \E n \in 1..Len(s) : s[n] = e
  BY DEF Range
<1> QED
  BY <1>1, <1>2 DEF IsFiniteSet

LEMMA KommandoEndelig == IsFiniteSet(Kommando)
  BY RekkeEndelig, AdminflateAntagelse DEF Kommando

LEMMA DelmengdeEndelig == ASSUME NEW C \in SUBSET Kommando PROVE IsFiniteSet(C)
  BY KommandoEndelig, FS_Subset

\* The command an operation belongs to.
LEMMA Eieren ==
    ASSUME NEW c \in Kommando, NEW o \in OpsAv[c]
    PROVE  o \in Operasjoner /\ KommandoTil(o) = c
<1>1. o \in Operasjoner
  BY DEF Operasjoner
<1>2. KommandoTil(o) \in Kommando /\ o \in OpsAv[KommandoTil(o)]
  BY DEF KommandoTil
<1> QED
  BY <1>1, <1>2, AdminflateAntagelse

LEMMA HarEier ==
    ASSUME NEW o \in Operasjoner
    PROVE  KommandoTil(o) \in Kommando /\ o \in OpsAv[KommandoTil(o)]
  BY DEF Operasjoner, KommandoTil

\* What the rows may go through while a loop is at its place: done stays done,
\* what has failed stays so except where F releases it, and a command that has
\* rows gets no others.
Framgang(o, n, F) ==
    /\ n \in Rad
    /\ \A p \in Operasjoner : o[p] = "ok" => n[p] = "ok"
    /\ \A p \in Operasjoner : o[p] = "feilet" => n[p] = "feilet" \/ p \in F
    /\ \A c \in Kommando : Rader(c, o) # {} => Rader(c, n) = Rader(c, o)

LEMMA BevartVidere ==
    ASSUME NEW s, NEW o \in Rad, NEW n, NEW F, Bevart(s, o), Framgang(o, n, F)
    PROVE  Bevart(s, n)
<1>1. \A p \in Operasjoner : s[p] = "ok" => n[p] = "ok"
  BY DEF Bevart, Framgang
<1>2. ASSUME NEW c \in Kommando, Rader(c, s) # {} PROVE Rader(c, n) = Rader(c, s)
  BY <1>2 DEF Bevart, Framgang
<1> QED
  BY <1>1, <1>2 DEF Bevart

LEMMA FullfortVidere ==
    ASSUME NEW c \in Kommando, NEW o \in Rad, NEW n, NEW F,
           FullfortI(c, o), Framgang(o, n, F)
    PROVE  FullfortI(c, n)
<1>1. Rader(c, o) # {} /\ Rader(c, n) = Rader(c, o)
  BY DEF FullfortI, Framgang
<1>2. ASSUME NEW p \in Rader(c, o) PROVE n[p] = "ok"
  <2>1. p \in Operasjoner /\ o[p] = "ok"
    BY <1>2 DEF FullfortI, Rader, Operasjoner
  <2> QED
    BY <2>1 DEF Framgang
<1> QED
  BY <1>1, <1>2 DEF FullfortI

\* A loop that is left where it is, while others move the rows and release F.
LEMMA LokkeVenter ==
    ASSUME NEW r \in Ruter, NEW x, NEW y, NEW o \in Rad, NEW n,
           NEW F \in SUBSET Operasjoner,
           Gyldig(r, x, o), Framgang(o, n, F),
           y = [x EXCEPT !.frigitt = @ \cup F]
    PROVE  Gyldig(r, y, n)
<1>1. /\ y \in Lokke /\ y.frigitt = x.frigitt \cup F
      /\ y.steg = x.steg /\ y.utfall = x.utfall /\ y.valgt = x.valgt /\ y.plan = x.plan
      /\ y.igjen = x.igjen /\ y.gjort = x.gjort /\ y.snap = x.snap /\ y.lest = x.lest
  BY DEF Gyldig, Lokke
<1>2. PaaPlass(r, y)
  BY <1>1 DEF Gyldig, PaaPlass
<1>3. PlanOK(y, n)
  <2>1. ASSUME y.steg = "original", NEW c \in y.valgt PROVE PlanGjelder(y, c, n)
    <3>1. PlanGjelder(x, c, o) /\ c \in Kommando
      BY <2>1, <1>1 DEF Gyldig, PlanOK
    <3>2. ASSUME NEW p \in y.plan[c].feilet PROVE n[p] = "feilet" \/ p \in y.frigitt
      <4>1. p \in Operasjoner
        BY <3>1, <3>2, <1>1 DEF PlanGjelder, Operasjoner
      <4> QED
        BY <4>1, <3>1, <3>2, <1>1 DEF PlanGjelder, Framgang
    <3> QED
      BY <3>1, <3>2, <1>1 DEF PlanGjelder
  <2>2. ASSUME y.steg = "valider", NEW c \in y.valgt PROVE Skyldig(y, c)
    BY <2>2, <1>1 DEF Gyldig, PlanOK, Skyldig
  <2> QED
    BY <2>1, <2>2, <1>1 DEF Gyldig, PlanOK
<1>4. LestOK(y, n)
  BY <1>1, BevartVidere DEF Gyldig, LestOK
<1>5. SvarOK(r, y, n)
  <2>1. ASSUME r \in Lesere, y.utfall = "ok", NEW c \in DOMAIN y.lest
        PROVE  /\ y.lest[c].dekomponert <=> y.lest[c].ops # {}
               /\ y.lest[c].utfall = "fullfort" => FullfortI(c, n)
    <3>1. c \in Kommando
      BY <2>1, <1>1 DEF Gyldig, Lokke, Lesninger
    <3> QED
      BY <2>1, <3>1, <1>1, FullfortVidere DEF Gyldig, SvarOK
  <2> QED
    BY <1>1, <2>1 DEF Gyldig, SvarOK
<1> QED
  BY <1>1, <1>2, <1>3, <1>4, <1>5 DEF Gyldig

\* Work and decomposition, and steps that leave the rows alone.
LEMMA StilleFramgang == ASSUME NEW o \in Rad PROVE Framgang(o, o, {})
  BY DEF Framgang

LEMMA ArbeidFramgang ==
    ASSUME op \in Rad, \E o \in Operasjoner : Arbeid(o)
    PROVE  Framgang(op, op', {})
<1> PICK o \in Operasjoner : Arbeid(o)
  OBVIOUS
<1> PICK ny \in Status : <<op[o], ny>> \in Overgang /\ op' = [op EXCEPT ![o] = ny]
  BY DEF Arbeid
<1>1. op[o] \in {"klar", "retry_venter", "sendt"} /\ op[o] # Nei /\ ny # Nei
  BY AdminflateAntagelse DEF Overgang, Status
<1>2. op' \in Rad /\ \A p \in Operasjoner : p # o => op'[p] = op[p]
  BY DEF Rad
<1>3. \A p \in Operasjoner : op'[p] # Nei <=> op[p] # Nei
  BY <1>1, <1>2 DEF Rad
<1>4. \A c \in Kommando : Rader(c, op') = Rader(c, op)
  BY <1>3 DEF Rader, Operasjoner
<1> QED
  BY <1>1, <1>2, <1>4 DEF Framgang

LEMMA DekomponerFramgang ==
    ASSUME op \in Rad, \E c \in Kommando : Dekomponer(c)
    PROVE  Framgang(op, op', {})
<1> PICK c \in Kommando : Dekomponer(c)
  OBVIOUS
<1>1. /\ op' = [o \in Operasjoner |-> IF o \in OpsAv[c] THEN "klar" ELSE op[o]]
      /\ Rader(c, op) = {}
  BY DEF Dekomponer
<1>2. \A o \in OpsAv[c] : op[o] = Nei
  BY <1>1 DEF Rader
<1>3. op' \in Rad
  BY <1>1 DEF Rad, Status
<1>4. \A p \in Operasjoner : op[p] \in {"ok", "feilet"} => op'[p] = op[p]
  BY <1>1, <1>2, AdminflateAntagelse DEF Status
<1>5. ASSUME NEW d \in Kommando, Rader(d, op) # {} PROVE Rader(d, op') = Rader(d, op)
  <2>1. d # c
    BY <1>1, <1>5
  <2>2. \A o \in OpsAv[d] : o \in Operasjoner /\ op'[o] = op[o]
    BY <2>1, <1>1, AdminflateAntagelse DEF Operasjoner
  <2> QED
    BY <2>2 DEF Rader
<1> QED
  BY <1>3, <1>4, <1>5 DEF Framgang

----------------------------------------------------------------------------
(* Steps that move one loop: what has to be shown of it                    *)

LEMMA EnLokke ==
    ASSUME Sant, NEW r \in Ruter, NEW x, b' = [b EXCEPT ![r] = x],
           UNCHANGED op, Gyldig(r, x, op), Felles'
    PROVE  Sant'
<1>1. DOMAIN b' = Ruter /\ b'[r] = x /\ \A q \in Ruter : q # r => b'[q] = b[q]
  BY DEF Sant
<1>2. \A q \in Ruter : Gyldig(q, b'[q], op')
  BY <1>1 DEF Sant
<1> QED
  BY <1>1, <1>2 DEF Sant

\* A refusal or a failure, with nothing done.
LEMMA AvslaattLokke ==
    ASSUME NEW r \in Ruter, NEW x, NEW o \in Rad, NEW u \in Utfallene, Gyldig(r, x, o),
           \/ x.steg \notin {"ledig", "valider"} /\ u # "ok"
           \/ u = "intern_feil"
    PROVE  Gyldig(r, [x EXCEPT !.steg = "ledig", !.utfall = u], o)
<1> DEFINE y == [x EXCEPT !.steg = "ledig", !.utfall = u]
<1>1. /\ y \in Lokke /\ y.steg = "ledig" /\ y.utfall = u
      /\ y.gjort = x.gjort /\ y.valgt = x.valgt
  BY DEF Gyldig, Lokke, Stegene
<1> HIDE DEF y
<1>2. PaaPlass(r, y) /\ PlanOK(y, o) /\ LestOK(y, o)
  BY <1>1 DEF Gyldig, PaaPlass, PlanOK, LestOK
<1>3. SvarOK(r, y, o)
  BY <1>1 DEF Gyldig, PaaPlass, SvarOK
<1>4. Gyldig(r, y, o)
  BY <1>1, <1>2, <1>3 DEF Gyldig
<1> QED
  BY <1>4 DEF y

----------------------------------------------------------------------------
(* The listener                                                            *)

LEMMA SantInit == Init => Sant
<1> SUFFICES ASSUME Init PROVE Sant
  OBVIOUS
<1>1. forlop \in Forlop /\ op = forlop.status /\ op \in Rad
  BY AdminflateAntagelse DEF Init, Rad
<1>2. Felles
  BY <1>1, AdminflateAntagelse DEF Init, Felles
<1>3. /\ Ledig \in Lokke /\ Ledig.steg = "ledig" /\ Ledig.utfall = "ingen"
      /\ Ledig.valgt = {} /\ Ledig.gjort = {}
  BY TommePlaner DEF Ledig, Lokke, Forespurt, Stegene, Utfallene
<1>4. IsFiniteSet({})
  BY FS_EmptySet
<1>5. \A r \in Ruter : Gyldig(r, Ledig, op)
  BY <1>3, <1>4 DEF Gyldig, PaaPlass, PlanOK, LestOK, SvarOK
<1> QED
  BY <1>2, <1>5 DEF Init, Sant

LEMMA MottaSteg == ASSUME Sant, NEW r \in Ruter, Motta(r) PROVE Sant'
<1> PICK f \in forlop.foresporsler :
        /\ f.rute = r /\ f.svarsubjekt
        /\ b' = [b EXCEPT ![r] =
                   [Ledig EXCEPT !.f = f, !.valgt = Range(f.ider),
                                 !.steg = IF f.gyldig THEN ForsteSteg(f) ELSE "ledig",
                                 !.utfall = IF f.gyldig THEN "ingen" ELSE "invalid_request"]]
  BY DEF Motta
<1> DEFINE x == [Ledig EXCEPT !.f = f, !.valgt = Range(f.ider),
                              !.steg = IF f.gyldig THEN ForsteSteg(f) ELSE "ledig",
                              !.utfall = IF f.gyldig THEN "ingen" ELSE "invalid_request"]
<1>1. f.ider \in Seq(Kommando \cup {Nei}) /\ f \in Forespurt
  BY AdminflateAntagelse DEF Sant, Felles, Forespurt
<1>2. IsFiniteSet(Range(f.ider)) /\ Range(f.ider) \subseteq Kommando \cup {Nei}
  BY <1>1, RekkeEndelig DEF Range
<1>3. /\ r = "RetrySak" => ForsteSteg(f) = "velg"
      /\ r = "RetryCommands" => ForsteSteg(f) = "handle"
      /\ r = "ForkastCommands" => ForsteSteg(f) = "forkast"
      /\ r \in Lesere => ForsteSteg(f) = "les"
  BY DEF ForsteSteg, Lesere
<1>4. ForsteSteg(f) \in {"les", "velg", "handle", "forkast"}
  BY <1>3 DEF Ruter, Lesere
<1>5. /\ x \in Lokke /\ x.valgt = Range(f.ider) /\ x.gjort = {} /\ x.frigitt = {}
      /\ x.plan = << >> /\ x.lest = << >>
      /\ x.steg = IF f.gyldig THEN ForsteSteg(f) ELSE "ledig"
      /\ x.utfall = IF f.gyldig THEN "ingen" ELSE "invalid_request"
  BY <1>1, <1>2, <1>4, TommePlaner DEF Ledig, Lokke, Stegene, Utfallene
<1> HIDE DEF x
<1>6. PaaPlass(r, x)
  BY <1>2, <1>3, <1>5, TommePlaner DEF PaaPlass, Ruter, Frigivere, Lesere
<1>7. PlanOK(x, op) /\ LestOK(x, op) /\ SvarOK(r, x, op)
  BY <1>4, <1>5 DEF PlanOK, LestOK, SvarOK
<1>8. Felles'
  BY AdminflateAntagelse DEF Sant, Felles, Motta, db
<1> QED
  BY <1>5, <1>6, <1>7, <1>8, EnLokke DEF Gyldig, Motta, db, x

LEMMA LytterSteg ==
    ASSUME Sant, (\E r \in Ruter : SubscriptionSlutter(r)) \/ RunOnce PROVE Sant'
<1>1. ASSUME NEW r \in Ruter, SubscriptionSlutter(r) PROVE Sant'
  <2>1. Felles'
    BY <1>1, AdminflateAntagelse DEF SubscriptionSlutter, Sant, Felles, db
  <2>2. ASSUME NEW q \in Ruter PROVE Gyldig(q, [b[q] EXCEPT !.steg = "ledig"], op)
    <3> DEFINE y == [b[q] EXCEPT !.steg = "ledig"]
    <3>1. Gyldig(q, b[q], op)
      BY DEF Sant
    <3>2. /\ y \in Lokke /\ y.steg = "ledig" /\ y.utfall = b[q].utfall /\ y.valgt = b[q].valgt
          /\ y.gjort = b[q].gjort /\ y.frigitt = b[q].frigitt
          /\ y.plan = b[q].plan /\ y.lest = b[q].lest
      BY <3>1 DEF Gyldig, Lokke, Stegene
    <3> HIDE DEF y
    <3>3. PaaPlass(q, y) /\ PlanOK(y, op) /\ LestOK(y, op) /\ SvarOK(q, y, op)
      BY <3>1, <3>2 DEF Gyldig, PaaPlass, PlanOK, LestOK, SvarOK
    <3>4. Gyldig(q, y, op)
      BY <3>2, <3>3 DEF Gyldig
    <3> QED
      BY <3>4 DEF y
  <2> QED
    BY <1>1, <2>1, <2>2 DEF SubscriptionSlutter, Sant, db
<1>2. CASE RunOnce
  BY <1>2 DEF RunOnce, Sant, Felles, db
<1> QED
  BY <1>1, <1>2

LEMMA TekniskSteg == ASSUME Sant, NEW r \in Ruter, Teknisk(r) PROVE Sant'
<1>1. Felles'
  BY AdminflateAntagelse DEF Teknisk, Svar, Videre, Sant, Felles, db
<1>2. Gyldig(r, [b[r] EXCEPT !.steg = "ledig", !.utfall = "intern_feil"], op)
  BY AvslaattLokke DEF Sant, Felles, Utfallene
<1> QED
  BY <1>1, <1>2, EnLokke DEF Teknisk, Svar, Videre, db

\* The rows go on beside the loops.
LEMMA ArbeidSteg ==
    ASSUME Sant, (\E c \in Kommando : Dekomponer(c)) \/ (\E o \in Operasjoner : Arbeid(o))
    PROVE  Sant'
<1>1. op \in Rad /\ Framgang(op, op', {})
  BY ArbeidFramgang, DekomponerFramgang DEF Sant, Felles
<1>2. UNCHANGED <<koblet, forkastet, validert, lytter, b, antall, feil, forlop>>
  BY DEF Dekomponer, Arbeid
<1>3. Felles'
  BY <1>1, <1>2 DEF Sant, Felles, Framgang
<1>4. ASSUME NEW r \in Ruter PROVE Gyldig(r, b[r], op')
  <2>1. Gyldig(r, b[r], op)
    BY DEF Sant
  <2>2. b[r] = [b[r] EXCEPT !.frigitt = @ \cup {}]
    BY <2>1 DEF Gyldig, Lokke
  <2> QED
    BY <1>1, <2>1, <2>2, LokkeVenter
<1> QED
  BY <1>2, <1>3, <1>4 DEF Sant

----------------------------------------------------------------------------
(* The reads                                                               *)

LEMMA LestVerdi ==
    ASSUME NEW C \in SUBSET Kommando, NEW o \in Rad
    PROVE  /\ Materialisert(C, o) \in Lesninger /\ DOMAIN Materialisert(C, o) = C
           /\ \A c \in C : Materialisert(C, o)[c].dekomponert <=> Rader(c, o) # {}
<1>1. Materialisert(C, o) \in [C -> Innhold]
  BY DEF Materialisert, Innhold
<1> QED
  BY <1>1 DEF Materialisert, Lesninger

LEMMA UtfallVerdi ==
    ASSUME NEW S
    PROVE  /\ Utfall(S) \in {"fullfort", "feilet", "krever_avklaring", "uavklart"}
           /\ Utfall(S) = "fullfort" => S = {"ok"}
  BY DEF Utfall

\* A read goes on: from its first query to the next, with nothing done.
LEMMA LeserVidere ==
    ASSUME NEW r \in Lesere, NEW x, NEW y, NEW o \in Rad, Gyldig(r, x, o),
           x.steg \in {"les", "les_fakta"},
           y \in Lokke, y.steg \in {"les_fakta", "les_ops"}, y.utfall = x.utfall,
           y.valgt = x.valgt, y.gjort = x.gjort, Bevart(y.snap, o),
           y.steg = "les_ops" => \A c \in DOMAIN y.lest :
               y.lest[c].dekomponert <=> Rader(c, y.snap) # {}
    PROVE  Gyldig(r, y, o)
<1>1. PaaPlass(r, y)
  BY DEF Gyldig, PaaPlass
<1>2. PlanOK(y, o) /\ LestOK(y, o)
  BY DEF PlanOK, LestOK
<1>3. SvarOK(r, y, o)
  BY <1>1 DEF Gyldig, PaaPlass, SvarOK
<1> QED
  BY <1>1, <1>2, <1>3 DEF Gyldig

LEMMA NaaErBevart == ASSUME NEW o \in Rad PROVE Bevart(o, o)
  BY DEF Bevart

LEMMA ForsteLesing ==
    ASSUME Sant, NEW r \in Ruter, LesCommand(r) \/ LesIdentitet(r) \/ LesFakta(r)
    PROVE  Sant'
<1>0. op \in Rad /\ Gyldig(r, b[r], op) /\ b[r] \in Lokke
  BY DEF Sant, Felles, Gyldig
<1>1. UNCHANGED op /\ Felles'
  BY DEF LesCommand, LesIdentitet, LesFakta, Svar, Videre, Sant, Felles, db
<1>2. Gyldig(r, [b[r] EXCEPT !.steg = "ledig", !.utfall = "not_found"], op)
      \/ b[r].steg \notin {"les", "les_fakta"}
  BY <1>0, AvslaattLokke DEF Utfallene
<1>3. CASE LesCommand(r)
  <2> DEFINE C == Range(b[r].f.ider) \cap Kommando
             y == [b[r] EXCEPT !.steg = "les_ops", !.snap = op, !.lest = Materialisert(C, op)]
  <2>1. b[r].steg = "les" /\ r \in Lesere
    BY <1>3 DEF LesCommand, Steg, Lesere
  <2>2. /\ y \in Lokke /\ y.steg = "les_ops" /\ y.utfall = b[r].utfall /\ y.snap = op
        /\ y.valgt = b[r].valgt /\ y.gjort = b[r].gjort /\ y.lest = Materialisert(C, op)
    BY <1>0, LestVerdi DEF Lokke, Stegene
  <2>3. \A c \in DOMAIN y.lest : y.lest[c].dekomponert <=> Rader(c, y.snap) # {}
    BY <1>0, <2>2, LestVerdi
  <2> HIDE DEF y, C
  <2>4. Gyldig(r, y, op)
    BY <1>0, <2>1, <2>2, <2>3, LeserVidere, NaaErBevart
  <2>5. \/ b' = [b EXCEPT ![r] = y]
        \/ b' = [b EXCEPT ![r] = [b[r] EXCEPT !.steg = "ledig", !.utfall = "not_found"]]
    BY <1>3 DEF LesCommand, Svar, Videre, y, C
  <2> QED
    BY <1>1, <1>2, <2>1, <2>4, <2>5, EnLokke
<1>4. CASE LesIdentitet(r)
  <2> DEFINE y == [b[r] EXCEPT !.steg = "les_fakta", !.snap = op]
  <2>1. b[r].steg = "les" /\ r \in Lesere
    BY <1>4 DEF LesIdentitet, Steg, Lesere
  <2>2. /\ y \in Lokke /\ y.steg = "les_fakta" /\ y.utfall = b[r].utfall /\ y.snap = op
        /\ y.valgt = b[r].valgt /\ y.gjort = b[r].gjort
    BY <1>0 DEF Lokke, Stegene
  <2> HIDE DEF y
  <2>4. Gyldig(r, y, op)
    BY <1>0, <2>1, <2>2, LeserVidere, NaaErBevart
  <2>5. \/ b' = [b EXCEPT ![r] = y]
        \/ b' = [b EXCEPT ![r] = [b[r] EXCEPT !.steg = "ledig", !.utfall = "not_found"]]
    BY <1>4 DEF LesIdentitet, Svar, Videre, y
  <2> QED
    BY <1>1, <1>2, <2>1, <2>4, <2>5, EnLokke
<1>5. CASE LesFakta(r)
  <2> DEFINE C == {c \in Kommando : SakAv[c] = b[r].f.sak}
             y == [b[r] EXCEPT !.steg = "les_ops", !.lest = Materialisert(C, b[r].snap)]
  <2>1. b[r].steg = "les_fakta" /\ r \in Lesere /\ Bevart(b[r].snap, op) /\ b[r].snap \in Rad
    BY <1>0, <1>5 DEF LesFakta, Steg, Gyldig, PaaPlass, LestOK, Bevart
  <2>2. /\ y \in Lokke /\ y.steg = "les_ops" /\ y.utfall = b[r].utfall /\ y.snap = b[r].snap
        /\ y.valgt = b[r].valgt /\ y.gjort = b[r].gjort
        /\ y.lest = Materialisert(C, b[r].snap)
    BY <1>0, <2>1, LestVerdi DEF Lokke, Stegene
  <2>3. \A c \in DOMAIN y.lest : y.lest[c].dekomponert <=> Rader(c, y.snap) # {}
    BY <2>1, <2>2, LestVerdi
  <2> HIDE DEF y, C
  <2>4. Gyldig(r, y, op)
    BY <1>0, <2>1, <2>2, <2>3, LeserVidere
  <2>5. b' = [b EXCEPT ![r] = y]
    BY <1>5 DEF LesFakta, Videre, Snapshot, y, C
  <2> QED
    BY <1>1, <2>4, <2>5, EnLokke
<1> QED
  BY <1>3, <1>4, <1>5

\* The last query: the snapshot's rows, which are behind those there are now.
LEMMA SisteLesing == ASSUME Sant, NEW r \in Ruter, LesOps(r) PROVE Sant'
<1>0. op \in Rad /\ Gyldig(r, b[r], op) /\ b[r] \in Lokke
  BY DEF Sant, Felles, Gyldig
<1>1. UNCHANGED op /\ Felles'
  BY DEF LesOps, Videre, Sant, Felles, db
<1>2. /\ b[r].steg = "les_ops" /\ r \in Lesere /\ b[r].gjort = {}
      /\ Bevart(b[r].snap, op) /\ b[r].snap \in Rad
      /\ \A c \in DOMAIN b[r].lest : b[r].lest[c].dekomponert <=> Rader(c, b[r].snap) # {}
  BY <1>0 DEF LesOps, Steg, Gyldig, PaaPlass, LestOK, Bevart
<1> DEFINE L == [c \in DOMAIN b[r].lest |-> TilResponse(b[r].lest[c], c, b[r].snap)]
<1> PICK u \in {"ok", "response_too_large"} :
        b' = [b EXCEPT ![r] = [b[r] EXCEPT !.steg = "ledig", !.utfall = u, !.lest = L]]
  BY DEF LesOps, Videre, Snapshot
<1>3. PICK C \in SUBSET Kommando : b[r].lest \in [C -> Innhold]
  BY <1>0 DEF Lokke, Lesninger
<1>4. ASSUME NEW c \in C
      PROVE  /\ L[c] \in Innhold /\ L[c].dekomponert = b[r].lest[c].dekomponert
             /\ L[c].ops = Rader(c, b[r].snap)
             /\ L[c].utfall = "fullfort" => FullfortI(c, op)
  <2> DEFINE S == {b[r].snap[p] : p \in Rader(c, b[r].snap)}
  <2>1. /\ L[c] = [b[r].lest[c] EXCEPT !.ops = Rader(c, b[r].snap), !.utfall = Utfall(S)]
        /\ b[r].lest[c] \in Innhold
    BY <1>3 DEF TilResponse
  <2>2. Rader(c, b[r].snap) \subseteq Operasjoner
    BY <1>3 DEF Rader, Operasjoner
  <2>3. ASSUME Utfall(S) = "fullfort" PROVE FullfortI(c, op)
    <3>1. S = {"ok"}
      BY <2>3, UtfallVerdi
    <3>2. Rader(c, b[r].snap) # {} /\ \A p \in Rader(c, b[r].snap) : b[r].snap[p] = "ok"
      BY <3>1
    <3> HIDE DEF S
    <3>3. Rader(c, op) = Rader(c, b[r].snap)
      BY <3>2, <1>2, <1>3 DEF Bevart
    <3> QED
      BY <3>2, <3>3, <2>2, <1>2 DEF Bevart, FullfortI
  <2> HIDE DEF S, L
  <2> QED
    BY <2>1, <2>2, <2>3, UtfallVerdi DEF Innhold
<1>5. L \in Lesninger /\ DOMAIN L = C
  <2>1. DOMAIN L = C
    BY <1>3
  <2>2. L \in [C -> Innhold]
    BY <1>3, <1>4, <2>1
  <2> QED
    BY <2>1, <2>2 DEF Lesninger
<1> HIDE DEF L
<1> DEFINE y == [b[r] EXCEPT !.steg = "ledig", !.utfall = u, !.lest = L]
<1>6. /\ y \in Lokke /\ y.steg = "ledig" /\ y.utfall = u /\ y.lest = L
      /\ y.gjort = {} /\ y.valgt = b[r].valgt
  BY <1>0, <1>2, <1>5 DEF Lokke, Stegene, Utfallene
<1> HIDE DEF y
<1>7. PaaPlass(r, y) /\ PlanOK(y, op) /\ LestOK(y, op)
  BY <1>0, <1>6 DEF Gyldig, PaaPlass, PlanOK, LestOK
<1>8. SvarOK(r, y, op)
  BY <1>2, <1>3, <1>4, <1>5, <1>6 DEF SvarOK, Lesere, Frigivere
<1>9. Gyldig(r, y, op)
  BY <1>6, <1>7, <1>8 DEF Gyldig
<1> QED
  BY <1>1, <1>9, EnLokke DEF y

----------------------------------------------------------------------------
(* The retry                                                               *)

LEMMA VelgSteg == ASSUME Sant, NEW r \in Ruter, HandleSak(r) PROVE Sant'
<1>0. op \in Rad /\ Gyldig(r, b[r], op) /\ b[r] \in Lokke
  BY DEF Sant, Felles, Gyldig
<1>1. UNCHANGED op /\ Felles'
  BY DEF HandleSak, Svar, Videre, Sant, Felles, db
<1>2. b[r].steg = "velg" /\ r = "RetrySak" /\ b[r].gjort = {} /\ b[r].utfall = "ingen"
  BY <1>0 DEF HandleSak, Steg, Gyldig, PaaPlass
<1>3. ASSUME NEW u \in {"not_found", "invalid_request"}
      PROVE  Gyldig(r, [b[r] EXCEPT !.steg = "ledig", !.utfall = u], op)
  BY <1>0, <1>2, AvslaattLokke DEF Utfallene
<1> DEFINE C == CommandsForSak(b[r].f.sak)
           y == [b[r] EXCEPT !.steg = "ledig", !.utfall = "ok"]
           z == [b[r] EXCEPT !.steg = "handle", !.valgt = C]
<1>4. C \subseteq Kommando /\ IsFiniteSet(C)
  BY DelmengdeEndelig DEF CommandsForSak
<1> HIDE DEF C
<1>5. Gyldig(r, z, op)
  <2>1. /\ z \in Lokke /\ z.steg = "handle" /\ z.valgt = C /\ z.utfall = "ingen"
        /\ z.gjort = {}
    BY <1>0, <1>2, <1>4 DEF Lokke, Stegene
  <2> HIDE DEF z
  <2>2. PaaPlass(r, z) /\ PlanOK(z, op) /\ LestOK(z, op) /\ SvarOK(r, z, op)
    BY <1>2, <1>4, <2>1 DEF PaaPlass, PlanOK, LestOK, SvarOK, Frigivere
  <2> QED
    BY <2>1, <2>2 DEF Gyldig
<1>6. Gyldig(r, y, op)
  <2>1. /\ y \in Lokke /\ y.steg = "ledig" /\ y.valgt = b[r].valgt /\ y.utfall = "ok"
        /\ y.gjort = {} /\ DOMAIN y.plan = {}
    BY <1>0, <1>2 DEF Lokke, Stegene, Utfallene, Gyldig, PaaPlass
  <2> HIDE DEF y
  <2>2. PaaPlass(r, y) /\ PlanOK(y, op) /\ LestOK(y, op) /\ SvarOK(r, y, op)
    BY <1>0, <1>2, <2>1 DEF Gyldig, PaaPlass, PlanOK, LestOK, SvarOK, Lesere
  <2> QED
    BY <2>1, <2>2 DEF Gyldig
<1>7. \/ b' = [b EXCEPT ![r] = y] \/ b' = [b EXCEPT ![r] = z]
      \/ \E u \in {"not_found", "invalid_request"} :
            b' = [b EXCEPT ![r] = [b[r] EXCEPT !.steg = "ledig", !.utfall = u]]
  BY DEF HandleSak, Svar, Videre, C
<1> HIDE DEF y, z
<1> QED
  BY <1>1, <1>3, <1>5, <1>6, <1>7, EnLokke

\* What a plan is made of, at the moment it is made.
LEMMA GrunnlagVerdi ==
    ASSUME op \in Rad, NEW c \in Kommando
    PROVE  /\ Grunnlag(c) \in Post
           /\ Grunnlag(c).handling # "Revalider" => Grunnlag(c).sak = SakAv[c]
           /\ Grunnlag(c).feilet \subseteq OpsAv[c]
           /\ Grunnlag(c).feilet # {} => Grunnlag(c).handling = "FrigiOperasjoner"
           /\ \A p \in Grunnlag(c).feilet : op[p] = "feilet"
<1> DEFINE S == {op[o] : o \in Rader(c, op)}
           Q == {o \in OpsAv[c] : op[o] = "feilet"}
<1>1. /\ Grunnlag(c).handling = VurderCommand(S) /\ Grunnlag(c).feilet = Q
      /\ Grunnlag(c).sak = IF c \in koblet \/ Rader(c, op) # {} THEN SakAv[c] ELSE Nei
      /\ Grunnlag(c) = [handling |-> VurderCommand(S),
                        sak |-> IF c \in koblet \/ Rader(c, op) # {} THEN SakAv[c] ELSE Nei,
                        feilet |-> Q]
  BY DEF Grunnlag
<1>2. VurderCommand(S) \in {"Revalider", "IngenEndring", "FrigiOperasjoner"}
  BY DEF VurderCommand
<1>3. VurderCommand(S) # "Revalider" => Rader(c, op) # {}
  <2>1. Rader(c, op) = {} => S = {}
    OBVIOUS
  <2> QED
    BY <2>1 DEF VurderCommand
<1>4. Q # {} => VurderCommand(S) = "FrigiOperasjoner"
  <2> SUFFICES ASSUME NEW o \in Q PROVE VurderCommand(S) = "FrigiOperasjoner"
    OBVIOUS
  <2>1. o \in Rader(c, op) /\ op[o] = "feilet"
    BY AdminflateAntagelse DEF Rader, Status
  <2>2. "feilet" \in S
    BY <2>1
  <2> QED
    BY <2>2 DEF VurderCommand
<1>5. Q \subseteq Operasjoner /\ Q \subseteq OpsAv[c]
  BY DEF Operasjoner
<1>6. (IF c \in koblet \/ Rader(c, op) # {} THEN SakAv[c] ELSE Nei) \in Sakene
  BY DEF Sakene
<1> HIDE DEF S
<1>7. Grunnlag(c) \in Post
  BY <1>1, <1>2, <1>5, <1>6 DEF Post
<1> QED
  BY <1>1, <1>3, <1>4, <1>5, <1>7

LEMMA HandleSteg == ASSUME Sant, NEW r \in Ruter, Handle(r) PROVE Sant'
<1>0. op \in Rad /\ Gyldig(r, b[r], op) /\ b[r] \in Lokke
  BY DEF Sant, Felles, Gyldig
<1>1. UNCHANGED op /\ Felles'
  BY DEF Handle, Svar, Videre, Sant, Felles, db
<1>2. /\ b[r].steg = "handle" /\ r \in Frigivere /\ b[r].gjort = {} /\ b[r].utfall = "ingen"
      /\ IsFiniteSet(b[r].valgt)
  BY <1>0 DEF Handle, Steg, Gyldig, PaaPlass
<1>3. ASSUME NEW u \in {"not_found", "invalid_request", "discarded"}
      PROVE  Gyldig(r, [b[r] EXCEPT !.steg = "ledig", !.utfall = u], op)
  BY <1>0, <1>2, AvslaattLokke DEF Utfallene
<1> DEFINE C == b[r].valgt
           plan == [c \in C |-> Grunnlag(c)]
           I == {c \in C : plan[c].handling = "Revalider"}
           y == [b[r] EXCEPT !.steg = "original", !.plan = plan, !.igjen = I]
<1>4. \/ \E u \in {"not_found", "invalid_request", "discarded"} :
            b' = [b EXCEPT ![r] = [b[r] EXCEPT !.steg = "ledig", !.utfall = u]]
      \/ ~(Cardinality(C) > MAKS_COMMANDS_PER_RETRY) /\ Nei \notin C
         /\ b' = [b EXCEPT ![r] = y]
  BY DEF Handle, Svar, Videre
<1>5. ASSUME ~(Cardinality(C) > MAKS_COMMANDS_PER_RETRY), Nei \notin C
      PROVE  Gyldig(r, y, op)
  <2>1. C \subseteq Kommando /\ Cardinality(C) <= MAKS_COMMANDS_PER_RETRY
    <3>1. Cardinality(C) \in Nat
      BY <1>2, FS_CardinalityType
    <3> QED
      BY <1>0, <1>5, <3>1, AdminflateAntagelse DEF Lokke
  <2>2. plan \in [C -> Post]
    BY <1>0, <2>1, GrunnlagVerdi
  <2>3. plan \in Planer /\ DOMAIN plan = C /\ I \subseteq C
    BY <2>1, <2>2 DEF Planer
  <2>4. ASSUME NEW c \in C
        PROVE  /\ plan[c].handling # "Revalider" => plan[c].sak = SakAv[c]
               /\ plan[c].feilet \subseteq OpsAv[c]
               /\ plan[c].feilet # {} => plan[c].handling = "FrigiOperasjoner"
               /\ \A p \in plan[c].feilet : op[p] = "feilet"
    <3>1. plan[c] = Grunnlag(c) /\ c \in Kommando
      BY <2>1
    <3> HIDE DEF plan
    <3> QED
      BY <1>0, <3>1, GrunnlagVerdi
  <2> HIDE DEF plan, I
  <2>5. /\ y \in Lokke /\ y.steg = "original" /\ y.plan = plan /\ y.igjen = I
        /\ y.valgt = C /\ y.gjort = {} /\ y.utfall = "ingen"
    BY <1>0, <1>2, <2>1, <2>3 DEF Lokke, Stegene
  <2> HIDE DEF y
  <2>6. PaaPlass(r, y) /\ LestOK(y, op) /\ SvarOK(r, y, op)
    BY <1>2, <2>5 DEF PaaPlass, LestOK, SvarOK
  <2>7. PlanOK(y, op)
    BY <2>1, <2>3, <2>4, <2>5 DEF PlanOK, PlanGjelder
  <2> QED
    BY <2>5, <2>6, <2>7 DEF Gyldig
<1> HIDE DEF y
<1> QED
  BY <1>1, <1>3, <1>4, <1>5, EnLokke

LEMMA OriginalSteg == ASSUME Sant, NEW r \in Ruter, HentOriginal(r) PROVE Sant'
<1>0. op \in Rad /\ Gyldig(r, b[r], op) /\ b[r] \in Lokke
  BY DEF Sant, Felles, Gyldig
<1> DEFINE knytt(c) == b[r].plan[c].sak = Nei /\ SakAv[c] \in KjenteSaker
           y(c) == [b[r] EXCEPT !.mangler = @ \cup {c}, !.igjen = @ \ {c}]
           z(c) == [b[r] EXCEPT !.igjen = @ \ {c},
                                !.plan[c].sak = IF knytt(c) THEN SakAv[c] ELSE @]
<1> PICK c \in b[r].igjen :
        \/ b' = [b EXCEPT ![r] = y(c)] /\ UNCHANGED koblet
        \/ /\ koblet' = IF knytt(c) THEN koblet \cup {c} ELSE koblet
           /\ b' = [b EXCEPT ![r] = z(c)]
  BY DEF HentOriginal, Videre
<1>2. /\ b[r].steg = "original" /\ r \in Frigivere /\ b[r].gjort = {}
      /\ b[r].utfall = "ingen" /\ IsFiniteSet(b[r].valgt)
      /\ b[r].valgt \subseteq Kommando /\ Cardinality(b[r].valgt) <= MAKS_COMMANDS_PER_RETRY
      /\ DOMAIN b[r].plan = b[r].valgt /\ b[r].igjen \subseteq b[r].valgt
      /\ \A d \in b[r].valgt : PlanGjelder(b[r], d, op)
  BY <1>0 DEF HentOriginal, Steg, Gyldig, PaaPlass, PlanOK
<1>3. c \in Kommando /\ c \in b[r].valgt
  BY <1>2
<1>1. UNCHANGED op /\ Felles'
  BY <1>3 DEF HentOriginal, Videre, Sant, Felles
<1>4. Gyldig(r, y(c), op)
  <2>1. /\ y(c) \in Lokke /\ y(c).steg = "original" /\ y(c).plan = b[r].plan
        /\ y(c).igjen = b[r].igjen \ {c} /\ y(c).valgt = b[r].valgt /\ y(c).gjort = {}
        /\ y(c).utfall = "ingen" /\ y(c).frigitt = b[r].frigitt
    BY <1>0, <1>2, <1>3 DEF Lokke
  <2> HIDE DEF y
  <2>2. PaaPlass(r, y(c)) /\ LestOK(y(c), op) /\ SvarOK(r, y(c), op)
    BY <1>2, <2>1 DEF PaaPlass, LestOK, SvarOK
  <2>3. PlanOK(y(c), op)
    BY <1>2, <2>1 DEF PlanOK, PlanGjelder
  <2> QED
    BY <2>1, <2>2, <2>3 DEF Gyldig
<1>5. Gyldig(r, z(c), op)
  <2> DEFINE s == IF knytt(c) THEN SakAv[c] ELSE b[r].plan[c].sak
             p == [b[r].plan EXCEPT ![c].sak = s]
  <2>1. b[r].plan \in [b[r].valgt -> Post]
    BY <1>0, <1>2 DEF Lokke, Planer
  <2>2. s \in Sakene
    BY <1>3, <2>1 DEF Post, Sakene
  <2>3. s = b[r].plan[c].sak \/ s = SakAv[c]
    OBVIOUS
  <2>4. z(c) = [b[r] EXCEPT !.igjen = b[r].igjen \ {c}, !.plan = p]
    BY <1>0 DEF Lokke
  <2> HIDE DEF s, knytt
  <2>5. p \in [b[r].valgt -> Post]
    BY <1>3, <2>1, <2>2 DEF Post
  <2>6. \A d \in b[r].valgt : /\ p[d].handling = b[r].plan[d].handling
                              /\ p[d].feilet = b[r].plan[d].feilet
                              /\ d # c => p[d].sak = b[r].plan[d].sak
    BY <1>3, <2>1 DEF Post
  <2>7. p[c].sak = s
    BY <1>3, <2>1 DEF Post
  <2> HIDE DEF p
  <2>8. p \in Planer /\ DOMAIN p = b[r].valgt
    BY <1>2, <2>5 DEF Planer
  <2> HIDE DEF z
  <2>9. /\ z(c) \in Lokke /\ z(c).steg = "original" /\ z(c).plan = p
        /\ z(c).igjen = b[r].igjen \ {c} /\ z(c).valgt = b[r].valgt /\ z(c).gjort = {}
        /\ z(c).utfall = "ingen" /\ z(c).frigitt = b[r].frigitt
    <3>1. /\ z(c).steg = "original" /\ z(c).plan = p /\ z(c).igjen = b[r].igjen \ {c}
          /\ z(c).valgt = b[r].valgt /\ z(c).gjort = {} /\ z(c).utfall = "ingen"
          /\ z(c).frigitt = b[r].frigitt
      BY <1>0, <1>2, <2>4 DEF Lokke
    <3>2. z(c) \in Lokke
      BY <1>0, <2>4, <2>8 DEF Lokke
    <3> QED
      BY <3>1, <3>2
  <2>10. PaaPlass(r, z(c)) /\ LestOK(z(c), op) /\ SvarOK(r, z(c), op)
    BY <1>2, <2>9 DEF PaaPlass, LestOK, SvarOK
  <2>11. ASSUME NEW d \in b[r].valgt PROVE PlanGjelder(z(c), d, op)
    <3>1. PlanGjelder(b[r], d, op)
      BY <1>2
    <3>2. p[d].handling # "Revalider" => p[d].sak = SakAv[d]
      BY <2>3, <2>6, <2>7, <3>1 DEF PlanGjelder
    <3> QED
      BY <2>6, <2>9, <3>1, <3>2 DEF PlanGjelder
  <2>12. PlanOK(z(c), op)
    BY <1>2, <2>8, <2>9, <2>11 DEF PlanOK
  <2> QED
    BY <2>9, <2>10, <2>12 DEF Gyldig
<1> HIDE DEF y, z
<1> QED
  BY <1>1, <1>4, <1>5, EnLokke

----------------------------------------------------------------------------
(* The release                                                             *)

Frigis(r) == {o \in Laases(r) : op[o] = "feilet" /\ KommandoTil(o) \in Med(r, "FrigiOperasjoner")}

\* What the release does where it is not refused.
Frigivelse(r) ==
    /\ b[r].mangler = {} /\ \A o \in Laases(r) : op[o] # "krever_avklaring"
    /\ op' = [o \in Operasjoner |-> IF o \in Frigis(r) THEN "klar" ELSE op[o]]
    /\ b' = [q \in Ruter |->
                [b[q] EXCEPT !.frigitt = @ \cup Frigis(r),
                             !.steg  = IF q = r THEN "valider" ELSE @,
                             !.gjort = IF q = r THEN Frigis(r) ELSE @,
                             !.igjen = IF q = r THEN Med(r, "Revalider") ELSE @]]
    /\ UNCHANGED <<lytter, antall>>

LEMMA FrigiDeles ==
    ASSUME NEW r, Frigi(r)
    PROVE  /\ \/ /\ \E u \in {"original_unavailable", "busy", "unresolved"} : Svar(r, u)
                 /\ UNCHANGED op
              \/ Frigivelse(r)
           /\ Steg(r, "original") /\ b[r].igjen = {}
           /\ UNCHANGED <<koblet, forkastet, validert, feil, forlop>>
  BY DEF Frigi, Frigivelse, Frigis

LEMMA FrigivelseFramgang ==
    ASSUME op \in Rad, NEW r, Frigivelse(r)
    PROVE  /\ Framgang(op, op', Frigis(r)) /\ Frigis(r) \subseteq Operasjoner
           /\ \A o \in Operasjoner : op'[o] # Nei <=> op[o] # Nei
<1>1. op' = [o \in Operasjoner |-> IF o \in Frigis(r) THEN "klar" ELSE op[o]]
  BY DEF Frigivelse
<1>2. Frigis(r) \subseteq Operasjoner /\ \A o \in Frigis(r) : op[o] = "feilet"
  BY DEF Frigis, Laases
<1>3. op' \in Rad
  BY <1>1 DEF Rad, Status
<1>4. \A o \in Operasjoner : op'[o] # Nei <=> op[o] # Nei
  BY <1>1, <1>2, AdminflateAntagelse DEF Status
<1>5. \A c \in Kommando : Rader(c, op') = Rader(c, op)
  BY <1>4 DEF Rader, Operasjoner
<1> QED
  BY <1>1, <1>2, <1>3, <1>4, <1>5 DEF Framgang

\* The loop that releases.
LEMMA FrigirLokke ==
    ASSUME Sant, NEW r \in Ruter, Steg(r, "original"), Frigivelse(r)
    PROVE  Gyldig(r, b'[r], op')
<1>0. op \in Rad /\ Gyldig(r, b[r], op) /\ b[r] \in Lokke
  BY DEF Sant, Felles, Gyldig
<1>2. /\ b[r].steg = "original" /\ r \in Frigivere
      /\ b[r].utfall = "ingen" /\ IsFiniteSet(b[r].valgt)
      /\ b[r].valgt \subseteq Kommando /\ Cardinality(b[r].valgt) <= MAKS_COMMANDS_PER_RETRY
      /\ DOMAIN b[r].plan = b[r].valgt
      /\ \A d \in b[r].valgt : PlanGjelder(b[r], d, op)
  BY <1>0 DEF Steg, Gyldig, PaaPlass, PlanOK
<1>3. Frigis(r) \subseteq Operasjoner
  BY DEF Frigis, Laases
<1>4. Med(r, "Revalider") \subseteq b[r].valgt
  BY DEF Med
<1> DEFINE y == b'[r]
<1>5. /\ y \in Lokke /\ y.steg = "valider" /\ y.gjort = Frigis(r)
      /\ y.igjen = Med(r, "Revalider") /\ y.frigitt = b[r].frigitt \cup Frigis(r)
      /\ y.valgt = b[r].valgt /\ y.plan = b[r].plan /\ y.utfall = "ingen"
  BY <1>0, <1>2, <1>3, <1>4 DEF Frigivelse, Lokke, Stegene
<1> HIDE DEF y
<1>6. PaaPlass(r, y) /\ LestOK(y, op') /\ SvarOK(r, y, op')
  BY <1>2, <1>5 DEF PaaPlass, LestOK, SvarOK
<1>7. ASSUME NEW c \in b[r].valgt PROVE Skyldig(y, c)
  <2>1. ASSUME NEW p \in b[r].plan[c].feilet PROVE p \in y.frigitt
    <3>1. /\ op[p] = "feilet" \/ p \in b[r].frigitt
          /\ b[r].plan[c].handling = "FrigiOperasjoner" /\ p \in OpsAv[c]
      BY <1>2, <1>7, <2>1 DEF PlanGjelder
    <3>2. p \in Operasjoner /\ KommandoTil(p) = c
      BY <1>2, <1>7, <3>1, Eieren
    <3>3. c \in Med(r, "FrigiOperasjoner")
      BY <1>7, <3>1 DEF Med
    <3>4. op[p] = "feilet" => p \in Frigis(r)
      BY <3>2, <3>3, AdminflateAntagelse DEF Frigis, Laases, Status
    <3> QED
      BY <1>5, <3>1, <3>4
  <2>2. y.plan[c].handling = "Revalider" => c \in y.igjen
    BY <1>5, <1>7 DEF Med
  <2> QED
    BY <1>5, <2>1, <2>2 DEF Skyldig
<1>8. PlanOK(y, op')
  BY <1>2, <1>4, <1>5, <1>7 DEF PlanOK
<1>9. Gyldig(r, y, op')
  BY <1>5, <1>6, <1>8 DEF Gyldig
<1> QED
  BY <1>9 DEF y

LEMMA FrigiSteg == ASSUME Sant, NEW r \in Ruter, Frigi(r) PROVE Sant'
<1>0. op \in Rad /\ Gyldig(r, b[r], op) /\ b[r].steg = "original"
  BY FrigiDeles DEF Sant, Felles, Steg
<1>1. ASSUME NEW u \in {"original_unavailable", "busy", "unresolved"}, Svar(r, u),
             UNCHANGED op
      PROVE  Sant'
  <2>1. Gyldig(r, [b[r] EXCEPT !.steg = "ledig", !.utfall = u], op)
    BY <1>0, AvslaattLokke DEF Utfallene
  <2>2. Felles'
    BY <1>1, FrigiDeles DEF Sant, Felles, Svar, Videre
  <2> QED
    BY <1>1, <2>1, <2>2, EnLokke DEF Svar, Videre
<1>2. CASE Frigivelse(r)
  <2>1. /\ Framgang(op, op', Frigis(r)) /\ Frigis(r) \in SUBSET Operasjoner
    BY <1>0, <1>2, FrigivelseFramgang
  <2>2. Felles'
    BY <1>2, <2>1, FrigiDeles DEF Sant, Felles, Frigivelse, Framgang
  <2>3. Gyldig(r, b'[r], op')
    BY <1>2, FrigiDeles, FrigirLokke
  <2>4. ASSUME NEW q \in Ruter, q # r PROVE Gyldig(q, b'[q], op')
    <3>1. Gyldig(q, b[q], op)
      BY DEF Sant
    <3>2. b'[q] = [b[q] EXCEPT !.frigitt = @ \cup Frigis(r)]
      BY <1>2, <2>4, <3>1 DEF Frigivelse, Gyldig, Lokke
    <3> QED
      BY <1>0, <2>1, <3>1, <3>2, LokkeVenter
  <2>5. DOMAIN b' = Ruter
    BY <1>2 DEF Frigivelse
  <2> QED
    BY <2>2, <2>3, <2>4, <2>5 DEF Sant
<1> QED
  BY <1>1, <1>2, FrigiDeles

LEMMA ValiderSteg ==
    ASSUME Sant, NEW r \in Ruter, Revalider(r) \/ Fullforer(r) PROVE Sant'
<1>0. op \in Rad /\ Gyldig(r, b[r], op) /\ b[r] \in Lokke
  BY DEF Sant, Felles, Gyldig
<1>2. /\ b[r].steg = "valider" /\ r \in Frigivere
      /\ b[r].utfall = "ingen" /\ IsFiniteSet(b[r].valgt)
      /\ b[r].valgt \subseteq Kommando /\ Cardinality(b[r].valgt) <= MAKS_COMMANDS_PER_RETRY
      /\ DOMAIN b[r].plan = b[r].valgt /\ b[r].igjen \subseteq b[r].valgt
      /\ \A d \in b[r].valgt : Skyldig(b[r], d)
  BY <1>0 DEF Revalider, Fullforer, Steg, Gyldig, PaaPlass, PlanOK
<1>3. CASE Revalider(r)
  <2> DEFINE y(c) == [b[r] EXCEPT !.igjen = @ \ {c}, !.gjort = @ \cup {c}]
  <2> PICK c \in b[r].igjen : /\ b' = [b EXCEPT ![r] = y(c)]
                              /\ validert' \in {validert, validert \cup {c}}
    BY <1>3 DEF Revalider, Videre
  <2>1. /\ y(c) \in Lokke /\ y(c).steg = "valider" /\ y(c).utfall = "ingen"
        /\ y(c).plan = b[r].plan /\ y(c).valgt = b[r].valgt /\ y(c).frigitt = b[r].frigitt
        /\ y(c).igjen = b[r].igjen \ {c} /\ y(c).gjort = b[r].gjort \cup {c}
    BY <1>0, <1>2 DEF Lokke
  <2> HIDE DEF y
  <2>2. PaaPlass(r, y(c)) /\ LestOK(y(c), op) /\ SvarOK(r, y(c), op)
    BY <1>2, <2>1 DEF PaaPlass, LestOK, SvarOK
  <2>3. PlanOK(y(c), op)
    BY <1>2, <2>1 DEF PlanOK, Skyldig
  <2>4. Gyldig(r, y(c), op)
    BY <2>1, <2>2, <2>3 DEF Gyldig
  <2>5. UNCHANGED op /\ Felles'
    BY <1>2, <1>3 DEF Revalider, Videre, Sant, Felles
  <2> QED
    BY <2>4, <2>5, EnLokke
<1>4. CASE Fullforer(r)
  <2> DEFINE y == [b[r] EXCEPT !.steg = "ledig", !.utfall = "ok"]
  <2>1. /\ y \in Lokke /\ y.steg = "ledig" /\ y.utfall = "ok" /\ y.gjort = b[r].gjort
        /\ y.plan = b[r].plan /\ y.valgt = b[r].valgt /\ y.frigitt = b[r].frigitt
    BY <1>0 DEF Lokke, Stegene, Utfallene
  <2> HIDE DEF y
  <2>2. PaaPlass(r, y) /\ PlanOK(y, op) /\ LestOK(y, op)
    BY <1>2, <2>1 DEF PaaPlass, PlanOK, LestOK
  <2>3. b[r].igjen = {}
    BY <1>4 DEF Fullforer
  <2>4. SvarOK(r, y, op)
    BY <1>2, <2>1, <2>3 DEF SvarOK, Skyldig, Frigivere, Lesere
  <2>5. Gyldig(r, y, op)
    BY <2>1, <2>2, <2>4 DEF Gyldig
  <2>6. UNCHANGED op /\ Felles' /\ b' = [b EXCEPT ![r] = y]
    BY <1>4 DEF Fullforer, Svar, Videre, Sant, Felles, db, y
  <2> QED
    BY <2>5, <2>6, EnLokke
<1> QED
  BY <1>3, <1>4

LEMMA ForkastSteg == ASSUME Sant, NEW r \in Ruter, Forkast(r) PROVE Sant'
<1>0. op \in Rad /\ Gyldig(r, b[r], op) /\ b[r] \in Lokke
  BY DEF Sant, Felles, Gyldig
<1>2. b[r].steg = "forkast" /\ r = "ForkastCommands" /\ IsFiniteSet(b[r].valgt)
  BY <1>0 DEF Forkast, Steg, Gyldig, PaaPlass
<1>3. CASE \E u \in {"invalid_request", "not_found"} : Svar(r, u) /\ UNCHANGED forkastet
  <2> PICK u \in {"invalid_request", "not_found"} : Svar(r, u) /\ UNCHANGED forkastet
    BY <1>3
  <2>1. Gyldig(r, [b[r] EXCEPT !.steg = "ledig", !.utfall = u], op)
    BY <1>0, <1>2, AvslaattLokke DEF Utfallene
  <2>2. UNCHANGED op /\ Felles'
    BY DEF Forkast, Svar, Videre, Sant, Felles
  <2> QED
    BY <2>1, <2>2, EnLokke DEF Svar, Videre
<1>4. ASSUME Nei \notin b[r].valgt,
             forkastet' = forkastet \cup {c \in b[r].valgt : ~Fullfort(c)},
             Videre(r, [b[r] EXCEPT !.steg = "ledig", !.utfall = "ok",
                                    !.gjort = forkastet' \ forkastet])
      PROVE  Sant'
  <2> DEFINE y == [b[r] EXCEPT !.steg = "ledig", !.utfall = "ok",
                               !.gjort = forkastet' \ forkastet]
  <2>1. b[r].valgt \subseteq Kommando /\ forkastet' \subseteq Kommando
    BY <1>0, <1>4 DEF Lokke, Sant, Felles
  <2>2. y \in Lokke /\ y.steg = "ledig" /\ y.utfall = "ok" /\ y.valgt = b[r].valgt
    BY <1>0, <2>1 DEF Lokke, Stegene, Utfallene
  <2>3. b' = [b EXCEPT ![r] = y]
    BY <1>4 DEF Videre
  <2> HIDE DEF y
  <2>4. Gyldig(r, y, op)
    BY <1>2, <2>2 DEF Gyldig, PaaPlass, PlanOK, LestOK, SvarOK, Frigivere, Lesere
  <2>5. UNCHANGED op /\ Felles'
    BY <1>4, <2>1 DEF Forkast, Videre, Sant, Felles
  <2> QED
    BY <2>3, <2>4, <2>5, EnLokke
<1> QED
  BY <1>3, <1>4 DEF Forkast

----------------------------------------------------------------------------
LEMMA SantSteg == ASSUME Sant, [Next]_vars PROVE Sant'
<1>1. ASSUME NEW r \in Ruter, Behandle(r) PROVE Sant'
  BY <1>1, ForsteLesing, SisteLesing, VelgSteg, HandleSteg, OriginalSteg, FrigiSteg,
     ValiderSteg, ForkastSteg DEF Behandle
<1>2. CASE UNCHANGED vars
  BY <1>2 DEF vars, Sant, Felles
<1> QED
  BY <1>1, <1>2, MottaSteg, TekniskSteg, LytterSteg, ArbeidSteg DEF Next

LEMMA SantHolder == Spec => []Sant
<1>1. Init => Sant
  BY SantInit
<1>2. Sant /\ [Next]_vars => Sant'
  BY SantSteg
<1> QED
  BY <1>1, <1>2, PTL DEF Spec

\* A refusal means that nothing was done, and an ok that all was: for every set
\* of commands, limit and course of work and failures between a retry's steps.
THEOREM SvaretErSantHolder == Spec => []SvaretErSant
<1>1. Sant => SvaretErSant
  BY SantGirEgenskapene
<1> QED
  BY <1>1, SantHolder, PTL

\* A read is one moment though it takes several queries, and "fullfort" is so
\* for good.
THEOREM LesingErSannHolder == Spec => []LesingErSann
<1>1. Sant => LesingErSann
  BY SantGirEgenskapene
<1> QED
  BY <1>1, SantHolder, PTL

\* A release takes up nothing on a case of which an outcome is unresolved: the
\* rows it locks are all those of the case, because the plan of a command that
\* has rows names its case (PlanGjelder).
THEOREM UavklartSperrerHolder == Spec => UavklartSperrer
<1> DEFINE Sperrer ==
        \A o, p \in Operasjoner :
            /\ op[o] = "feilet" /\ op'[o] = "klar"
            /\ SakAv[KommandoTil(o)] = SakAv[KommandoTil(p)]
            => op[p] # "krever_avklaring"
<1>1. ASSUME Sant, [Next]_vars PROVE Sperrer
  <2> SUFFICES ASSUME NEW o \in Operasjoner, NEW p \in Operasjoner,
                      op[o] = "feilet", op'[o] = "klar",
                      SakAv[KommandoTil(o)] = SakAv[KommandoTil(p)]
               PROVE  op[p] # "krever_avklaring"
    OBVIOUS
  <2>1. \E r \in Ruter : Frigi(r) /\ Frigivelse(r)
    <3>1. op' # op /\ op \in Rad
      BY <1>1 DEF Sant, Felles
    <3>2. ~(\E c \in Kommando : Dekomponer(c)) /\ ~(\E q \in Operasjoner : Arbeid(q))
      BY <1>1, <3>1, ArbeidFramgang, DekomponerFramgang DEF Framgang
    <3>3. ~UNCHANGED vars
      BY <3>1 DEF vars
    <3>4. \E r \in Ruter : Behandle(r)
      BY <1>1, <3>1, <3>2, <3>3 DEF Next, Motta, Teknisk, SubscriptionSlutter, RunOnce, db
    <3> QED
      BY <3>1, <3>4, FrigiDeles DEF Behandle, LesCommand, LesIdentitet, LesFakta, LesOps,
         HandleSak, Handle, HentOriginal, Revalider, Fullforer, Forkast, db
  <2> PICK r \in Ruter : Frigi(r) /\ Frigivelse(r)
    BY <2>1
  <2> DEFINE c == KommandoTil(o)
  <2>2. o \in Frigis(r) /\ c \in Med(r, "FrigiOperasjoner")
    BY DEF Frigivelse, Frigis
  <2>3. /\ c \in b[r].valgt /\ b[r].plan[c].handling = "FrigiOperasjoner"
        /\ c \in Kommando
    BY <2>2, HarEier DEF Med
  <2>4. b[r].plan[c].sak = SakAv[c]
    BY <1>1, <2>3, FrigiDeles DEF Steg, Sant, Gyldig, PlanOK, PlanGjelder
  <2>5. SakAv[c] # Nei
    BY <2>3, AdminflateAntagelse
  <2>6. op[p] = "krever_avklaring" => p \in Laases(r)
    BY <2>3, <2>4, <2>5, AdminflateAntagelse DEF Laases, Status
  <2> QED
    BY <2>6 DEF Frigivelse
<1>2. Sant /\ [Next]_vars => [Sperrer]_vars
  BY <1>1
<1>3. Spec => [][Sperrer]_vars
  BY <1>2, SantHolder, PTL DEF Spec
<1> QED
  BY <1>3 DEF UavklartSperrer
=============================================================================
