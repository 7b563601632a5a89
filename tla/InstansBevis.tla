---------------------------- MODULE InstansBevis -----------------------------
(***************************************************************************)
(* What the instances of the service do beside each other: one of them     *)
(* executes (Lederskap), for every number of instances, operations, errors *)
(* and crashes; and all of them answer queries (Sporring), for every set   *)
(* of instances, references, cases, requests and limits.                   *)
(***************************************************************************)
EXTENDS Lederskap, Sporring, FiniteSetTheorems, TLAPS

----------------------------------------------------------------------------
(* One executor at a time.                                                 *)
(*                                                                         *)
(* EnAktivExecutor is not inductive: that an instance works says nothing   *)
(* of the lock.  Eier says that it holds it, and that is true as long as   *)
(* the database keeps its sessions: TapSesjon is the only step that takes  *)
(* a lock from a working instance, and it makes tap positive for good.     *)
(* OkErVirket needs no lock.                                               *)

IHand == {"valgt", "kjorer", "sendt", "svart"}
MinneOK == \A i \in Instanser : steg[i] \in IHand => i_hand[i] \in Oppgaver
Svart == \A i \in Instanser : steg[i] = "svart" => virket[i_hand[i]] > 0
Grunn == TypeOK /\ MinneOK /\ Svart /\ OkErVirket

\* A working instance holds the lock.
Eier == \A i \in Instanser : steg[i] \in Arbeider => laas = i

\* The row says where the instance that has it in hand is.
RadStemmer == \A i \in Instanser :
          /\ steg[i] = "valgt"  => status[i_hand[i]] = "klar"
          /\ steg[i] = "kjorer" => status[i_hand[i]] = "kjorer"
          /\ steg[i] \in {"sendt", "svart"} => status[i_hand[i]] = "sendt"

\* Before the call, and for every row a leader may pick, there is no effect.
Urort == /\ \A o \in Oppgaver : status[o] \in {"klar", "kjorer"} => virket[o] = 0
         /\ \A i \in Instanser : steg[i] = "sendt" => virket[i_hand[i]] = 0

\* A row that says sendt is in somebody's hands, or was interrupted.
SendtForklart ==
    \A o \in Oppgaver : status[o] = "sendt" =>
       o \in avbrutt \/ \E i \in Instanser : steg[i] \in {"sendt", "svart"} /\ i_hand[i] = o

HoystEn == \A o \in Oppgaver : virket[o] <= 1
BareAvbrutt == \A o \in Oppgaver : status[o] = "krever_avklaring" => o \in avbrutt

Enerett == Eier /\ RadStemmer /\ Urort /\ SendtForklart /\ HoystEn /\ BareAvbrutt

----------------------------------------------------------------------------
LEMMA GrunnInit == Init => Grunn
BY LederskapAntagelse
   DEF Init, Grunn, TypeOK, MinneOK, Svart, OkErVirket, Steg, Hviler, Arbeider, IHand

\* The steps of one instance that touch neither rows nor effects.
LEMMA GrunnStille ==
    ASSUME Grunn, TypeOK', MinneOK', NEW i \in Instanser, NEW s,
           Til(i, s), s # "svart", UNCHANGED <<status, virket>>,
           \A j \in Instanser : j # i => i_hand'[j] = i_hand[j]
    PROVE  Grunn'
<1>1. \A j \in Instanser : j # i => steg'[j] = steg[j]
  BY DEF Grunn, TypeOK, Til
<1>2. steg'[i] = s
  BY DEF Grunn, TypeOK, Til
<1> QED
  BY <1>1, <1>2 DEF Grunn, Svart, OkErVirket

LEMMA GrunnGaar ==
    ASSUME Grunn, NEW i \in Instanser, Gaar(i)
    PROVE  Grunn'
<1> USE LederskapAntagelse
<1>1. CASE TaLaas(i)
  <2>1. TypeOK' /\ MinneOK'
    BY <1>1 DEF Grunn, TypeOK, MinneOK, TaLaas, Til, Steg, Hviler, Arbeider, IHand
  <2> QED
    BY <1>1, <2>1, GrunnStille DEF TaLaas
<1>2. CASE Stopp(i)
  <2>1. TypeOK' /\ MinneOK'
    BY <1>2 DEF Grunn, TypeOK, MinneOK, Stopp, Til, Slipp, Steg, Hviler, Arbeider, IHand
  <2> QED
    BY <1>2, <2>1, GrunnStille DEF Stopp
<1>3. CASE Gjenopprett(i)
  <2>1. TypeOK' /\ MinneOK'
    BY <1>3 DEF Grunn, TypeOK, MinneOK, Gjenopprett, Etter, Til, Steg, Hviler, Arbeider, IHand
  <2>2. OkErVirket'
    BY <1>3 DEF Grunn, OkErVirket, Gjenopprett, Etter
  <2>3. Svart'
    BY <1>3 DEF Grunn, TypeOK, Svart, Gjenopprett, Til
  <2> QED
    BY <2>1, <2>2, <2>3 DEF Grunn
<1>4. CASE \E o \in Oppgaver : Hent(i, o)
  <2> PICK o \in Oppgaver : Hent(i, o)
    BY <1>4
  <2>1. TypeOK' /\ MinneOK'
    BY DEF Grunn, TypeOK, MinneOK, Hent, Til, Steg, Hviler, Arbeider, IHand
  <2>2. \A j \in Instanser : j # i => i_hand'[j] = i_hand[j]
    BY DEF Grunn, TypeOK, Hent
  <2> QED
    BY <2>1, <2>2, GrunnStille DEF Hent
<1>5. CASE MarkerKjorer(i) \/ MarkerSendt(i)
  <2>1. i_hand[i] \in Oppgaver
    BY <1>5 DEF Grunn, MinneOK, MarkerKjorer, MarkerSendt, IHand
  <2>2. TypeOK' /\ MinneOK'
    BY <1>5, <2>1 DEF Grunn, TypeOK, MinneOK, MarkerKjorer, MarkerSendt, Til, Skriv,
                      Steg, Hviler, Arbeider, IHand
  <2>3. OkErVirket'
    BY <1>5, <2>1 DEF Grunn, TypeOK, OkErVirket, MarkerKjorer, MarkerSendt, Skriv
  <2>4. Svart'
    BY <1>5 DEF Grunn, TypeOK, Svart, MarkerKjorer, MarkerSendt, Til
  <2> QED
    BY <2>2, <2>3, <2>4 DEF Grunn
<1>6. CASE Arkivkall(i)
  <2>1. i_hand[i] \in Oppgaver
    BY <1>6 DEF Grunn, MinneOK, Arkivkall, IHand
  <2>2. TypeOK' /\ MinneOK'
    BY <1>6, <2>1 DEF Grunn, TypeOK, MinneOK, Arkivkall, Til, Steg, Hviler, Arbeider, IHand
  <2>3. /\ \A o \in Oppgaver : virket'[o] >= virket[o]
        /\ virket'[i_hand[i]] > 0
    BY <1>6, <2>1 DEF Grunn, TypeOK, Arkivkall
  <2>4. OkErVirket'
    BY <1>6, <2>3, <2>2 DEF Grunn, TypeOK, OkErVirket, Arkivkall
  <2>5. Svart'
    <3> SUFFICES ASSUME NEW j \in Instanser, steg'[j] = "svart"
                 PROVE  virket'[i_hand'[j]] > 0
      BY DEF Svart
    <3>1. CASE j = i
      BY <1>6, <2>3, <3>1 DEF Arkivkall
    <3>2. CASE j # i
      <4>1. steg[j] = "svart" /\ i_hand'[j] = i_hand[j]
        BY <1>6, <3>2 DEF Grunn, TypeOK, Arkivkall, Til
      <4>2. i_hand[j] \in Oppgaver /\ virket[i_hand[j]] > 0
        BY <4>1 DEF Grunn, MinneOK, Svart, IHand
      <4> QED
        BY <4>1, <4>2, <2>3, <2>2 DEF Grunn, TypeOK
    <3> QED
      BY <3>1, <3>2
  <2> QED
    BY <2>2, <2>4, <2>5 DEF Grunn
<1>7. CASE Fullfor(i)
  <2>1. i_hand[i] \in Oppgaver /\ virket[i_hand[i]] > 0
    BY <1>7 DEF Grunn, MinneOK, Svart, Fullfor, IHand
  <2>2. TypeOK' /\ MinneOK'
    BY <1>7, <2>1 DEF Grunn, TypeOK, MinneOK, Fullfor, Til, Skriv, Steg, Hviler, Arbeider, IHand
  <2>3. OkErVirket'
    BY <1>7, <2>1 DEF Grunn, TypeOK, OkErVirket, Fullfor, Skriv
  <2>4. Svart'
    BY <1>7 DEF Grunn, TypeOK, Svart, Fullfor, Til
  <2> QED
    BY <2>2, <2>3, <2>4 DEF Grunn
<1>8. CASE Restart(i)
  <2>1. TypeOK' /\ MinneOK'
    BY <1>8 DEF Grunn, TypeOK, MinneOK, Restart, Til, Steg, Hviler, Arbeider, IHand
  <2> QED
    BY <1>8, <2>1, GrunnStille DEF Restart
<1> QED
  BY <1>1, <1>2, <1>3, <1>4, <1>5, <1>6, <1>7, <1>8 DEF Gaar

LEMMA GrunnAvbryt ==
    ASSUME Grunn, NEW i \in Instanser, NEW til \in {"pause", "venter", "stoppet"},
           Avbryt(i, til)
    PROVE  Grunn'
<1>1. avbrutt' \subseteq Oppgaver
  BY DEF Grunn, TypeOK, MinneOK, Avbryt, IHand
<1>2. TypeOK' /\ MinneOK'
  BY <1>1, LederskapAntagelse
     DEF Grunn, TypeOK, MinneOK, Avbryt, Til, Slipp, Steg, Hviler, Arbeider, IHand
<1> QED
  BY <1>2, GrunnStille DEF Avbryt

LEMMA GrunnSteg == Grunn /\ [Next]_vars => Grunn'
<1> SUFFICES ASSUME Grunn, [Next]_vars
             PROVE  Grunn'
  OBVIOUS
<1>1. CASE UNCHANGED vars
  BY <1>1 DEF vars, Grunn, TypeOK, MinneOK, Svart, OkErVirket
<1>2. CASE TapSesjon
  BY <1>2, LederskapAntagelse DEF TapSesjon, Grunn, TypeOK, MinneOK, Svart, OkErVirket
<1>3. ASSUME NEW i \in Instanser, Nedsteng(i)
      PROVE  Grunn'
  BY <1>3 DEF Nedsteng, Grunn, TypeOK, MinneOK, Svart, OkErVirket
<1> QED
  BY <1>1, <1>2, <1>3, GrunnGaar, GrunnAvbryt DEF Next

\* Every variable keeps its type.
THEOREM LederskapTyper == Spec => []TypeOK
BY GrunnInit, GrunnSteg, PTL DEF Spec, Grunn

\* A completed operation has been to the archive, even when sessions are lost
\* and two executors overwrite each other's rows.
THEOREM OkErVirketHolder == Spec => []OkErVirket
BY GrunnInit, GrunnSteg, PTL DEF Spec, Grunn

----------------------------------------------------------------------------
\* While i works, nobody else does.
LEMMA Alene ==
    ASSUME Grunn, Eier, NEW i \in Instanser, steg[i] \in Arbeider,
           NEW j \in Instanser, steg[j] \in Arbeider
    PROVE  i = j
BY DEF Eier

LEMMA EnerettInit == Init => Enerett
BY LederskapAntagelse
   DEF Init, Enerett, Eier, RadStemmer, Urort, SendtForklart, HoystEn,
       BareAvbrutt, Arbeider

\* A step that writes no row and makes no effect, of an instance that has no
\* sent row in hand before or after: it may take the lock when that is free,
\* give up its own, or pick a row that is klar.
LEMMA EnerettStille ==
    ASSUME Grunn, Enerett, NEW i \in Instanser, NEW s \in Steg,
           Til(i, s), s \notin {"kjorer", "sendt", "svart"},
           UNCHANGED <<status, virket>>,
           \A j \in Instanser : j # i => i_hand'[j] = i_hand[j],
           s = "valgt" => status[i_hand'[i]] = "klar",
           \A o \in avbrutt : o \in avbrutt',
           steg[i] \in {"sendt", "svart"} => i_hand[i] \in avbrutt',
           \/ laas' = i /\ laas \in {Ingen, i}
           \/ Slipp(i) /\ s \notin Arbeider
           \/ laas' = laas /\ (s \in Arbeider => steg[i] \in Arbeider)
    PROVE  Enerett'
<1>1. \A j \in Instanser : j # i => steg'[j] = steg[j]
  BY DEF Grunn, TypeOK, Til
<1>2. steg'[i] = s
  BY DEF Grunn, TypeOK, Til
<1>3. Eier'
  BY <1>1, <1>2, LederskapAntagelse DEF Enerett, Eier, Slipp
<1>4. RadStemmer'
  BY <1>1, <1>2 DEF Enerett, RadStemmer
<1>5. Urort'
  BY <1>1, <1>2 DEF Enerett, Urort
<1>6. SendtForklart'
  BY <1>1, <1>2 DEF Enerett, SendtForklart
<1>7. HoystEn' /\ BareAvbrutt'
  BY DEF Enerett, HoystEn, BareAvbrutt
<1> QED
  BY <1>3, <1>4, <1>5, <1>6, <1>7 DEF Enerett

\* A step of the working instance that writes its own row.  The others are at
\* rest, so the row is nobody else's, and the lock stays where it is.
LEMMA EnerettSkriver ==
    ASSUME Grunn, Enerett, NEW i \in Instanser, NEW s, NEW t,
           steg[i] \in {"valgt", "kjorer", "sendt", "svart"},
           Til(i, s), Skriv(i, t), UNCHANGED <<laas, i_hand, virket, avbrutt>>,
           \/ s = "kjorer" /\ t = "kjorer" /\ steg[i] = "valgt"
           \/ s = "sendt" /\ t = "sendt" /\ steg[i] = "kjorer"
           \/ s = "hent" /\ t = "ok" /\ steg[i] = "svart"
    PROVE  Enerett'
<1> DEFINE o == i_hand[i]
<1>1. /\ \A j \in Instanser : j # i => steg'[j] = steg[j]
      /\ steg'[i] = s /\ o \in Oppgaver
      /\ status'[o] = t /\ \A p \in Oppgaver : p # o => status'[p] = status[p]
  BY DEF Grunn, TypeOK, MinneOK, Til, Skriv, IHand
<1>2. \A j \in Instanser : j # i => steg[j] \notin Arbeider
  BY Alene DEF Enerett, Arbeider
<1>3. Eier'
  BY <1>1, <1>2 DEF Enerett, Eier, Arbeider
<1>4. RadStemmer'
  BY <1>1, <1>2 DEF RadStemmer, Arbeider
<1>5. Urort'
  BY <1>1, <1>2 DEF Enerett, Urort, RadStemmer, Arbeider
<1>6. SendtForklart'
  BY <1>1, <1>2 DEF Enerett, SendtForklart, Arbeider
<1>7. HoystEn'
  BY DEF Enerett, HoystEn
<1>8. BareAvbrutt'
  BY <1>1 DEF Enerett, BareAvbrutt
<1> QED
  BY <1>3, <1>4, <1>5, <1>6, <1>7, <1>8 DEF Enerett

LEMMA EnerettGaar ==
    ASSUME Grunn, Enerett, NEW i \in Instanser, Gaar(i)
    PROVE  Enerett'
<1>1. CASE TaLaas(i)
  BY <1>1, EnerettStille DEF TaLaas, LaasLedig, Steg, Arbeider
<1>2. CASE Stopp(i)
  BY <1>2, EnerettStille DEF Stopp, KanStoppe, Steg, Hviler, Arbeider
<1>3. CASE Gjenopprett(i)
  <2>1. /\ \A j \in Instanser : j # i => steg'[j] = steg[j]
        /\ steg'[i] = "hent"
        /\ \A o \in Oppgaver : status'[o] = Etter(status[o])
        /\ UNCHANGED <<laas, i_hand, virket, avbrutt>>
    BY <1>3 DEF Gjenopprett, Til, Grunn, TypeOK
  <2>2. \A j \in Instanser : j # i => steg[j] \notin Arbeider
    BY <1>3, Alene DEF Gjenopprett, Enerett, Arbeider
  <2>3. Eier' /\ RadStemmer'
    BY <1>3, <2>1, <2>2 DEF Gjenopprett, Enerett, Eier, RadStemmer, Arbeider
  <2>4. Urort'
    BY <2>1, <2>2 DEF Enerett, Urort, Etter, Arbeider
  <2>5. \A o \in Oppgaver : status[o] = "sendt" => o \in avbrutt
    BY <1>3, <2>2 DEF Gjenopprett, Enerett, SendtForklart, Arbeider
  <2>6. SendtForklart' /\ BareAvbrutt'
    BY <2>1, <2>5 DEF Enerett, SendtForklart, BareAvbrutt, Etter
  <2>7. HoystEn'
    BY <2>1 DEF Enerett, HoystEn
  <2> QED
    BY <2>3, <2>4, <2>6, <2>7 DEF Enerett
<1>4. CASE \E o \in Oppgaver : Hent(i, o)
  <2> PICK o \in Oppgaver : Hent(i, o)
    BY <1>4
  <2>1. /\ i_hand'[i] = o
        /\ \A j \in Instanser : j # i => i_hand'[j] = i_hand[j]
    BY DEF Hent, Grunn, TypeOK
  <2> QED
    BY <2>1, EnerettStille DEF Hent, Steg, Arbeider
<1>5. CASE MarkerKjorer(i)
  BY <1>5, EnerettSkriver DEF MarkerKjorer
<1>6. CASE MarkerSendt(i)
  BY <1>6, EnerettSkriver DEF MarkerSendt
<1>7. CASE Arkivkall(i)
  <2> DEFINE o == i_hand[i]
  <2>1. /\ \A j \in Instanser : j # i => steg'[j] = steg[j]
        /\ steg'[i] = "svart" /\ o \in Oppgaver /\ virket[o] = 0 /\ virket'[o] = 1
        /\ \A p \in Oppgaver : p # o => virket'[p] = virket[p]
        /\ UNCHANGED <<laas, i_hand, status, avbrutt>>
    BY <1>7 DEF Arkivkall, Til, Grunn, TypeOK, MinneOK, IHand, Enerett, Urort
  <2>2. \A j \in Instanser : j # i => steg[j] \notin Arbeider
    BY <1>7, Alene DEF Arkivkall, Enerett, Arbeider
  <2>3. steg[i] = "sendt" /\ status[o] = "sendt"
    BY <1>7 DEF Arkivkall, Enerett, RadStemmer
  <2>4. Eier' /\ RadStemmer'
    BY <2>1, <2>2, <2>3 DEF Enerett, Eier, RadStemmer, Arbeider
  <2>5. Urort'
    BY <2>1, <2>2, <2>3 DEF Enerett, Urort, Arbeider
  <2>6. SendtForklart'
    BY <2>1, <2>2, <2>3 DEF Enerett, SendtForklart, Arbeider
  <2>7. HoystEn' /\ BareAvbrutt'
    BY <2>1 DEF Enerett, HoystEn, BareAvbrutt
  <2> QED
    BY <2>4, <2>5, <2>6, <2>7 DEF Enerett
<1>8. CASE Fullfor(i)
  BY <1>8, EnerettSkriver DEF Fullfor
<1>9. CASE Restart(i)
  BY <1>9, EnerettStille DEF Restart, Steg, Hviler, Arbeider
<1> QED
  BY <1>1, <1>2, <1>3, <1>4, <1>5, <1>6, <1>7, <1>8, <1>9 DEF Gaar

LEMMA EnerettAvbryt ==
    ASSUME Grunn, Enerett, NEW i \in Instanser,
           NEW til \in {"pause", "venter", "stoppet"}, Avbryt(i, til)
    PROVE  Enerett'
BY EnerettStille DEF Avbryt, Steg, Hviler, Arbeider

\* A lost session is never forgotten.
LEMMA EnerettSteg ==
    ASSUME Grunn, tap = 0 => Enerett, [Next]_vars
    PROVE  (tap = 0 => Enerett)'
<1> SUFFICES ASSUME tap' = 0
             PROVE  Enerett'
  OBVIOUS
<1>1. CASE UNCHANGED vars
  BY <1>1 DEF vars, Enerett, Eier, RadStemmer, Urort, SendtForklart, HoystEn, BareAvbrutt
<1>2. CASE TapSesjon
  BY <1>2 DEF TapSesjon, Grunn, TypeOK
<1>3. ASSUME NEW i \in Instanser, Nedsteng(i)
      PROVE  Enerett'
  BY <1>3 DEF Nedsteng, Enerett, Eier, RadStemmer, Urort, SendtForklart, HoystEn, BareAvbrutt
<1>4. ASSUME NEW i \in Instanser, Gaar(i)
      PROVE  Enerett'
  <2>1. tap = 0
    BY <1>4 DEF Gaar, TaLaas, Stopp, Gjenopprett, Hent, MarkerKjorer, MarkerSendt,
                Arkivkall, Fullfor, Restart
  <2> QED
    BY <1>4, <2>1, EnerettGaar
<1>5. ASSUME NEW i \in Instanser, NEW til \in {"pause", "venter", "stoppet"}, Avbryt(i, til)
      PROVE  Enerett'
  BY <1>5, EnerettAvbryt DEF Avbryt
<1> QED
  BY <1>1, <1>2, <1>3, <1>4, <1>5 DEF Next

LEMMA EnerettHolder == Spec => [](Grunn /\ (tap = 0 => Enerett))
<1>1. Grunn /\ (tap = 0 => Enerett) /\ [Next]_vars => (Grunn /\ (tap = 0 => Enerett))'
  BY GrunnSteg, EnerettSteg
<1> QED
  BY GrunnInit, EnerettInit, <1>1, PTL DEF Spec

\* While the database keeps its sessions, one instance at a time is past the
\* advisory lock, whatever is deployed, stopped or crashes (OperasjonWorker).
THEOREM EnAktivExecutorHolder == Spec => []EnAktivExecutor
<1>1. Grunn /\ (tap = 0 => Enerett) => EnAktivExecutor
  BY Alene DEF Enerett, EnAktivExecutor, Aktive
<1> QED
  BY EnerettHolder, <1>1, PTL

\* Over all instances, and over the handovers between them, no operation takes
\* effect twice (the attempt log and the recovery of a new leader).
THEOREM HoystEnVirkningIAltHolder == Spec => []HoystEnVirkningIAlt
<1>1. (tap = 0 => Enerett) => HoystEnVirkningIAlt
  BY DEF Enerett, HoystEn, HoystEnVirkningIAlt
<1> QED
  BY EnerettHolder, <1>1, PTL

\* An outcome is unresolved only after an interruption: a handover between
\* instances leaves none (the shutdown of OperasjonWorker).
THEOREM UavklartBareEtterAvbruddHolder == Spec => []UavklartBareEtterAvbrudd
<1>1. (tap = 0 => Enerett) => UavklartBareEtterAvbrudd
  BY DEF Enerett, BareAvbrutt, UavklartBareEtterAvbrudd
<1> QED
  BY EnerettHolder, <1>1, PTL

\* One at a time, and once, over every number of instances and handovers.
THEOREM EnOmGangenHolder == Spec => []EnOmGangen
BY LederskapTyper, EnAktivExecutorHolder, HoystEnVirkningIAltHolder, OkErVirketHolder, PTL
   DEF EnOmGangen

----------------------------------------------------------------------------
(* Queries.                                                                *)
(*                                                                         *)
(* SvarErSant says what a client has been told, and is not inductive: it   *)
(* says nothing of a request that is still on its way.  Plass says that    *)
(* such a request is with one loop only and has no answer, which gives one *)
(* answer at most; Sporet says what its loop knows when it stands there,   *)
(* up to the answer it has composed.  What is known stays so because no    *)
(* step takes anything back (Verden): a case keeps the states it has had,  *)
(* and a reference that has a number keeps it.                             *)

\* What a loop has to answer: what is buffered for it, and what it has in hand.
IKo(i, r) == {buffer[i][r][n] : n \in DOMAIN buffer[i][r]}
Tatt(i, r) == IF b[i][r].steg = "ledig" THEN {} ELSE {b[i][r].id}
Hos(i, r) == IKo(i, r) \cup Tatt(i, r)

\* A request that is with a loop is with no other, and has no answer yet.
EttSted ==
    \A i, j \in Replikaer, r, q \in Ruter : i # j \/ r # q => Hos(i, r) \cap Hos(j, q) = {}
EnGang ==
    \A i \in Replikaer, r \in Ruter :
       /\ IKo(i, r) \cap Tatt(i, r) = {}
       /\ \A n, m \in DOMAIN buffer[i][r] : buffer[i][r][n] = buffer[i][r][m] => n = m
Ubesvart ==
    \A i \in Replikaer, r \in Ruter :
       /\ \A id \in Hos(i, r) : /\ id \in DOMAIN sendt /\ sendt[id].rute = r
                                /\ svar[id] = << >>
       /\ \A id \in Tatt(i, r) : sendt[id].gyldig /\ sendt[id].svarsubjekt
Plass == EttSted /\ EnGang /\ Ubesvart

\* What an answer that is ok says is so.
Riktig(id, y) ==
    /\ oppsett.miljo \notin {"local", "dev", "test"} => Gjengir(id, y)
    /\ ~Falsk => Skjermet(y)
Besvart ==
    \A id \in DOMAIN svar : svar[id] # << >> =>
       /\ sendt[id].svarsubjekt
       /\ \E x : svar[id] = <<x>> /\ (x.status = "ok" => Riktig(id, x.payload))

\* What is known of a request where its loop stands.
SakRuter == {"sak.hent", "sak.med_journalposter"}
Navner(id, s) ==
    /\ s \in Saksnumre /\ sendt[id].rute \in SakRuter
    /\ sendt[id].nokkel \in Saksnumre => sendt[id].nokkel = s
    /\ sendt[id].nokkel \in Referanser => /\ entitet[sendt[id].nokkel] # Nei
                                          /\ entitet[sendt[id].nokkel].arkiv_id = s
Vet(id, hvor, nr, x) ==
    /\ hvor \in {"entitet", "arkiv_id"} =>
          sendt[id].rute \in SakRuter /\ sendt[id].nokkel \in Referanser
    /\ hvor = "arkiv_id" => entitet[sendt[id].nokkel] # Nei
    /\ hvor = "arkiv" => Navner(id, nr)
    /\ hvor = "svar" /\ x.status = "ok" => Riktig(id, x.payload)
Sporet ==
    \A i \in Replikaer, r \in Ruter :
       Vet(b[i][r].id, b[i][r].steg, b[i][r].nr, b[i][r].svar)

\* The past.
Fortid ==
    /\ \A id \in DOMAIN fra, s \in Saksnumre : fra[id][s] <= Len(historie[s])
    /\ sendt # << >> => Starter
    /\ svar = [id \in 1..Len(sendt) |-> svar[id]]
    /\ b = [i \in Replikaer |-> [r \in Ruter |-> b[i][r]]]

Sann == SporringTypeOK /\ Plass /\ Besvart /\ Sporet /\ Fortid

----------------------------------------------------------------------------
(* From the archive's form to the answer *)

LEMMA TilgangVises == ASSUME NEW x, Tilgang(x) # Feil PROVE Vises(x, Tilgang(x))
<1>1. CASE x.kode = Nei /\ x.hjemmel = Nei
  BY <1>1 DEF Tilgang, Vises
<1>2. CASE ~(x.kode = Nei /\ x.hjemmel = Nei)
  <2>1. Tilgang(x) = <<x.kode, x.hjemmel>> /\ {x.kode, x.hjemmel} \cap {Nei, "blank"} = {}
    BY <1>2 DEF Tilgang
  <2>2. <<x.kode, x.hjemmel>> # << >>
    OBVIOUS
  <2> QED
    BY <2>1, <2>2 DEF Vises
<1> QED
  BY <1>1, <1>2

\* A function on 1..n is a sequence of that length.
LEMMA Liste ==
    ASSUME NEW n \in Nat, NEW l, l = [k \in 1..n |-> l[k]]
    PROVE  l \in Seq({l[k] : k \in 1..n}) /\ Len(l) = n /\ DOMAIN l = 1..n
<1> DEFINE S == {l[k] : k \in 1..n}
<1>1. l \in [1..n -> S]
  OBVIOUS
<1>2. l \in Seq(S)
  BY <1>1
<1> QED
  BY <1>1, <1>2

\* The main document comes first, and the others after it in their order.
LEMMA DokumenterGjengir ==
    ASSUME NEW j, NEW y, ErListe(j.dok), Dokumenter(j) # Feil,
           y.id = j.id, y.dok = Dokumenter(j),
           \A n \in DOMAIN j.dok : /\ j.dok[n].id # Nei
                                   /\ \A m \in DOMAIN j.dok \ {n} : j.dok[m].id # j.dok[n].id
    PROVE  GjengirJournalpost(y, j)
<1> DEFINE N == Len(j.dok)
<1>1. N \in Nat /\ DOMAIN j.dok = 1..N
  BY DEF ErListe
<1>2. CASE j.dok = << >> /\ ~j.har_hoveddokument
  <2>1. y.dok = << >>
    BY <1>2 DEF Dokumenter
  <2> QED
    BY <1>2, <2>1 DEF GjengirJournalpost
<1>3. CASE ~(j.dok = << >> /\ ~j.har_hoveddokument)
  <2>1. Cardinality(Hoveddokumenter(j)) = 1
    BY <1>3 DEF Dokumenter
  <2>2. IsFiniteSet(Hoveddokumenter(j))
    <3>1. IsFiniteSet(1..N) /\ Hoveddokumenter(j) \subseteq 1..N
      BY <1>1, FS_Interval DEF Hoveddokumenter
    <3> QED
      BY <3>1, FS_Subset
  <2>3. PICK h : Hoveddokumenter(j) = {h}
    BY <2>1, <2>2, FS_Singleton
  <2>4. (CHOOSE n \in Hoveddokumenter(j) : TRUE) = h
    BY <2>3
  <2> DEFINE P(n) == IF n = 1 THEN h ELSE IF n <= h THEN n - 1 ELSE n
  <2>5. Dokumenter(j) = [n \in DOMAIN j.dok |-> j.dok[P(n)].id]
    BY <1>3, <2>1, <2>4 DEF Dokumenter
  <2>6. y.dok = [n \in 1..N |-> j.dok[P(n)].id]
    BY <2>5, <1>1
  <2>7. h \in 1..N
    BY <2>3, <1>1 DEF Hoveddokumenter
  <2>8. Len(y.dok) = N /\ DOMAIN y.dok = 1..N
    BY <2>6, <1>1, Liste
  <2>9. \A n \in 1..N : P(n) \in 1..N /\ (n = 1 <=> P(n) = h)
    BY <2>7
  <2>10. \A n \in 1..N : \E m \in 1..N : P(m) = n
    <3> TAKE n \in 1..N
    <3>1. CASE n = h
      BY <3>1, <2>7
    <3>2. CASE n < h
      <4>1. P(n + 1) = n /\ n + 1 \in 1..N
        BY <3>2, <2>7
      <4> QED
        BY <4>1
    <3>3. CASE n > h
      <4>1. P(n) = n
        BY <3>3, <2>7
      <4> QED
        BY <4>1
    <3> QED
      BY <3>1, <3>2, <3>3, <2>7
  <2> HIDE DEF P
  <2>11. \A m \in 1..N : y.dok[m] = j.dok[P(m)].id
    BY <2>6
  <2>12. \A n \in DOMAIN j.dok : \E m \in DOMAIN y.dok : y.dok[m] = j.dok[n].id
    <3> TAKE n \in DOMAIN j.dok
    <3>1. PICK m \in 1..N : P(m) = n
      BY <1>1, <2>10
    <3>2. y.dok[m] = j.dok[n].id /\ m \in DOMAIN y.dok
      BY <2>8, <2>11, <3>1
    <3> QED
      BY <3>2
  <2>13. \A m \in 1..N, n \in 1..N : y.dok[m] = j.dok[n].id => P(m) = n
    <3> TAKE m \in 1..N, n \in 1..N
    <3>1. P(m) \in 1..N /\ y.dok[m] = j.dok[P(m)].id
      BY <2>9, <2>11
    <3>2. P(m) # n => j.dok[P(m)].id # j.dok[n].id
      BY <3>1, <1>1
    <3> QED
      BY <3>1, <3>2
  <2>14. \A n \in 1..N : n = h <=> j.dok[n].merket \/ j.dok[n].id = j.hoveddok
    BY <1>1, <2>3 DEF Hoveddokumenter
  <2>15. \A m \in DOMAIN y.dok : \A n \in DOMAIN j.dok :
           y.dok[m] = j.dok[n].id =>
              ((m = 1) <=> (j.dok[n].merket \/ j.dok[n].id = j.hoveddok))
    <3> TAKE m \in DOMAIN y.dok
    <3> TAKE n \in DOMAIN j.dok
    <3>1. m \in 1..N /\ n \in 1..N
      BY <1>1, <2>8
    <3>2. y.dok[m] = j.dok[n].id => P(m) = n
      BY <2>13, <3>1
    <3>3. (m = 1 <=> P(m) = h) /\ (n = h <=> j.dok[n].merket \/ j.dok[n].id = j.hoveddok)
      BY <2>9, <2>14, <3>1
    <3> QED
      BY <3>2, <3>3
  <2> QED
    BY <2>8, <2>12, <2>15 DEF GjengirJournalpost
<1> QED
  BY <1>2, <1>3

\* y is x, numbered s, and its records jp, with the shielding of each.
Gjengitt(y, s, x, jp) ==
    /\ y.nr = s /\ Vises(x, y.tilgang)
    /\ Len(y.jp) = Len(jp) /\ DOMAIN y.jp = DOMAIN jp
    /\ \A n \in DOMAIN y.jp : /\ GjengirJournalpost(y.jp[n], jp[n])
                              /\ Vises(jp[n], y.jp[n].tilgang)

\* A case that can be read is told whole, with its shielding.
LEMMA SakGjengir ==
    ASSUME NEW s, NEW x \in Saker, NEW jp \in {x.jp, << >>}, Sak(s, x, jp) # Feil,
           NEW y, y = Sak(s, x, jp)
    PROVE  Gjengitt(y, s, x, jp)
<1> DEFINE l == [n \in DOMAIN jp |-> Journalpost(jp[n])]
<1>1. /\ Tilgang(x) # Feil /\ \A n \in DOMAIN l : l[n] # Feil
      /\ y = [nr |-> s, tilgang |-> Tilgang(x), jp |-> l]
  BY Zenon DEF Sak
<1>2. Len(jp) \in Nat /\ DOMAIN jp = 1..Len(jp)
  <2>1. ErListe(x.jp)
    BY ArkivAntagelse
  <2> QED
    BY <2>1 DEF ErListe
<1>3. DOMAIN l = DOMAIN jp /\ Len(l) = Len(jp)
  BY <1>2, Liste
<1>4. ASSUME NEW n \in DOMAIN jp
      PROVE  GjengirJournalpost(l[n], jp[n]) /\ Vises(jp[n], l[n].tilgang)
  <2> DEFINE j == jp[n]
  <2>1. /\ ErListe(j.dok)
        /\ \A m \in DOMAIN j.dok : /\ j.lesbar => j.dok[m].id # Nei
                                   /\ \A k \in DOMAIN j.dok \ {m} : j.dok[k].id # j.dok[m].id
    <3>1. jp = x.jp
      BY <1>2
    <3> QED
      BY <3>1, ArkivAntagelse
  <2>2. l[n] = Journalpost(j) /\ l[n] # Feil
    BY <1>1
  <2> HIDE DEF l, j
  <2>3. /\ Tilgang(j) # Feil /\ Dokumenter(j) # Feil /\ j.lesbar
        /\ l[n] = [id |-> j.id, tilgang |-> Tilgang(j), dok |-> Dokumenter(j)]
    BY <2>2 DEF Journalpost
  <2>4. l[n].id = j.id /\ l[n].tilgang = Tilgang(j) /\ l[n].dok = Dokumenter(j)
    BY <2>3
  <2>5. GjengirJournalpost(l[n], j)
    BY <2>1, <2>3, <2>4, DokumenterGjengir
  <2>6. Vises(j, l[n].tilgang)
    BY <2>3, <2>4, TilgangVises
  <2> QED
    BY <2>5, <2>6 DEF j
<1> HIDE DEF l
<1>5. y.nr = s /\ y.tilgang = Tilgang(x) /\ y.jp = l
  BY <1>1
<1> QED
  BY <1>1, <1>3, <1>4, <1>5, TilgangVises DEF Gjengitt

----------------------------------------------------------------------------
(* What a step leaves *)

LEMMA Lengder ==
    ASSUME Sann
    PROVE  /\ Len(sendt) \in Nat /\ Len(fra) = Len(sendt)
           /\ DOMAIN sendt = 1..Len(sendt) /\ DOMAIN fra = 1..Len(sendt)
           /\ DOMAIN svar = 1..Len(sendt)
           /\ \A id \in DOMAIN sendt : sendt[id] \in Foresporsler
BY DEF Sann, SporringTypeOK

\* No step takes a request, a state of a case or a number back.
Verden ==
    /\ oppsett' = oppsett
    /\ \A id \in DOMAIN sendt : id \in DOMAIN sendt' /\ sendt'[id] = sendt[id] /\ fra'[id] = fra[id]
    /\ \A s \in Saksnumre :
         /\ Len(historie'[s]) \in Nat /\ Len(historie'[s]) >= Len(historie[s])
         /\ \A v \in 1..Len(historie[s]) : historie'[s][v] = historie[s][v]
    /\ \A ref \in Referanser :
         entitet[ref] # Nei => /\ entitet'[ref] # Nei
                               /\ entitet[ref].arkiv_id # Nei => entitet'[ref] = entitet[ref]

LEMMA VerdenStille ==
    ASSUME Sann, UNCHANGED <<fast, arkivet, foresp>> PROVE Verden
<1>1. \A s \in Saksnumre : Len(historie[s]) \in Nat
  BY DEF Sann, SporringTypeOK
<1> QED
  BY <1>1 DEF Verden, fast, arkivet, foresp

LEMMA RiktigStaar ==
    ASSUME Sann, Verden, NEW id \in DOMAIN sendt, NEW y, Riktig(id, y)
    PROVE  Riktig(id, y)'
<1> USE DEF Verden
<1>1. \A s \in Saksnumre : Len(historie[s]) \in Nat /\ s # Nei
  BY NeiAntagelse DEF Sann, SporringTypeOK
<1>2. ASSUME Gjengir(id, y) PROVE Gjengir(id, y)'
  <2>1. PICK s \in Saksnumre : \E v \in 1..Len(historie[s]) : ErSaken(id, y, s, v)
    BY <1>2 DEF Gjengir
  <2>2. PICK v \in 1..Len(historie[s]) : ErSaken(id, y, s, v)
    BY <2>1
  <2>3. v \in 1..Len(historie'[s]) /\ historie'[s][v] = historie[s][v]
    BY <1>1
  <2>4. /\ sendt'[id] = sendt[id] /\ fra'[id] = fra[id]
        /\ sendt[id].nokkel \in Referanser =>
              entitet'[sendt[id].nokkel] = entitet[sendt[id].nokkel]
    BY <2>2, <1>1 DEF ErSaken
  <2> HIDE DEF Verden
  <2>5. ErSaken(id, y, s, v)'
    BY <2>2, <2>3, <2>4 DEF ErSaken
  <2> QED
    BY <2>3, <2>5 DEF Gjengir
<1>3. ASSUME Skjermet(y) PROVE Skjermet(y)'
  <2> SUFFICES ASSUME NEW s \in Saksnumre, y.nr = s
               PROVE  \E v \in 1..Len(historie'[s]) :
                         /\ Vises(historie'[s][v], y.tilgang)
                         /\ \A n \in DOMAIN y.jp : Vises(historie'[s][v].jp[n], y.jp[n].tilgang)
    BY DEF Skjermet, Vises
  <2>1. PICK v \in 1..Len(historie[s]) :
          /\ Vises(historie[s][v], y.tilgang)
          /\ \A n \in DOMAIN y.jp : Vises(historie[s][v].jp[n], y.jp[n].tilgang)
    BY <1>3 DEF Skjermet
  <2>2. v \in 1..Len(historie'[s]) /\ historie'[s][v] = historie[s][v]
    BY <1>1
  <2> QED
    BY <2>1, <2>2
<1>4. oppsett' = oppsett
  OBVIOUS
<1> HIDE DEF Verden
<1> QED
  BY <1>2, <1>3, <1>4 DEF Riktig, Falsk

LEMMA VetStaar ==
    ASSUME Sann, Verden, NEW id \in DOMAIN sendt, NEW hvor, NEW nr, NEW x,
           Vet(id, hvor, nr, x)
    PROVE  Vet(id, hvor, nr, x)'
<1>1. sendt'[id] = sendt[id] /\ sendt[id].nokkel \in Referanser \cup Saksnumre
  BY Lengder, SporringAntagelse DEF Verden
<1>2. Navner(id, nr) => Navner(id, nr)'
  <2>1. nr \in Saksnumre => nr # Nei
    BY NeiAntagelse
  <2> QED
    BY <1>1, <2>1 DEF Navner, Verden
<1>3. hvor = "svar" /\ x.status = "ok" => Riktig(id, x.payload)'
  BY RiktigStaar DEF Vet
<1>4. hvor = "arkiv_id" => entitet'[sendt[id].nokkel] # Nei
  BY DEF Vet, Verden
<1> QED
  BY <1>1, <1>2, <1>3, <1>4 DEF Vet

LEMMA SporetSteg ==
    ASSUME Sann, Verden,
           \A i \in Replikaer, r \in Ruter :
              \/ b'[i][r] = b[i][r] \/ b'[i][r].steg = "ledig"
              \/ Vet(b[i][r].id, b[i][r].steg, b[i][r].nr, b[i][r].svar)'
    PROVE  Sporet'
<1> SUFFICES ASSUME NEW i \in Replikaer, NEW r \in Ruter
             PROVE  Vet(b[i][r].id, b[i][r].steg, b[i][r].nr, b[i][r].svar)'
  BY DEF Sporet
<1>1. CASE b'[i][r].steg = "ledig"
  BY <1>1 DEF Vet
<1>2. CASE b'[i][r] = b[i][r] /\ b[i][r].steg # "ledig"
  <2>1. PICK id, hvor, nr, x : /\ id = b[i][r].id /\ hvor = b[i][r].steg
                               /\ nr = b[i][r].nr /\ x = b[i][r].svar
    OBVIOUS
  <2>2. id \in DOMAIN sendt /\ Vet(id, hvor, nr, x)
    BY <1>2, <2>1 DEF Sann, Sporet, Plass, Ubesvart, Hos, Tatt
  <2>3. Vet(id, hvor, nr, x)'
    BY <2>2, VetStaar
  <2>4. id = b'[i][r].id /\ hvor = b'[i][r].steg /\ nr = b'[i][r].nr /\ x = b'[i][r].svar
    BY <1>2, <2>1
  <2> QED
    BY <2>3, <2>4
<1> QED
  BY <1>1, <1>2

LEMMA BesvartSteg ==
    ASSUME Sann, Verden,
           \A id \in DOMAIN svar' :
              \/ svar'[id] = << >>
              \/ id \in DOMAIN svar /\ svar'[id] = svar[id]
              \/ /\ sendt'[id].svarsubjekt
                 /\ \E x : svar'[id] = <<x>> /\ (x.status = "ok" => Riktig(id, x.payload)')
    PROVE  Besvart'
<1> SUFFICES ASSUME NEW id \in DOMAIN svar', svar'[id] # << >>
             PROVE  /\ sendt'[id].svarsubjekt
                    /\ \E x : svar'[id] = <<x>> /\ (x.status = "ok" => Riktig(id, x.payload)')
  BY DEF Besvart
<1>1. CASE id \in DOMAIN svar /\ svar'[id] = svar[id]
  <2>1. id \in DOMAIN sendt /\ sendt'[id] = sendt[id]
    BY <1>1, Lengder DEF Verden
  <2>2. PICK x : svar[id] = <<x>> /\ (x.status = "ok" => Riktig(id, x.payload))
    BY <1>1 DEF Sann, Besvart
  <2>3. x.status = "ok" => Riktig(id, x.payload)'
    BY <2>1, <2>2, RiktigStaar
  <2> QED
    BY <1>1, <2>1, <2>2, <2>3 DEF Sann, Besvart
<1> QED
  BY <1>1

LEMMA PlassSteg ==
    ASSUME Sann, EnGang',
           \A i \in Replikaer, r \in Ruter :
              /\ Hos(i, r)' \subseteq Hos(i, r)
              /\ \A id \in Hos(i, r)' : svar'[id] = << >>
              /\ \A id \in Tatt(i, r)' : sendt[id].gyldig /\ sendt[id].svarsubjekt,
           sendt' = sendt
    PROVE  Plass'
<1>1. EttSted'
  BY DEF Sann, Plass, EttSted
<1>2. Ubesvart'
  BY DEF Sann, Plass, Ubesvart
<1> QED
  BY <1>1, <1>2 DEF Plass

----------------------------------------------------------------------------
(* The steps of a loop *)

\* A request that a loop has in hand is one it is to answer, and has not.
LEMMA HarIHand ==
    ASSUME Sann, NEW i \in Replikaer, NEW r \in Ruter, b[i][r].steg # "ledig",
           NEW id, id = b[i][r].id
    PROVE  /\ id \in DOMAIN sendt /\ sendt[id].rute = r
           /\ sendt[id].gyldig /\ sendt[id].svarsubjekt /\ svar[id] = << >>
<1>1. id \in Tatt(i, r) /\ id \in Hos(i, r)
  BY DEF Hos, Tatt
<1>2. Ubesvart
  BY DEF Sann, Plass
<1> QED
  BY <1>1, <1>2 DEF Ubesvart

\* From one place to the next.
LEMMA LoopSteg ==
    ASSUME Sann, NEW i \in Replikaer, NEW r \in Ruter, b[i][r].steg # "ledig",
           NEW hvor \in {"arkiv_id", "arkiv", "svar"}, NEW nr, NEW x,
           Videre(i, r, Arbeid(b[i][r].id, hvor, nr, x)),
           Vet(b[i][r].id, hvor, nr, x),
           UNCHANGED <<fast, arkivet, foresp, svar, tapt, lytter, buffer, endringer>>,
           sviktet' \in 0..forlop.feil
    PROVE  Sann'
<1>1. PICK id : id = b[i][r].id
  OBVIOUS
<1>2. /\ id \in DOMAIN sendt /\ sendt[id].rute = r /\ sendt[id].gyldig /\ sendt[id].svarsubjekt
      /\ svar[id] = << >>
  BY <1>1, HarIHand
<1>3. /\ b' = [j \in Replikaer |-> [q \in Ruter |-> b'[j][q]]]
      /\ \A j \in Replikaer, q \in Ruter :
            b'[j][q] = IF j = i /\ q = r THEN Arbeid(id, hvor, nr, x) ELSE b[j][q]
  BY <1>1 DEF Videre, Sann, Fortid
<1>4. /\ b'[i][r].id = id /\ b'[i][r].steg = hvor
      /\ b'[i][r].nr = nr /\ b'[i][r].svar = x
  BY <1>3 DEF Arbeid
<1>5. Verden
  BY VerdenStille
<1>6. Sporet'
  <2>1. Vet(id, hvor, nr, x)'
    BY <1>1, <1>2, <1>5, VetStaar
  <2>2. Vet(b[i][r].id, b[i][r].steg, b[i][r].nr, b[i][r].svar)'
    BY <2>1, <1>4
  <2> QED
    BY <2>2, <1>3, <1>5, SporetSteg
<1>7. Besvart'
  BY <1>5, BesvartSteg DEF Sann, Besvart
<1>8. \A j \in Replikaer, q \in Ruter :
        /\ IKo(j, q)' = IKo(j, q) /\ Tatt(j, q)' = Tatt(j, q)
  <2> TAKE j \in Replikaer, q \in Ruter
  <2>1. IKo(j, q)' = IKo(j, q)
    BY DEF IKo
  <2>2. CASE j = i /\ q = r
    BY <1>1, <1>4, <2>1, <2>2 DEF Tatt
  <2>3. CASE ~(j = i /\ q = r)
    <3>1. b'[j][q] = b[j][q]
      BY <1>3, <2>3
    <3> QED
      BY <2>1, <3>1 DEF Tatt
  <2> QED
    BY <2>2, <2>3
<1>9. Plass'
  <2>1. EnGang'
    BY <1>8 DEF Sann, Plass, EnGang
  <2>2. \A j \in Replikaer, q \in Ruter : Hos(j, q)' = Hos(j, q)
    BY <1>8 DEF Hos
  <2> QED
    BY <2>1, <2>2, <1>8, PlassSteg DEF Sann, Plass, Ubesvart, foresp
<1>10. SporringTypeOK'
  <2>1. hvor = "arkiv" => nr \in Saksnumre
    BY DEF Vet, Navner
  <2>2. /\ lytter' = lytter /\ sendt' = sendt /\ buffer' = buffer /\ fra' = fra
        /\ svar' = svar /\ tapt' = tapt
    BY DEF foresp
  <2>3. \A j \in Replikaer, q \in Ruter :
          /\ b'[j][q].steg \in {"ledig", "entitet", "arkiv_id", "arkiv", "svar"}
          /\ b'[j][q].steg # "ledig" => F(j, q)'.rute = q /\ F(j, q)'.gyldig
          /\ b'[j][q].steg = "arkiv" => b'[j][q].nr \in Saksnumre
    <3> TAKE j \in Replikaer, q \in Ruter
    <3>1. CASE j = i /\ q = r
      <4>1. F(j, q)' = sendt[id]
        BY <1>4, <2>2, <3>1 DEF F
      <4> QED
        BY <1>2, <1>4, <2>1, <3>1, <4>1
    <3>2. CASE ~(j = i /\ q = r)
      <4>1. b'[j][q] = b[j][q]
        BY <1>3, <3>2
      <4>2. F(j, q)' = F(j, q)
        BY <2>2, <4>1 DEF F
      <4> QED
        BY <4>1, <4>2 DEF Sann, SporringTypeOK
    <3> QED
      BY <3>1, <3>2
  <2> QED
    BY <2>3, <2>2 DEF Sann, SporringTypeOK, fast, arkivet
<1>11. Fortid'
  BY <1>3 DEF Sann, Fortid, Starter, fast, arkivet, foresp
<1> QED
  BY <1>6, <1>7, <1>9, <1>10, <1>11 DEF Sann

LEMMA InternFeilSteg ==
    ASSUME Sann, NEW i \in Replikaer, NEW r \in Ruter, b[i][r].steg # "ledig", InternFeil(i, r),
           UNCHANGED <<fast, arkivet, foresp, svar, tapt, lytter, buffer, endringer>>,
           sviktet' \in 0..forlop.feil
    PROVE  Sann'
<1>1. Vet(b[i][r].id, "svar", Nei, Error("Internal error"))
  BY DEF Vet, Error
<1> QED
  BY <1>1, LoopSteg DEF InternFeil

LEMMA Uskadd == Sann => sviktet \in 0..forlop.feil
BY DEF Sann, SporringTypeOK

LEMMA SlaaOppEntitetSteg ==
    ASSUME Sann, NEW i \in Replikaer, NEW r \in Ruter, SlaaOppEntitet(i, r) PROVE Sann'
<1> DEFINE id == b[i][r].id
<1>1. /\ b[i][r].steg = "entitet"
      /\ UNCHANGED <<fast, arkivet, foresp, svar, tapt, lytter, buffer, endringer>>
      /\ sviktet' \in 0..forlop.feil
      /\ \/ InternFeil(i, r)
         \/ entitet[F(i, r).nokkel] # Nei /\ Videre(i, r, Arbeid(id, "arkiv_id", Nei, Nei))
  BY Uskadd DEF SlaaOppEntitet, Star
<1>2. CASE InternFeil(i, r)
  BY <1>1, <1>2, InternFeilSteg
<1>3. CASE entitet[F(i, r).nokkel] # Nei /\ Videre(i, r, Arbeid(id, "arkiv_id", Nei, Nei))
  <2>1. Vet(id, "arkiv_id", Nei, Nei)
    BY <1>1, <1>3 DEF Vet, F, Sann, Sporet
  <2> QED
    BY <1>1, <1>3, <2>1, LoopSteg
<1> QED
  BY <1>1, <1>2, <1>3

LEMMA SlaaOppArkivIdSteg ==
    ASSUME Sann, NEW i \in Replikaer, NEW r \in Ruter, SlaaOppArkivId(i, r) PROVE Sann'
<1> DEFINE id == b[i][r].id
<1>1. /\ b[i][r].steg = "arkiv_id"
      /\ UNCHANGED <<fast, arkivet, foresp, svar, tapt, lytter, buffer, endringer>>
      /\ sviktet' \in 0..forlop.feil
  BY Uskadd DEF SlaaOppArkivId, Star
<1>2. PICK s : s = entitet[F(i, r).nokkel].arkiv_id
  OBVIOUS
<1>3. CASE s = Nei
  <2>1. InternFeil(i, r)
    BY <1>2, <1>3 DEF SlaaOppArkivId
  <2> QED
    BY <1>1, <2>1, InternFeilSteg
<1>4. CASE s # Nei
  <2>1. Videre(i, r, Arbeid(id, "arkiv", s, Nei))
    BY <1>2, <1>4 DEF SlaaOppArkivId
  <2>2. /\ F(i, r).nokkel \in Referanser /\ sendt[id].rute \in SakRuter
        /\ entitet[F(i, r).nokkel] # Nei
    BY <1>1 DEF Sann, Sporet, Vet, F
  <2>3. s \in Saksnumre
    BY <1>2, <1>4, <2>2 DEF Sann, SporringTypeOK, Rad
  <2>4. Navner(id, s)
    BY <1>2, <2>2, <2>3, SporringAntagelse DEF Navner, F
  <2>5. Vet(id, "arkiv", s, Nei)
    BY <2>4 DEF Vet
  <2> QED
    BY <1>1, <2>1, <2>5, LoopSteg
<1> QED
  BY <1>3, <1>4

\* What the archive answered is told as it was.
LEMMA SvaretRiktig ==
    ASSUME Sann, NEW id \in DOMAIN sendt, NEW s, Navner(id, s), NEW x,
           x = Svaret(s, Arkiv(s), sendt[id].rute), x.status = "ok"
    PROVE  Riktig(id, x.payload)
<1>1. Starter
  BY Lengder DEF Sann, Fortid
<1>2. CASE Falsk
  BY <1>1, <1>2 DEF Riktig, Starter, Falsk, FakeTillatt
<1>3. CASE ~Falsk
  <2> DEFINE v == Len(historie[s])
             z == historie[s][v]
             jp == IF sendt[id].rute = "sak.med_journalposter" THEN z.jp ELSE << >>
             y == Sak(s, z, jp)
  <2>1. /\ s \in Saksnumre /\ historie[s] \in Seq(Saker)
        /\ \A k \in DOMAIN fra : fra[k][s] <= Len(historie[s])
    BY DEF Navner, Sann, SporringTypeOK, Fortid
  <2>2. historie[s] # << >> /\ Arkiv(s) = z
    <3>1. Arkiv(s) # Nei
      BY <1>3 DEF Svaret, Error
    <3> QED
      BY <3>1 DEF Arkiv
  <2>3. v \in 1..Len(historie[s]) /\ z \in Saker /\ v >= fra[id][s]
    BY <2>1, <2>2, Lengder
  <2>4. z # Nei
    BY <2>3, NeiAntagelse
  <2>5. y # Feil /\ x = Ok(y)
    BY <1>3, <2>2, <2>4 DEF Svaret, Error
  <2>6. x.payload = y
    BY <2>5 DEF Ok
  <2>7. PICK zz, jj : zz = z /\ jj = jp
    OBVIOUS
  <2>8. zz \in Saker /\ jj \in {zz.jp, << >>} /\ Sak(s, zz, jj) # Feil
    BY <2>3, <2>5, <2>7
  <2>9. /\ x.payload = Sak(s, zz, jj) /\ zz = historie[s][v]
        /\ jj = IF sendt[id].rute = "sak.med_journalposter" THEN zz.jp ELSE << >>
    BY <2>6, <2>7
  <2> HIDE DEF z, jp, y
  <2>10. /\ x.payload.nr = s /\ Vises(zz, x.payload.tilgang)
         /\ Len(x.payload.jp) = Len(jj) /\ DOMAIN x.payload.jp = DOMAIN jj
         /\ \A n \in DOMAIN x.payload.jp : /\ GjengirJournalpost(x.payload.jp[n], jj[n])
                                           /\ Vises(jj[n], x.payload.jp[n].tilgang)
    <3>1. PICK yy : yy = x.payload
      OBVIOUS
    <3>2. yy = Sak(s, zz, jj) /\ zz \in Saker /\ jj \in {zz.jp, << >>} /\ Sak(s, zz, jj) # Feil
      BY <2>8, <2>9, <3>1
    <3>3. Gjengitt(yy, s, zz, jj)
      BY <3>2, SakGjengir
    <3> QED
      BY <3>1, <3>3 DEF Gjengitt
  <2>11. ErSaken(id, x.payload, s, v)
    <3>1. sendt[id].rute # "sak.med_journalposter" => x.payload.jp = << >>
      <4> SUFFICES ASSUME sendt[id].rute # "sak.med_journalposter" PROVE x.payload.jp = << >>
        OBVIOUS
      <4>1. jj = << >>
        BY <2>9
      <4>2. Len(x.payload.jp) = 0 /\ DOMAIN x.payload.jp = {}
        BY <4>1, <2>10
      <4> QED
        BY <4>2
    <3>2. sendt[id].rute = "sak.med_journalposter" => jj = zz.jp
      BY <2>9
    <3> QED
      BY <2>3, <2>9, <2>10, <3>1, <3>2 DEF ErSaken, Navner
  <2>12. Gjengir(id, x.payload)
    BY <2>1, <2>3, <2>11 DEF Gjengir
  <2>13. \A n \in DOMAIN x.payload.jp : Vises(zz.jp[n], x.payload.jp[n].tilgang)
    BY <2>8, <2>10
  <2>14. Skjermet(x.payload)
    <3>1. \A s2 : x.payload.nr = s2 => s2 = s
      BY <2>10
    <3>2. /\ Vises(historie[s][v], x.payload.tilgang)
          /\ \A n \in DOMAIN x.payload.jp : Vises(historie[s][v].jp[n], x.payload.jp[n].tilgang)
      BY <2>9, <2>10, <2>13
    <3> HIDE DEF v
    <3> QED
      BY <2>3, <3>1, <3>2 DEF Skjermet
  <2> QED
    BY <2>12, <2>14 DEF Riktig
<1> QED
  BY <1>2, <1>3

LEMMA LesArkivSteg ==
    ASSUME Sann, NEW i \in Replikaer, NEW r \in Ruter, LesArkiv(i, r) PROVE Sann'
<1>1. PICK id, s, x : /\ id = b[i][r].id /\ s = b[i][r].nr
                      /\ x = Svaret(s, Arkiv(s), r)
  OBVIOUS
<1>2. /\ b[i][r].steg = "arkiv" /\ sviktet' \in 0..forlop.feil
      /\ UNCHANGED <<fast, arkivet, foresp, svar, tapt, lytter, buffer, endringer>>
      /\ Videre(i, r, Arbeid(b[i][r].id, "svar", Nei, x))
  BY <1>1, Uskadd DEF LesArkiv, Star
<1>3. id \in DOMAIN sendt /\ sendt[id].rute = r /\ Navner(id, s)
  <2>1. b[i][r].steg # "ledig" /\ Vet(id, b[i][r].steg, s, b[i][r].svar)
    BY <1>1, <1>2 DEF Sann, Sporet
  <2>2. Navner(id, s)
    BY <1>2, <2>1 DEF Vet
  <2> QED
    BY <1>1, <2>1, <2>2, HarIHand
<1>4. x.status = "ok" => Riktig(id, x.payload)
  BY <1>1, <1>3, SvaretRiktig
<1>5. Vet(b[i][r].id, "svar", Nei, x)
  BY <1>1, <1>4 DEF Vet
<1> QED
  BY <1>2, <1>5, LoopSteg

LEMMA SvikterSteg ==
    ASSUME Sann, NEW i \in Replikaer, NEW r \in Ruter, Svikter(i, r) PROVE Sann'
<1>1. sviktet' \in 0..forlop.feil
  <2>1. forlop.feil \in Nat
    BY SporringAntagelse DEF Sann, SporringTypeOK
  <2> QED
    BY <2>1, Uskadd DEF Svikter
<1>2. b[i][r].steg # "ledig" /\ InternFeil(i, r)
  BY DEF Svikter, Star
<1> QED
  BY <1>1, <1>2, InternFeilSteg DEF Svikter

----------------------------------------------------------------------------
(* Answers and messages *)

LEMMA ForsteSvar == \A x : Append(<< >>, x) = <<x>>
<1> TAKE x
<1>1. << >> \in Seq({x}) /\ x \in {x}
  OBVIOUS
<1> QED
  BY <1>1

LEMMA Publisert ==
    ASSUME Sann, NEW id \in DOMAIN sendt, svar[id] = << >>, NEW x, Publiser(id, x)
    PROVE  /\ svar' = [k \in 1..Len(sendt) |-> svar'[k]]
           /\ \A k \in DOMAIN svar \ {id} : svar'[k] = svar[k]
           /\ svar'[id] = << >> \/ svar'[id] = <<x>>
           /\ tapt' \subseteq DOMAIN sendt /\ sviktet' \in 0..forlop.feil
<1>1. /\ forlop.feil \in Nat /\ tapt \subseteq DOMAIN sendt /\ sviktet \in 0..forlop.feil
      /\ svar = [k \in 1..Len(sendt) |-> svar[k]] /\ id \in 1..Len(sendt)
  BY SporringAntagelse, Lengder DEF Sann, SporringTypeOK, Fortid
<1>2. CASE svar' = [svar EXCEPT ![id] = Append(@, x)] /\ UNCHANGED <<tapt, sviktet>>
  <2>1. Append(<< >>, x) = <<x>>
    BY ForsteSvar
  <2> QED
    BY <1>1, <1>2, <2>1
<1>3. CASE /\ sviktet < forlop.feil /\ sviktet' = sviktet + 1
           /\ tapt' = tapt \cup {id} /\ UNCHANGED svar
  BY <1>1, <1>3
<1> QED
  BY <1>2, <1>3 DEF Publiser

LEMMA Halen ==
    ASSUME NEW S, NEW k \in Seq(S), k # << >>
    PROVE  /\ Tail(k) \in Seq(S) /\ Len(k) \in Nat \ {0} /\ DOMAIN k = 1..Len(k)
           /\ DOMAIN Tail(k) = 1..(Len(k) - 1)
           /\ \A n \in 1..(Len(k) - 1) : Tail(k)[n] = k[n + 1]
           /\ Head(k) = k[1]
<1>1. Len(k) \in Nat /\ DOMAIN k = 1..Len(k) /\ Head(k) = k[1]
  OBVIOUS
<1>2. Len(k) # 0
  OBVIOUS
<1>3. Tail(k) \in Seq(S) /\ Len(Tail(k)) = Len(k) - 1
  OBVIOUS
<1>4. DOMAIN Tail(k) = 1..(Len(k) - 1)
  BY <1>1, <1>2, <1>3
<1>5. \A n \in 1..(Len(k) - 1) : Tail(k)[n] = k[n + 1]
  BY <1>1, <1>2
<1> QED
  BY <1>1, <1>2, <1>3, <1>4, <1>5

\* What is with a loop waits for its answer.
LEMMA Venter ==
    ASSUME Sann, NEW i \in Replikaer, NEW r \in Ruter, NEW id \in Hos(i, r)
    PROVE  /\ id \in DOMAIN sendt /\ id \in DOMAIN svar /\ svar[id] = << >>
           /\ sendt[id].rute = r
           /\ \A j \in Replikaer, q \in Ruter : ~(j = i /\ q = r) => id \notin Hos(j, q)
BY Lengder DEF Sann, Plass, Ubesvart, EttSted

ForsteTas(i, r) == buffer[i][r] # << >> /\ buffer' = [buffer EXCEPT ![i][r] = Tail(@)]

LEMMA KoTatt ==
    ASSUME Sann, NEW i \in Replikaer, NEW r \in Ruter, ForsteTas(i, r)
    PROVE  /\ buffer' \in [Replikaer -> [Ruter -> Seq(DOMAIN sendt)]]
           /\ Head(buffer[i][r]) \in IKo(i, r)
           /\ IKo(i, r)' = IKo(i, r) \ {Head(buffer[i][r])}
           /\ \A j \in Replikaer, q \in Ruter :
                 /\ ~(j = i /\ q = r) => IKo(j, q)' = IKo(j, q)
                 /\ \A n, m \in DOMAIN buffer'[j][q] : buffer'[j][q][n] = buffer'[j][q][m] => n = m
<1> DEFINE k == buffer[i][r]  t == Tail(k)
<1>1. /\ buffer \in [Replikaer -> [Ruter -> Seq(DOMAIN sendt)]] /\ k \in Seq(DOMAIN sendt)
      /\ \A n, m \in DOMAIN k : k[n] = k[m] => n = m
  BY DEF Sann, SporringTypeOK, Plass, EnGang
<1>2. /\ t \in Seq(DOMAIN sendt) /\ Len(k) \in Nat \ {0} /\ DOMAIN k = 1..Len(k)
      /\ DOMAIN t = 1..(Len(k) - 1) /\ \A n \in 1..(Len(k) - 1) : t[n] = k[n + 1]
      /\ Head(k) = k[1]
  BY <1>1, Halen DEF ForsteTas
<1>3. /\ buffer' \in [Replikaer -> [Ruter -> Seq(DOMAIN sendt)]] /\ buffer'[i][r] = t
      /\ \A j \in Replikaer, q \in Ruter : ~(j = i /\ q = r) => buffer'[j][q] = buffer[j][q]
  BY <1>1, <1>2 DEF ForsteTas
<1> HIDE DEF k, t
<1>4. {t[n] : n \in DOMAIN t} = {k[n] : n \in DOMAIN k} \ {k[1]}
  <2>1. ASSUME NEW n \in 2..Len(k) PROVE n - 1 \in DOMAIN t /\ t[n - 1] = k[n]
    BY <1>2
  <2>2. ASSUME NEW n \in DOMAIN t
        PROVE  n + 1 \in DOMAIN k /\ t[n] = k[n + 1] /\ n + 1 # 1
    BY <1>2
  <2>3. ASSUME NEW x \in {t[n] : n \in DOMAIN t}
        PROVE  x \in {k[n] : n \in DOMAIN k} \ {k[1]}
    <3>1. PICK n \in DOMAIN t : x = t[n]
      OBVIOUS
    <3>2. n + 1 \in DOMAIN k /\ x = k[n + 1] /\ n + 1 # 1 /\ 1 \in DOMAIN k
      BY <1>2, <2>2, <3>1
    <3> QED
      BY <1>1, <3>2
  <2>4. ASSUME NEW x \in {k[n] : n \in DOMAIN k} \ {k[1]}
        PROVE  x \in {t[n] : n \in DOMAIN t}
    <3>1. PICK n \in DOMAIN k : x = k[n] /\ n # 1
      OBVIOUS
    <3>2. n \in 2..Len(k)
      BY <1>2, <3>1
    <3>3. n - 1 \in DOMAIN t /\ t[n - 1] = x
      BY <2>1, <3>1, <3>2
    <3> QED
      BY <3>3
  <2> QED
    BY <2>3, <2>4
<1>5. IKo(i, r)' = IKo(i, r) \ {Head(k)} /\ Head(k) \in IKo(i, r)
  <2>1. IKo(i, r)' = {t[n] : n \in DOMAIN t}
    BY <1>3 DEF IKo
  <2>2. IKo(i, r) = {k[n] : n \in DOMAIN k}
    BY DEF IKo, k
  <2>3. 1 \in DOMAIN k
    BY <1>2
  <2> QED
    BY <1>2, <1>4, <2>1, <2>2, <2>3
<1>6. \A n, m \in DOMAIN t : t[n] = t[m] => n = m
  <2> TAKE n, m \in DOMAIN t
  <2>1. /\ n \in Nat /\ n + 1 \in DOMAIN k /\ t[n] = k[n + 1]
        /\ m \in Nat /\ m + 1 \in DOMAIN k /\ t[m] = k[m + 1]
    BY <1>2
  <2>2. t[n] = t[m] => n + 1 = m + 1
    BY <1>1, <2>1
  <2> QED
    BY <2>1, <2>2
<1>7. ASSUME NEW j \in Replikaer, NEW q \in Ruter
      PROVE  /\ ~(j = i /\ q = r) => IKo(j, q)' = IKo(j, q)
             /\ \A n, m \in DOMAIN buffer'[j][q] : buffer'[j][q][n] = buffer'[j][q][m] => n = m
  <2>1. CASE j = i /\ q = r
    BY <1>3, <1>6, <2>1
  <2>2. CASE ~(j = i /\ q = r)
    BY <1>3, <2>2 DEF IKo, Sann, Plass, EnGang
  <2> QED
    BY <2>1, <2>2
<1> QED
  BY <1>3, <1>5, <1>7 DEF k

\* What is known of a request when its loop has taken it.
LEMMA ForsteVet ==
    ASSUME Sann, NEW id \in DOMAIN sendt, NEW e, e = ForsteSteg(id, sendt[id])
    PROVE  /\ e.id = id /\ e.steg \in {"entitet", "arkiv", "svar"}
           /\ Vet(id, e.steg, e.nr, e.svar)
<1> DEFINE f == sendt[id]
<1>1. f.nokkel \in Referanser \cup Saksnumre /\ f.rute \in Ruter
  BY Lengder, SporringAntagelse
<1>2. CASE f.rute = "journalpost.hent"
  <2>1. PICK x : x = IF Falsk THEN Ok(FakeSak(Nei)) ELSE Error("Internal error")
    OBVIOUS
  <2>5. e = Arbeid(id, "svar", Nei, x)
    BY <1>2, <2>1 DEF ForsteSteg
  <2>6. e.id = id /\ e.steg = "svar" /\ e.nr = Nei /\ e.svar = x
    BY <2>5 DEF Arbeid
  <2>2. x.status = "ok" => Falsk
    BY <2>1 DEF Error
  <2>3. Starter
    BY Lengder DEF Sann, Fortid
  <2>4. x.status = "ok" => Riktig(id, x.payload)
    BY <2>2, <2>3 DEF Riktig, Starter, Falsk, FakeTillatt
  <2> QED
    BY <2>6, <2>4 DEF Vet
<1>3. CASE f.rute = "bruker.mt_enheter"
  BY <1>3 DEF ForsteSteg, Vet, Arbeid, Error
<1>4. CASE f.rute \in SakRuter /\ f.nokkel \in Saksnumre
  <2>1. e = Arbeid(id, "arkiv", f.nokkel, Nei)
    BY <1>4 DEF ForsteSteg, SakRuter
  <2>2. Navner(id, f.nokkel)
    BY <1>4, SporringAntagelse DEF Navner
  <2> QED
    BY <2>1, <2>2 DEF Vet, Arbeid
<1>5. CASE f.rute \in SakRuter /\ f.nokkel \notin Saksnumre
  <2>1. e = Arbeid(id, "entitet", Nei, Nei)
    BY <1>5 DEF ForsteSteg, SakRuter
  <2> QED
    BY <1>1, <1>5, <2>1 DEF Vet, Arbeid
<1> QED
  BY <1>1, <1>2, <1>3, <1>4, <1>5 DEF Ruter, SakRuter

\* A message is taken: an answer to what cannot be read, or the first wait.
LEMMA MottaSteg ==
    ASSUME Sann, NEW i \in Replikaer, NEW r \in Ruter, Motta(i, r) PROVE Sann'
<1> DEFINE H == Head(buffer[i][r])
<1>1. /\ b[i][r].steg = "ledig" /\ ForsteTas(i, r)
      /\ UNCHANGED <<fast, arkivet, foresp, lytter, endringer>>
  BY DEF Motta, Star, ForsteTas
<1>2. PICK id : id = H
  OBVIOUS
<1>3. /\ buffer' \in [Replikaer -> [Ruter -> Seq(DOMAIN sendt)]]
      /\ id \in IKo(i, r) /\ IKo(i, r)' = IKo(i, r) \ {id}
      /\ \A j \in Replikaer, q \in Ruter :
            /\ ~(j = i /\ q = r) => IKo(j, q)' = IKo(j, q)
            /\ \A n, m \in DOMAIN buffer'[j][q] : buffer'[j][q][n] = buffer'[j][q][m] => n = m
  <2>1. /\ buffer' \in [Replikaer -> [Ruter -> Seq(DOMAIN sendt)]]
        /\ H \in IKo(i, r) /\ IKo(i, r)' = IKo(i, r) \ {H}
        /\ \A j \in Replikaer, q \in Ruter :
              /\ ~(j = i /\ q = r) => IKo(j, q)' = IKo(j, q)
              /\ \A n, m \in DOMAIN buffer'[j][q] :
                    buffer'[j][q][n] = buffer'[j][q][m] => n = m
    BY <1>1, KoTatt
  <2> HIDE DEF H
  <2> QED
    BY <1>2, <2>1
<1>4. id \in DOMAIN sendt /\ sendt[id].rute = r /\ svar[id] = << >>
  BY <1>3 DEF Sann, Plass, Ubesvart, Hos
<1>5. /\ \/ UNCHANGED b
         \/ /\ sendt[id].svarsubjekt /\ sendt[id].gyldig
            /\ Videre(i, r, ForsteSteg(id, sendt[id]))
      /\ \/ UNCHANGED <<svar, tapt, sviktet>>
         \/ /\ UNCHANGED b /\ sendt[id].svarsubjekt
            /\ Publiser(id, Error("Invalid request format"))
  BY <1>2 DEF Motta
<1>6. /\ svar' = [k \in 1..Len(sendt) |-> svar'[k]]
      /\ \A k \in DOMAIN svar \ {id} : svar'[k] = svar[k]
      /\ \/ svar'[id] = << >>
         \/ /\ UNCHANGED b /\ sendt[id].svarsubjekt
            /\ svar'[id] = <<Error("Invalid request format")>>
      /\ tapt' \subseteq DOMAIN sendt /\ sviktet' \in 0..forlop.feil
  <2>1. CASE UNCHANGED <<svar, tapt, sviktet>>
    BY <2>1, <1>4 DEF Sann, SporringTypeOK, Fortid
  <2>2. CASE /\ UNCHANGED b /\ sendt[id].svarsubjekt
             /\ Publiser(id, Error("Invalid request format"))
    BY <2>2, <1>4, Publisert
  <2> QED
    BY <1>5, <2>1, <2>2
<1>7. PICK e : e = ForsteSteg(id, sendt[id])
  OBVIOUS
<1>8. /\ e.id = id /\ e.steg \in {"entitet", "arkiv", "svar"}
      /\ Vet(id, e.steg, e.nr, e.svar)
  BY <1>4, <1>7, ForsteVet
<1>9. /\ b' = [j \in Replikaer |-> [q \in Ruter |-> b'[j][q]]]
      /\ \A j \in Replikaer, q \in Ruter :
            \/ b'[j][q] = b[j][q]
            \/ j = i /\ q = r /\ b'[j][q] = e /\ sendt[id].svarsubjekt /\ sendt[id].gyldig
      /\ svar'[id] # << >> => b' = b
  <2>1. b = [j \in Replikaer |-> [q \in Ruter |-> b[j][q]]]
    BY DEF Sann, Fortid
  <2>2. CASE UNCHANGED b
    BY <2>1, <2>2
  <2>3. CASE ~UNCHANGED b
    <3>1. b' = [b EXCEPT ![i][r] = e] /\ sendt[id].svarsubjekt /\ sendt[id].gyldig
      BY <1>5, <1>7, <2>3 DEF Videre
    <3>2. svar'[id] = << >>
      BY <1>6, <2>3
    <3> QED
      BY <2>1, <3>1, <3>2
  <2> QED
    BY <2>2, <2>3
<1>10. Verden /\ sendt' = sendt /\ fra' = fra
  BY <1>1, VerdenStille DEF foresp
<1>11. Sporet'
  <2>1. Vet(id, e.steg, e.nr, e.svar)'
    BY <1>4, <1>8, <1>10, VetStaar
  <2>2. ASSUME b'[i][r] = e PROVE Vet(b[i][r].id, b[i][r].steg, b[i][r].nr, b[i][r].svar)'
    BY <1>8, <2>1, <2>2
  <2> QED
    BY <1>9, <1>10, <2>2, SporetSteg
<1>12. Besvart'
  <2>1. DOMAIN svar' = DOMAIN svar
    BY <1>6, Lengder
  <2>2. svar'[id] = << >> \/ (/\ sendt'[id].svarsubjekt
                              /\ \E x : svar'[id] = <<x>> /\ x.status # "ok")
    <3>1. PICK x : x = Error("Invalid request format")
      OBVIOUS
    <3>2. x.status = "error"
      BY <3>1 DEF Error
    <3> QED
      BY <1>6, <1>10, <3>1, <3>2
  <2> QED
    BY <1>6, <1>10, <2>1, <2>2, BesvartSteg
<1>13. Plass'
  <2>1. \A j \in Replikaer, q \in Ruter :
          /\ ~(j = i /\ q = r) => Tatt(j, q)' = Tatt(j, q)
          /\ Tatt(i, r) = {} /\ Tatt(i, r)' \subseteq {id}
          /\ svar'[id] # << >> => Tatt(i, r)' = {}
          /\ Tatt(i, r)' # {} => sendt[id].gyldig /\ sendt[id].svarsubjekt
    BY <1>1, <1>8, <1>9 DEF Tatt
  <2>2. EnGang'
    BY <1>3, <2>1 DEF Sann, Plass, EnGang
  <2>3. ASSUME NEW j \in Replikaer, NEW q \in Ruter
        PROVE  /\ Hos(j, q)' \subseteq Hos(j, q)
               /\ \A k \in Hos(j, q)' : svar'[k] = << >>
               /\ \A k \in Tatt(j, q)' : sendt[k].gyldig /\ sendt[k].svarsubjekt
    <3>1. CASE j = i /\ q = r
      <4>1. Hos(j, q)' \subseteq Hos(j, q)
        BY <1>3, <2>1, <3>1 DEF Hos
      <4>2. \A k \in Hos(j, q)' : k # id => svar'[k] = << >>
        BY <4>1, <1>6, Venter
      <4>3. id \in Hos(j, q)' => svar'[id] = << >>
        BY <1>3, <2>1, <3>1 DEF Hos
      <4> QED
        BY <4>1, <4>2, <4>3, <2>1, <3>1
    <3>2. CASE ~(j = i /\ q = r)
      <4>1. Hos(j, q)' = Hos(j, q) /\ Tatt(j, q)' = Tatt(j, q)
        BY <1>3, <2>1, <3>2 DEF Hos
      <4>2. id \notin Hos(j, q)
        <5>1. id \in Hos(i, r)
          BY <1>3 DEF Hos
        <5> QED
          BY <3>2, <5>1, Venter
      <4>3. \A k \in Hos(j, q) : k # id /\ svar'[k] = << >>
        BY <4>2, <1>6, Venter
      <4> QED
        BY <4>1, <4>3 DEF Sann, Plass, Ubesvart
    <3> QED
      BY <3>1, <3>2
  <2> QED
    BY <2>2, <2>3, <1>10, PlassSteg
<1>14. SporringTypeOK'
  <2>1. \A j \in Replikaer, q \in Ruter :
          /\ b'[j][q].steg \in {"ledig", "entitet", "arkiv_id", "arkiv", "svar"}
          /\ b'[j][q].steg # "ledig" => F(j, q)'.rute = q /\ F(j, q)'.gyldig
          /\ b'[j][q].steg = "arkiv" => b'[j][q].nr \in Saksnumre
    <3> TAKE j \in Replikaer, q \in Ruter
    <3>1. CASE b'[j][q] = b[j][q]
      <4>1. F(j, q)' = F(j, q)
        BY <1>10, <3>1 DEF F
      <4> QED
        BY <3>1, <4>1 DEF Sann, SporringTypeOK
    <3>2. CASE j = i /\ q = r /\ b'[j][q] = e /\ sendt[id].svarsubjekt /\ sendt[id].gyldig
      <4>1. F(j, q)' = sendt[id]
        BY <1>8, <1>10, <3>2 DEF F
      <4> QED
        BY <1>4, <1>8, <3>2, <4>1 DEF Vet, Navner
    <3> QED
      BY <1>9, <3>1, <3>2
  <2>2. DOMAIN svar' = DOMAIN sendt
    BY <1>6, Lengder
  <2> QED
    BY <1>1, <1>3, <1>6, <1>10, <2>1, <2>2 DEF Sann, SporringTypeOK, fast, arkivet
<1>15. Fortid'
  BY <1>1, <1>6, <1>9, <1>10 DEF Sann, Fortid, Starter, fast, arkivet
<1> QED
  BY <1>11, <1>12, <1>13, <1>14, <1>15 DEF Sann

\* An answer is published or lost, and the loop is free.
LEMMA SvarSteg ==
    ASSUME Sann, NEW i \in Replikaer, NEW r \in Ruter, Svar(i, r) PROVE Sann'
<1>1. /\ b[i][r].steg = "svar" /\ b' = [b EXCEPT ![i][r] = Ledig]
      /\ UNCHANGED <<fast, arkivet, foresp, lytter, buffer, endringer>>
  BY DEF Svar, Star
<1>2. PICK id, z, x : id = b[i][r].id /\ z = b[i][r].svar /\ x = Avgrens(z)
  OBVIOUS
<1>3. id \in Hos(i, r) /\ id \in Tatt(i, r)
  BY <1>1, <1>2 DEF Hos, Tatt
<1>4. /\ id \in DOMAIN sendt /\ id \in DOMAIN svar /\ svar[id] = << >>
      /\ sendt[id].svarsubjekt
      /\ \A j \in Replikaer, q \in Ruter : ~(j = i /\ q = r) => id \notin Hos(j, q)
  BY <1>3, Venter DEF Sann, Plass, Ubesvart
<1>5. x.status = "ok" => Riktig(id, x.payload)
  <2>1. x.status = "ok" => x = z
    BY <1>2 DEF Avgrens, Error
  <2>2. z.status = "ok" => Riktig(id, z.payload)
    BY <1>1, <1>2 DEF Sann, Sporet, Vet
  <2> QED
    BY <2>1, <2>2
<1>6. Publiser(id, x)
  BY <1>2 DEF Svar
<1>7. /\ svar' = [k \in 1..Len(sendt) |-> svar'[k]]
      /\ \A k \in DOMAIN svar \ {id} : svar'[k] = svar[k]
      /\ svar'[id] = << >> \/ svar'[id] = <<x>>
      /\ tapt' \subseteq DOMAIN sendt /\ sviktet' \in 0..forlop.feil
  BY <1>4, <1>6, Publisert
<1>8. Verden /\ sendt' = sendt /\ fra' = fra /\ buffer' = buffer /\ lytter' = lytter
  BY <1>1, VerdenStille DEF foresp
<1>9. /\ b' = [j \in Replikaer |-> [q \in Ruter |-> b'[j][q]]]
      /\ \A j \in Replikaer, q \in Ruter : ~(j = i /\ q = r) => b'[j][q] = b[j][q]
      /\ b'[i][r].steg = "ledig"
  BY <1>1 DEF Sann, Fortid, Ledig, Arbeid
<1>10. Sporet'
  BY <1>8, <1>9, SporetSteg
<1>11. Besvart'
  <2>1. DOMAIN svar' = DOMAIN svar
    BY <1>7, Lengder
  <2>2. x.status = "ok" => Riktig(id, x.payload)'
    BY <1>4, <1>5, <1>8, RiktigStaar
  <2> QED
    BY <1>4, <1>7, <1>8, <2>1, <2>2, BesvartSteg
<1>12. Plass'
  <2>1. \A j \in Replikaer, q \in Ruter :
          /\ IKo(j, q)' = IKo(j, q) /\ Tatt(j, q)' \subseteq Tatt(j, q)
          /\ j = i /\ q = r => Tatt(j, q)' = {}
    BY <1>8, <1>9 DEF IKo, Tatt
  <2>2. EnGang'
    BY <1>8, <2>1 DEF Sann, Plass, EnGang
  <2>3. ASSUME NEW j \in Replikaer, NEW q \in Ruter
        PROVE  /\ Hos(j, q)' \subseteq Hos(j, q) /\ id \notin Hos(j, q)'
               /\ \A k \in Hos(j, q)' : svar'[k] = << >>
               /\ \A k \in Tatt(j, q)' : sendt[k].gyldig /\ sendt[k].svarsubjekt
    <3>1. Hos(j, q)' \subseteq Hos(j, q)
      BY <2>1 DEF Hos
    <3>2. id \notin Hos(j, q)'
      <4>1. CASE j = i /\ q = r
        <5>1. id \notin IKo(i, r)
          BY <1>3 DEF Sann, Plass, EnGang
        <5> QED
          BY <2>1, <4>1, <5>1 DEF Hos
      <4>2. CASE ~(j = i /\ q = r)
        BY <1>4, <3>1, <4>2
      <4> QED
        BY <4>1, <4>2
    <3>3. \A k \in Hos(j, q) : k # id => svar'[k] = << >>
      BY <1>7, Venter
    <3> QED
      BY <2>1, <3>1, <3>2, <3>3 DEF Sann, Plass, Ubesvart
  <2> QED
    BY <2>2, <2>3, <1>8, PlassSteg
<1>13. SporringTypeOK'
  <2>1. \A j \in Replikaer, q \in Ruter :
          /\ b'[j][q].steg \in {"ledig", "entitet", "arkiv_id", "arkiv", "svar"}
          /\ b'[j][q].steg # "ledig" => F(j, q)'.rute = q /\ F(j, q)'.gyldig
          /\ b'[j][q].steg = "arkiv" => b'[j][q].nr \in Saksnumre
    <3> TAKE j \in Replikaer, q \in Ruter
    <3>1. CASE j = i /\ q = r
      BY <1>9, <3>1
    <3>2. CASE ~(j = i /\ q = r)
      <4>1. b'[j][q] = b[j][q] /\ F(j, q)' = F(j, q)
        BY <1>8, <1>9, <3>2 DEF F
      <4> QED
        BY <4>1 DEF Sann, SporringTypeOK
    <3> QED
      BY <3>1, <3>2
  <2>2. DOMAIN svar' = DOMAIN sendt
    BY <1>7, Lengder
  <2> QED
    BY <1>1, <1>7, <1>8, <2>1, <2>2 DEF Sann, SporringTypeOK, fast, arkivet
<1>14. Fortid'
  BY <1>1, <1>7, <1>8, <1>9 DEF Sann, Fortid, Starter, fast, arkivet
<1> QED
  BY <1>10, <1>11, <1>12, <1>13, <1>14 DEF Sann

\* The loops of an instance are dropped where they stand.
LEMMA SubscriptionSlutterSteg ==
    ASSUME Sann, NEW i \in Replikaer, NEW r \in Ruter, SubscriptionSlutter(i, r) PROVE Sann'
<1>1. /\ sviktet < forlop.feil /\ sviktet' = sviktet + 1
      /\ lytter' = [lytter EXCEPT ![i] = {}] /\ tapt' = tapt \cup Underveis(i)
      /\ buffer' = [buffer EXCEPT ![i] = [q \in Ruter |-> << >>]]
      /\ b' = [b EXCEPT ![i] = [q \in Ruter |-> Ledig]]
      /\ UNCHANGED <<fast, arkivet, foresp, svar, endringer>>
  BY DEF SubscriptionSlutter
<1>2. Verden /\ sendt' = sendt /\ fra' = fra /\ svar' = svar
  BY <1>1, VerdenStille DEF foresp
<1>3. /\ b' = [j \in Replikaer |-> [q \in Ruter |-> b'[j][q]]]
      /\ \A j \in Replikaer, q \in Ruter :
            b'[j][q] = IF j = i THEN Ledig ELSE b[j][q]
      /\ Ledig.steg = "ledig"
  BY <1>1 DEF Sann, Fortid, Ledig, Arbeid
<1>4. /\ buffer' \in [Replikaer -> [Ruter -> Seq(DOMAIN sendt)]]
      /\ \A j \in Replikaer, q \in Ruter :
            buffer'[j][q] = IF j = i THEN << >> ELSE buffer[j][q]
  BY <1>1 DEF Sann, SporringTypeOK
<1>5. Sporet'
  BY <1>2, <1>3, SporetSteg
<1>6. Besvart'
  BY <1>2, BesvartSteg DEF Sann, Besvart
<1>7. Plass'
  <2>1. \A j \in Replikaer, q \in Ruter :
          /\ IKo(j, q)' = IF j = i THEN {} ELSE IKo(j, q)
          /\ Tatt(j, q)' = IF j = i THEN {} ELSE Tatt(j, q)
    <3> TAKE j \in Replikaer, q \in Ruter
    <3>1. CASE j = i
      <4>1. buffer'[j][q] = << >> /\ b'[j][q].steg = "ledig"
        BY <1>3, <1>4, <3>1
      <4> QED
        BY <3>1, <4>1 DEF IKo, Tatt
    <3>2. CASE j # i
      <4>1. buffer'[j][q] = buffer[j][q] /\ b'[j][q] = b[j][q]
        BY <1>3, <1>4, <3>2
      <4> QED
        BY <3>2, <4>1 DEF IKo, Tatt
    <3> QED
      BY <3>1, <3>2
  <2>2. EnGang'
    <3> SUFFICES ASSUME NEW j \in Replikaer, NEW q \in Ruter
                 PROVE  /\ IKo(j, q)' \cap Tatt(j, q)' = {}
                        /\ \A n, m \in DOMAIN buffer'[j][q] :
                              buffer'[j][q][n] = buffer'[j][q][m] => n = m
      BY DEF EnGang
    <3>1. CASE j = i
      BY <1>4, <2>1, <3>1
    <3>2. CASE j # i
      <4>1. /\ buffer'[j][q] = buffer[j][q] /\ IKo(j, q)' = IKo(j, q)
            /\ Tatt(j, q)' = Tatt(j, q)
        BY <1>4, <2>1, <3>2
      <4> QED
        BY <4>1 DEF Sann, Plass, EnGang
    <3> QED
      BY <3>1, <3>2
  <2>3. \A j \in Replikaer, q \in Ruter :
          /\ Hos(j, q)' \subseteq Hos(j, q)
          /\ \A k \in Hos(j, q)' : svar'[k] = << >>
          /\ \A k \in Tatt(j, q)' : sendt[k].gyldig /\ sendt[k].svarsubjekt
    BY <1>2, <2>1 DEF Hos, Sann, Plass, Ubesvart
  <2> QED
    BY <1>2, <2>2, <2>3, PlassSteg
<1>8. SporringTypeOK'
  <2>1. Underveis(i) \subseteq DOMAIN sendt
    <3>1. ASSUME NEW k \in Underveis(i) PROVE \E q \in Ruter : k \in Hos(i, q)
      BY <3>1 DEF Underveis, Hos, IKo, Tatt
    <3> QED
      BY <3>1, Venter
  <2>2. forlop.feil \in Nat
    BY SporringAntagelse DEF Sann, SporringTypeOK
  <2>3. \A j \in Replikaer, q \in Ruter :
          /\ b'[j][q].steg \in {"ledig", "entitet", "arkiv_id", "arkiv", "svar"}
          /\ b'[j][q].steg # "ledig" => F(j, q)'.rute = q /\ F(j, q)'.gyldig
          /\ b'[j][q].steg = "arkiv" => b'[j][q].nr \in Saksnumre
    <3> TAKE j \in Replikaer, q \in Ruter
    <3>1. CASE j = i
      BY <1>3, <3>1
    <3>2. CASE j # i
      <4>1. b'[j][q] = b[j][q] /\ F(j, q)' = F(j, q)
        BY <1>2, <1>3, <3>2 DEF F
      <4> QED
        BY <4>1 DEF Sann, SporringTypeOK
    <3> QED
      BY <3>1, <3>2
  <2> QED
    BY <1>1, <1>2, <1>4, <2>1, <2>2, <2>3 DEF Sann, SporringTypeOK, fast, arkivet
<1>9. Fortid'
  BY <1>1, <1>2, <1>3 DEF Sann, Fortid, Starter, fast, arkivet
<1> QED
  BY <1>5, <1>6, <1>7, <1>8, <1>9 DEF Sann

\* What leaves the loops alone.
LEMMA LoopeneStaar ==
    ASSUME Sann, Verden, UNCHANGED <<foresp, svar, buffer, b>>
    PROVE  /\ Plass' /\ Besvart' /\ Sporet'
           /\ \A j \in Replikaer, q \in Ruter : F(j, q)' = F(j, q)
<1>1. Sporet'
  BY SporetSteg
<1>2. Besvart'
  BY BesvartSteg DEF Sann, Besvart
<1>3. \A j \in Replikaer, q \in Ruter : IKo(j, q)' = IKo(j, q) /\ Tatt(j, q)' = Tatt(j, q)
  BY DEF IKo, Tatt
<1>4. \A j \in Replikaer, q \in Ruter : Hos(j, q)' = Hos(j, q)
  BY <1>3 DEF Hos
<1>5. Plass'
  BY <1>3, <1>4 DEF Sann, Plass, EttSted, EnGang, Ubesvart, foresp
<1> QED
  BY <1>1, <1>2, <1>5 DEF F, foresp

LEMMA RunSteg == ASSUME Sann, NEW i \in Replikaer, Run(i) PROVE Sann'
<1>1. /\ lytter' = [lytter EXCEPT ![i] = Ruter]
      /\ UNCHANGED <<fast, arkivet, foresp, svar, tapt, buffer, b, endringer, sviktet>>
  BY DEF Run
<1>2. Verden
  BY <1>1, VerdenStille
<1>3. /\ Plass' /\ Besvart' /\ Sporet'
      /\ \A j \in Replikaer, q \in Ruter : F(j, q)' = F(j, q)
  BY <1>1, <1>2, LoopeneStaar
<1>4. SporringTypeOK'
  BY <1>1, <1>3 DEF Sann, SporringTypeOK, fast, arkivet, foresp
<1>5. Fortid'
  BY <1>1 DEF Sann, Fortid, Starter, fast, arkivet, foresp
<1> QED
  BY <1>3, <1>4, <1>5 DEF Sann

----------------------------------------------------------------------------
(* Clients and executors *)

LEMMA Lagt ==
    ASSUME NEW S, NEW k \in Seq(S), NEW e, NEW l, l = Append(k, e)
    PROVE  /\ Len(k) \in Nat /\ DOMAIN k = 1..Len(k)
           /\ l \in Seq(S \cup {e}) /\ Len(l) = Len(k) + 1 /\ DOMAIN l = 1..(Len(k) + 1)
           /\ \A n \in DOMAIN k : l[n] = k[n]
           /\ l[Len(k) + 1] = e
           /\ {l[n] : n \in DOMAIN l} = {k[n] : n \in DOMAIN k} \cup {e}
<1>1. Len(k) \in Nat /\ DOMAIN k = 1..Len(k) /\ k \in Seq(S \cup {e}) /\ e \in S \cup {e}
  OBVIOUS
<1>2. /\ l \in Seq(S \cup {e}) /\ Len(l) = Len(k) + 1
      /\ \A n \in 1..Len(k) : l[n] = k[n]
      /\ l[Len(k) + 1] = e
  BY <1>1
<1>3. DOMAIN l = 1..(Len(k) + 1)
  BY <1>1, <1>2
<1>4. \A n \in DOMAIN l : n \in DOMAIN k \/ n = Len(k) + 1
  BY <1>1, <1>3
<1>5. \A n \in DOMAIN k : n \in DOMAIN l
  BY <1>1, <1>3
<1>6. Len(k) + 1 \in DOMAIN l
  BY <1>1, <1>3
<1> QED
  BY <1>1, <1>2, <1>3, <1>4, <1>5, <1>6

\* A request reaches one loop at most, and is new there.
LEMMA SendSteg == ASSUME Sann, NEW f \in Foresporsler, Send(f) PROVE Sann'
<1>1. PICK N, ny : N = Len(sendt) /\ ny = Len(sendt) + 1
  OBVIOUS
<1>2. /\ Starter /\ N < forlop.antall /\ N \in Nat /\ ny = N + 1 /\ ny \notin 1..N
      /\ sendt' = Append(sendt, f) /\ svar' = Append(svar, << >>)
      /\ fra' = Append(fra, [s \in Saksnumre |-> Len(historie[s])])
      /\ UNCHANGED <<fast, arkivet, lytter, b, endringer, sviktet>>
  BY <1>1, Lengder DEF Send
<1>3. /\ sendt \in Seq(Foresporsler) /\ fra \in Seq([Saksnumre -> Nat]) /\ Len(fra) = N
      /\ DOMAIN sendt = 1..N /\ DOMAIN fra = 1..N /\ DOMAIN svar = 1..N
      /\ svar \in Seq({svar[k] : k \in 1..N}) /\ Len(svar) = N
  <2>1. svar = [k \in 1..N |-> svar[k]]
    BY <1>1 DEF Sann, Fortid
  <2>2. PICK l : l = svar
    OBVIOUS
  <2>3. l = [k \in 1..N |-> l[k]]
    BY <2>1, <2>2
  <2>4. l \in Seq({l[k] : k \in 1..N}) /\ Len(l) = N
    <3>1. N \in Nat
      BY <1>2
    <3> QED
      BY <3>1, <2>3, Liste
  <2>5. svar \in Seq({svar[k] : k \in 1..N}) /\ Len(svar) = N
    BY <2>2, <2>4
  <2> QED
    BY <1>1, <2>5, Lengder DEF Sann, SporringTypeOK
<1>4. /\ sendt' \in Seq(Foresporsler) /\ Len(sendt') = ny /\ DOMAIN sendt' = 1..ny
      /\ sendt'[ny] = f /\ \A k \in 1..N : sendt'[k] = sendt[k]
  <2>1. /\ sendt' \in Seq(Foresporsler \cup {f}) /\ Len(sendt') = ny /\ DOMAIN sendt' = 1..ny
        /\ sendt'[ny] = f /\ \A k \in 1..N : sendt'[k] = sendt[k]
    BY <1>1, <1>2, <1>3, Lagt
  <2>2. Foresporsler \cup {f} = Foresporsler
    OBVIOUS
  <2> QED
    BY <2>1, <2>2
<1>5. /\ fra' \in Seq([Saksnumre -> Nat]) /\ Len(fra') = ny /\ DOMAIN fra' = 1..ny
      /\ fra'[ny] = [s \in Saksnumre |-> Len(historie[s])]
      /\ \A k \in 1..N : fra'[k] = fra[k]
  <2>1. PICK e : e = [s \in Saksnumre |-> Len(historie[s])]
    OBVIOUS
  <2>2. e \in [Saksnumre -> Nat]
    BY <2>1 DEF Sann, SporringTypeOK
  <2>3. /\ fra' \in Seq([Saksnumre -> Nat] \cup {e}) /\ Len(fra') = ny /\ DOMAIN fra' = 1..ny
        /\ fra'[ny] = e /\ \A k \in 1..N : fra'[k] = fra[k]
    BY <1>2, <1>3, <2>1, Lagt
  <2>4. [Saksnumre -> Nat] \cup {e} = [Saksnumre -> Nat]
    BY <2>2
  <2> QED
    BY <2>1, <2>3, <2>4
<1>6. /\ DOMAIN svar' = 1..ny /\ Len(svar') = ny /\ svar'[ny] = << >>
      /\ \A k \in 1..N : svar'[k] = svar[k]
      /\ svar' = [k \in 1..ny |-> svar'[k]]
  <2>1. PICK S : S = {svar[k] : k \in 1..N}
    OBVIOUS
  <2>2. PICK k, l, e : k = svar /\ l = svar' /\ e = << >>
    OBVIOUS
  <2>3. k \in Seq(S) /\ l = Append(k, e) /\ Len(k) = N
    BY <1>2, <1>3, <2>1, <2>2
  <2>4. /\ l \in Seq(S \cup {e}) /\ DOMAIN l = 1..ny /\ l[ny] = e
        /\ Len(l) = ny /\ \A n \in 1..N : l[n] = k[n]
    BY <1>2, <2>3, Lagt
  <2>5. l = [n \in 1..ny |-> l[n]]
    BY <2>4
  <2> QED
    BY <2>2, <2>4, <2>5
<1>7. PICK M \in Mottakere(f.rute) :
         /\ buffer' = [i \in Replikaer |-> IF i \in M
                         THEN [buffer[i] EXCEPT ![f.rute] = Append(@, ny)] ELSE buffer[i]]
         /\ tapt' = IF M = {} THEN tapt \cup {ny} ELSE tapt
  BY <1>1 DEF Send
<1>8. \A i, j \in M : i = j
  BY DEF Mottakere
<1>9. f.rute \in Ruter
  BY SporringAntagelse
<1>10. Verden
  <2>1. \A s \in Saksnumre : Len(historie[s]) \in Nat
    BY DEF Sann, SporringTypeOK
  <2> QED
    BY <1>2, <1>3, <1>4, <1>5, <2>1 DEF Verden, fast, arkivet
<1> DEFINE Dit(j, q) == j \in M /\ q = f.rute
<1>11. ASSUME NEW j \in Replikaer, NEW q \in Ruter
       PROVE  /\ buffer'[j][q] = IF Dit(j, q) THEN Append(buffer[j][q], ny) ELSE buffer[j][q]
              /\ buffer'[j][q] \in Seq(DOMAIN sendt')
              /\ IKo(j, q)' = IKo(j, q) \cup (IF Dit(j, q) THEN {ny} ELSE {})
              /\ \A n, m \in DOMAIN buffer'[j][q] : buffer'[j][q][n] = buffer'[j][q][m] => n = m
              /\ DOMAIN buffer'[j] = Ruter
  <2>1. PICK k, l : k = buffer[j][q] /\ l = buffer'[j][q]
    OBVIOUS
  <2>0. PICK D : D = 1..N
    OBVIOUS
  <2>2. /\ k \in Seq(D) /\ buffer[j] \in [Ruter -> Seq(D)]
        /\ \A n, m \in DOMAIN k : k[n] = k[m] => n = m
    BY <1>3, <2>0, <2>1 DEF Sann, SporringTypeOK, Plass, EnGang
  <2>3. l = (IF Dit(j, q) THEN Append(k, ny) ELSE k) /\ DOMAIN buffer'[j] = Ruter
    BY <1>7, <2>1, <2>2
  <2>4. D \cup {ny} = 1..ny
    BY <1>2, <2>0
  <2>5. CASE Dit(j, q)
    <3>1. l = Append(k, ny)
      BY <2>3, <2>5
    <3>2. /\ Len(k) \in Nat /\ DOMAIN k = 1..Len(k) /\ l \in Seq(D \cup {ny})
          /\ DOMAIN l = 1..(Len(k) + 1) /\ \A n \in DOMAIN k : l[n] = k[n]
          /\ l[Len(k) + 1] = ny
          /\ {l[n] : n \in DOMAIN l} = {k[n] : n \in DOMAIN k} \cup {ny}
      BY <2>2, <3>1, Lagt
    <3>3. \A n \in DOMAIN k : k[n] # ny
      <4>1. \A n \in DOMAIN k : k[n] \in D
        BY <2>2
      <4> QED
        BY <1>2, <2>0, <4>1
    <3>4. \A n, m \in DOMAIN l : l[n] = l[m] => n = m
      <4> TAKE n, m \in DOMAIN l
      <4>1. n \in DOMAIN k \/ n = Len(k) + 1
        BY <3>2
      <4>2. m \in DOMAIN k \/ m = Len(k) + 1
        BY <3>2
      <4> QED
        BY <4>1, <4>2, <3>2, <3>3, <2>2
    <3>5. l \in Seq(1..ny)
      BY <3>2, <2>4
    <3> HIDE DEF Dit
    <3>6. IKo(j, q)' = {l[n] : n \in DOMAIN l} /\ IKo(j, q) = {k[n] : n \in DOMAIN k}
      BY <2>1 DEF IKo
    <3> QED
      BY <1>4, <2>1, <2>3, <2>5, <3>1, <3>2, <3>4, <3>5, <3>6
  <2>6. CASE ~Dit(j, q)
    <3>1. l = k
      BY <2>3, <2>6
    <3>2. l \in Seq(1..ny)
      <4>1. \A S, T : S \subseteq T /\ l \in Seq(S) => l \in Seq(T)
        OBVIOUS
      <4> QED
        BY <2>2, <2>4, <3>1, <4>1
    <3> HIDE DEF Dit
    <3>3. IKo(j, q)' = {l[n] : n \in DOMAIN l} /\ IKo(j, q) = {k[n] : n \in DOMAIN k}
      BY <2>1 DEF IKo
    <3> QED
      BY <1>4, <2>1, <2>2, <2>3, <2>6, <3>1, <3>2, <3>3
  <2> QED
    BY <2>5, <2>6
<1>12. ASSUME NEW j \in Replikaer, NEW q \in Ruter
       PROVE  Tatt(j, q)' = Tatt(j, q) /\ Hos(j, q) \subseteq 1..N
  BY <1>2, <1>3 DEF Tatt, Sann, Plass, Ubesvart
<1> HIDE DEF Dit
<1>13. ASSUME NEW j \in Replikaer, NEW q \in Ruter
       PROVE  Hos(j, q)' = Hos(j, q) \cup (IF Dit(j, q) THEN {ny} ELSE {})
  BY <1>11, <1>12 DEF Hos
<1>14. Plass'
  <2>1. EttSted'
    <3> SUFFICES ASSUME NEW i \in Replikaer, NEW j \in Replikaer, NEW r \in Ruter, NEW q \in Ruter,
                        i # j \/ r # q, NEW k, k \in Hos(i, r)', k \in Hos(j, q)'
                 PROVE  FALSE
      BY DEF EttSted
    <3>1. ~(Dit(i, r) /\ Dit(j, q))
      BY <1>8 DEF Dit
    <3>2. ny \notin Hos(i, r) /\ ny \notin Hos(j, q)
      BY <1>2, <1>12
    <3>3. k \in Hos(i, r) /\ k \in Hos(j, q)
      BY <1>13, <3>1, <3>2
    <3> QED
      BY <3>3 DEF Sann, Plass, EttSted
  <2>2. EnGang'
    <3> SUFFICES ASSUME NEW j \in Replikaer, NEW q \in Ruter
                 PROVE  IKo(j, q)' \cap Tatt(j, q)' = {}
      BY <1>11 DEF EnGang
    <3>1. IKo(j, q) \cap Tatt(j, q) = {} /\ ny \notin Tatt(j, q)
      BY <1>2, <1>12 DEF Sann, Plass, EnGang, Hos
    <3> QED
      BY <3>1, <1>11, <1>12
  <2>3. Ubesvart'
    <3> SUFFICES ASSUME NEW j \in Replikaer, NEW q \in Ruter
                 PROVE  /\ \A k \in Hos(j, q)' : /\ k \in DOMAIN sendt' /\ sendt'[k].rute = q
                                                 /\ svar'[k] = << >>
                        /\ \A k \in Tatt(j, q)' : sendt'[k].gyldig /\ sendt'[k].svarsubjekt
      BY DEF Ubesvart
    <3>1. \A k \in Hos(j, q) : /\ k \in 1..N /\ sendt[k].rute = q /\ svar[k] = << >>
      BY <1>3 DEF Sann, Plass, Ubesvart
    <3>2. \A k \in Hos(j, q) : /\ k \in 1..ny /\ sendt'[k].rute = q /\ svar'[k] = << >>
      BY <1>2, <1>4, <1>6, <3>1
    <3>3. Dit(j, q) => ny \in 1..ny /\ sendt'[ny].rute = q /\ svar'[ny] = << >>
      BY <1>2, <1>4, <1>6 DEF Dit
    <3>4. \A k \in Hos(j, q)' : k \in Hos(j, q) \/ (k = ny /\ Dit(j, q))
      BY <1>13
    <3>5. \A k \in Tatt(j, q) : sendt[k].gyldig /\ sendt[k].svarsubjekt /\ k \in 1..N
      BY <3>1 DEF Sann, Plass, Ubesvart, Hos
    <3> QED
      BY <1>4, <1>12, <3>2, <3>3, <3>4, <3>5
  <2> QED
    BY <2>1, <2>2, <2>3 DEF Plass
<1>15. Besvart'
  <2>1. ASSUME NEW k \in DOMAIN svar'
        PROVE  svar'[k] = << >> \/ (k \in DOMAIN svar /\ svar'[k] = svar[k])
    <3>1. k \in 1..N \/ k = ny
      BY <1>2, <1>6
    <3> QED
      BY <1>3, <1>6, <3>1
  <2> QED
    BY <1>10, <2>1, BesvartSteg
<1>16. Sporet'
  BY <1>2, <1>10, SporetSteg
<1>17. SporringTypeOK'
  <2>1. buffer' \in [Replikaer -> [Ruter -> Seq(DOMAIN sendt')]]
    <3>1. buffer' = [j \in Replikaer |-> buffer'[j]]
      BY <1>7
    <3>2. \A j \in Replikaer : buffer'[j] = [q \in Ruter |-> buffer'[j][q]]
      BY <1>7 DEF Sann, SporringTypeOK
    <3>3. \A j \in Replikaer : buffer'[j] \in [Ruter -> Seq(DOMAIN sendt')]
      BY <1>11, <3>2
    <3> QED
      BY <3>1, <3>3
  <2>2. tapt' \subseteq 1..ny
    <3>1. tapt \subseteq 1..N
      BY <1>3 DEF Sann, SporringTypeOK
    <3> QED
      BY <1>2, <1>7, <3>1
  <2>3. ny <= forlop.antall
    <3>1. forlop.antall \in Nat
      BY SporringAntagelse DEF Sann, SporringTypeOK
    <3> QED
      BY <1>2, <3>1
  <2>4. \A j \in Replikaer, q \in Ruter :
          /\ b'[j][q].steg \in {"ledig", "entitet", "arkiv_id", "arkiv", "svar"}
          /\ b'[j][q].steg # "ledig" => F(j, q)'.rute = q /\ F(j, q)'.gyldig
          /\ b'[j][q].steg = "arkiv" => b'[j][q].nr \in Saksnumre
    <3> TAKE j \in Replikaer, q \in Ruter
    <3>1. b'[j][q] = b[j][q]
      BY <1>2
    <3>2. b[j][q].steg # "ledig" => F(j, q)' = F(j, q)
      <4> SUFFICES ASSUME b[j][q].steg # "ledig" PROVE F(j, q)' = F(j, q)
        OBVIOUS
      <4>1. b[j][q].id \in 1..N
        BY <1>12 DEF Hos, Tatt
      <4> QED
        BY <1>4, <3>1, <4>1 DEF F
    <3> QED
      BY <3>1, <3>2 DEF Sann, SporringTypeOK
  <2> QED
    BY <1>2, <1>4, <1>5, <1>6, <2>1, <2>2, <2>3, <2>4 DEF Sann, SporringTypeOK, fast, arkivet
<1>18. Fortid'
  <2>1. \A k \in DOMAIN fra', s \in Saksnumre : fra'[k][s] <= Len(historie[s])
    <3> TAKE k \in DOMAIN fra', s \in Saksnumre
    <3>1. Len(historie[s]) \in Nat
      BY DEF Sann, SporringTypeOK
    <3>2. k \in 1..N \/ k = ny
      BY <1>2, <1>5
    <3>3. k \in 1..N => fra[k][s] <= Len(historie[s])
      BY <1>3 DEF Sann, Fortid
    <3> QED
      BY <1>5, <3>1, <3>2, <3>3
  <2> QED
    BY <1>2, <1>4, <1>6, <2>1 DEF Sann, Fortid, Starter, fast, arkivet
<1> QED
  BY <1>14, <1>15, <1>16, <1>17, <1>18 DEF Sann

\* A case that is registered, archived or changed takes nothing back.
LEMMA EndreSteg == ASSUME Sann, Endre PROVE Sann'
<1>1. /\ endringer < forlop.endringer /\ endringer' = endringer + 1
      /\ UNCHANGED <<fast, foresp, svar, tapt, lytter, buffer, b, sviktet>>
  BY DEF Endre
<1>2. /\ entitet \in [Referanser -> Rad \cup {Nei}] /\ historie \in [Saksnumre -> Seq(Saker)]
      /\ forlop.endringer \in Nat /\ endringer \in Nat
  BY SporringAntagelse DEF Sann, SporringTypeOK
<1>3. \A s \in Saksnumre : Len(historie[s]) \in Nat
  BY <1>2
<1>4. Nei \notin Rad
  BY NeiAntagelse
<1>5. /\ entitet' \in [Referanser -> Rad \cup {Nei}] /\ historie' \in [Saksnumre -> Seq(Saker)]
      /\ \A s \in Saksnumre :
           /\ Len(historie'[s]) \in Nat /\ Len(historie'[s]) >= Len(historie[s])
           /\ \A v \in 1..Len(historie[s]) : historie'[s][v] = historie[s][v]
      /\ \A ref \in Referanser :
           entitet[ref] # Nei => /\ entitet'[ref] # Nei
                                 /\ entitet[ref].arkiv_id # Nei => entitet'[ref] = entitet[ref]
  <2>1. CASE \E ref \in Referanser :
               /\ entitet[ref] = Nei
               /\ entitet' = [entitet EXCEPT ![ref] = [type |-> "sak", arkiv_id |-> Nei]]
               /\ UNCHANGED historie
    <3>1. [type |-> "sak", arkiv_id |-> Nei] \in Rad
      BY DEF Rad
    <3> QED
      BY <1>2, <1>3, <2>1, <3>1
  <2>2. CASE \E ref \in Referanser, s \in Saksnumre :
               /\ entitet[ref] = [type |-> "sak", arkiv_id |-> Nei]
               /\ entitet' = [entitet EXCEPT ![ref].arkiv_id = s]
               /\ UNCHANGED historie
    <3>1. PICK ref \in Referanser, s \in Saksnumre :
               /\ entitet[ref] = [type |-> "sak", arkiv_id |-> Nei]
               /\ entitet' = [entitet EXCEPT ![ref].arkiv_id = s]
               /\ UNCHANGED historie
      BY <2>2
    <3>2. PICK ny : ny = [entitet[ref] EXCEPT !.arkiv_id = s]
      OBVIOUS
    <3>3. ny = [type |-> "sak", arkiv_id |-> s] /\ ny \in Rad
      BY <3>1, <3>2 DEF Rad
    <3>4. entitet' = [entitet EXCEPT ![ref] = ny] /\ entitet[ref].arkiv_id = Nei
      BY <3>1, <3>2
    <3> QED
      BY <1>2, <1>3, <1>4, <3>1, <3>3, <3>4
  <2>3. CASE \E s \in Saksnumre, x \in Endringer :
               /\ historie' = [historie EXCEPT ![s] = Append(@, x)] /\ UNCHANGED entitet
    <3>1. PICK s \in Saksnumre, x \in Endringer :
               /\ historie' = [historie EXCEPT ![s] = Append(@, x)] /\ UNCHANGED entitet
      BY <2>3
    <3>2. x \in Saker
      BY ArkivAntagelse
    <3>3. PICK k, l : k = historie[s] /\ l = Append(k, x)
      OBVIOUS
    <3>4. /\ k \in Seq(Saker) /\ Len(k) \in Nat /\ DOMAIN k = 1..Len(k)
          /\ l \in Seq(Saker \cup {x}) /\ Len(l) = Len(k) + 1
          /\ \A n \in DOMAIN k : l[n] = k[n]
      BY <1>2, <3>3, Lagt
    <3>5. Saker \cup {x} = Saker
      BY <3>2
    <3>6. l \in Seq(Saker)
      BY <3>4, <3>5
    <3>7. historie' = [historie EXCEPT ![s] = l]
      BY <3>1, <3>3
    <3>8. historie' \in [Saksnumre -> Seq(Saker)]
      BY <1>2, <3>6, <3>7
    <3>9. ASSUME NEW z \in Saksnumre
          PROVE  /\ Len(historie'[z]) \in Nat /\ Len(historie'[z]) >= Len(historie[z])
                 /\ \A v \in 1..Len(historie[z]) : historie'[z][v] = historie[z][v]
      <4>1. CASE z = s
        BY <1>2, <3>3, <3>4, <3>7, <4>1
      <4>2. CASE z # s
        BY <1>2, <1>3, <3>7, <4>2
      <4> QED
        BY <4>1, <4>2
    <3> QED
      BY <1>2, <3>1, <3>8, <3>9
  <2> QED
    BY <2>1, <2>2, <2>3 DEF Endre
<1>6. Verden
  BY <1>1, <1>5 DEF Verden, fast, foresp
<1>7. /\ Plass' /\ Besvart' /\ Sporet'
      /\ \A j \in Replikaer, q \in Ruter : F(j, q)' = F(j, q)
  BY <1>1, <1>6, LoopeneStaar
<1>8. SporringTypeOK'
  BY <1>1, <1>2, <1>5, <1>7 DEF Sann, SporringTypeOK, fast, foresp
<1>9. Fortid'
  <2>1. ASSUME NEW k \in DOMAIN fra, NEW s \in Saksnumre PROVE fra[k][s] <= Len(historie'[s])
    <3>1. fra[k][s] \in Nat /\ fra[k][s] <= Len(historie[s])
      BY DEF Sann, Fortid, SporringTypeOK
    <3> QED
      BY <1>3, <1>5, <3>1
  <2> QED
    BY <1>1, <2>1 DEF Sann, Fortid, Starter, fast, foresp
<1> QED
  BY <1>7, <1>8, <1>9 DEF Sann

----------------------------------------------------------------------------
(* The theorems *)

LEMMA SannInit == SporringInit => Sann
<1> SUFFICES ASSUME SporringInit PROVE Sann
  OBVIOUS
<1>1. /\ forlop \in Forlop /\ oppsett \in forlop.oppsett /\ entitet \in Entiteter
      /\ sendt = << >> /\ fra = << >> /\ svar = << >> /\ tapt = {}
      /\ endringer = 0 /\ sviktet = 0
      /\ lytter = [i \in Replikaer |-> IF Starter /\ i \in forlop.instanser THEN Ruter ELSE {}]
      /\ buffer = [i \in Replikaer |-> [r \in Ruter |-> << >>]]
      /\ b = [i \in Replikaer |-> [r \in Ruter |-> Ledig]]
  BY DEF SporringInit
<1>2. /\ forlop.antall \in Nat /\ forlop.endringer \in Nat /\ forlop.feil \in Nat
      /\ Len(<< >>) = 0 /\ DOMAIN << >> = {}
  BY <1>1, SporringAntagelse
<1>3. historie \in [Saksnumre -> Seq(Saker)]
  <2>1. PICK a \in forlop.arkiver :
           historie = [s \in Saksnumre |-> IF a[s] = Nei THEN << >> ELSE <<a[s]>>]
    BY DEF SporringInit
  <2>2. a \in [Saksnumre -> Saker \cup {Nei}]
    BY <1>1, <2>1, SporringAntagelse
  <2>3. \A x \in Saker : <<x>> \in Seq(Saker)
    OBVIOUS
  <2> QED
    BY <2>1, <2>2, <2>3
<1>4. Ledig.steg = "ledig"
  BY DEF Ledig, Arbeid
<1>5. \A i \in Replikaer, r \in Ruter : b[i][r].steg = "ledig" /\ buffer[i][r] = << >>
  BY <1>1, <1>4
<1>6. SporringTypeOK
  <2>1. entitet \in [Referanser -> Rad \cup {Nei}]
    BY <1>1, SporringAntagelse
  <2>2. buffer \in [Replikaer -> [Ruter -> Seq(DOMAIN sendt)]]
    BY <1>1
  <2>3. lytter \in [Replikaer -> SUBSET Ruter]
    BY <1>1
  <2> QED
    BY <1>1, <1>2, <1>3, <1>5, <2>1, <2>2, <2>3 DEF SporringTypeOK
<1>7. Plass
  <2>1. \A i \in Replikaer, r \in Ruter : Hos(i, r) = {} /\ IKo(i, r) = {} /\ Tatt(i, r) = {}
    BY <1>2, <1>5 DEF Hos, IKo, Tatt
  <2> QED
    BY <1>2, <1>5, <2>1 DEF Plass, EttSted, EnGang, Ubesvart
<1>8. Sporet
  BY <1>5 DEF Sporet, Vet
<1>9. Besvart
  BY <1>1, <1>2 DEF Besvart
<1>10. Fortid
  <2>1. svar = [id \in 1..Len(sendt) |-> svar[id]]
    <3>1. 1..0 = {} /\ \A g : [id \in {} |-> g[id]] = << >>
      OBVIOUS
    <3> QED
      BY <1>1, <1>2, <3>1
  <2>2. b = [i \in Replikaer |-> [r \in Ruter |-> b[i][r]]]
    BY <1>1
  <2> QED
    BY <1>1, <1>2, <2>1, <2>2 DEF Fortid
<1> QED
  BY <1>6, <1>7, <1>8, <1>9, <1>10 DEF Sann

LEMMA SannSteg == Sann /\ [SporringNext]_sporringVars => Sann'
<1> SUFFICES ASSUME Sann, [SporringNext]_sporringVars PROVE Sann'
  OBVIOUS
<1>1. CASE \E f \in Foresporsler : Send(f)
  BY <1>1, SendSteg
<1>2. CASE Endre
  BY <1>2, EndreSteg
<1>3. ASSUME NEW i \in Replikaer, NEW r \in Ruter, Behandle(i, r) PROVE Sann'
  BY <1>3, MottaSteg, SlaaOppEntitetSteg, SlaaOppArkivIdSteg, LesArkivSteg, SvarSteg
     DEF Behandle
<1>4. ASSUME NEW i \in Replikaer, NEW r \in Ruter, Svikter(i, r) PROVE Sann'
  BY <1>4, SvikterSteg
<1>5. ASSUME NEW i \in Replikaer, NEW r \in Ruter, SubscriptionSlutter(i, r) PROVE Sann'
  BY <1>5, SubscriptionSlutterSteg
<1>6. ASSUME NEW i \in Replikaer, Run(i) PROVE Sann'
  BY <1>6, RunSteg
<1>7. CASE UNCHANGED sporringVars
  <2>1. UNCHANGED <<fast, arkivet, foresp, svar, tapt, lytter, buffer, b, endringer, sviktet>>
    BY <1>7 DEF sporringVars
  <2>2. Verden
    BY <2>1, VerdenStille
  <2>3. /\ Plass' /\ Besvart' /\ Sporet'
        /\ \A j \in Replikaer, q \in Ruter : F(j, q)' = F(j, q)
    BY <2>1, <2>2, LoopeneStaar
  <2>4. SporringTypeOK'
    BY <2>1, <2>3 DEF Sann, SporringTypeOK, fast, arkivet, foresp
  <2>5. Fortid'
    BY <2>1 DEF Sann, Fortid, Starter, fast, arkivet, foresp
  <2> QED
    BY <2>3, <2>4, <2>5 DEF Sann
<1> QED
  BY <1>1, <1>2, <1>3, <1>4, <1>5, <1>6, <1>7 DEF SporringNext

\* Where a request is, and what is known of it there, is so in every state.
LEMMA SannHolder == SporringSpec => []Sann
BY SannInit, SannSteg, PTL DEF SporringSpec

LEMMA SannGir == Sann => SvarErSant
<1> SUFFICES ASSUME Sann PROVE SvarErSant
  OBVIOUS
<1>1. ASSUME NEW id \in DOMAIN svar, svar[id] # << >>
      PROVE  /\ sendt[id].svarsubjekt
             /\ \E x : svar[id] = <<x>> /\ (x.status = "ok" => Riktig(id, x.payload))
  BY <1>1 DEF Sann, Besvart
<1>2. EttSvar
  <2> SUFFICES ASSUME NEW id \in DOMAIN svar
               PROVE  Len(svar[id]) <= (IF sendt[id].svarsubjekt THEN 1 ELSE 0)
    BY DEF EttSvar
  <2>1. CASE svar[id] = << >>
    BY <2>1
  <2>2. CASE svar[id] # << >>
    <3>1. sendt[id].svarsubjekt /\ \E x : svar[id] = <<x>>
      BY <1>1, <2>2
    <3>2. Len(svar[id]) = 1
      BY <3>1
    <3> QED
      BY <3>1, <3>2
  <2> QED
    BY <2>1, <2>2
<1>3. ASSUME NEW id \in DOMAIN svar, NEW x \in OkSvar(id) PROVE Riktig(id, x.payload)
  <2>1. x.status = "ok" /\ \E n \in DOMAIN svar[id] : x = svar[id][n]
    BY DEF OkSvar
  <2>2. svar[id] # << >>
    BY <2>1
  <2>3. PICK y : svar[id] = <<y>> /\ (y.status = "ok" => Riktig(id, y.payload))
    BY <1>1, <2>2
  <2>4. x = y
    BY <2>1, <2>3
  <2> QED
    BY <2>1, <2>3, <2>4
<1>4. SvarGjengirArkivet /\ SkjermingVises
  BY <1>3 DEF SvarGjengirArkivet, SkjermingVises, Riktig
<1> QED
  BY <1>2, <1>4 DEF SvarErSant, Sann

\* A client gets one answer at most, and an ok answer is one state the case has
\* had in the archive since it was asked for, whole and with its shielding: for
\* every set of instances, references, cases, requests and limits.
THEOREM SvarErSantHolder == SporringSpec => []SvarErSant
BY SannHolder, SannGir, PTL
=============================================================================
