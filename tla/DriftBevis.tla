----------------------------- MODULE DriftBevis ------------------------------
(***************************************************************************)
(* What keeps the service going: its process (Prosess), for every set of   *)
(* tasks, every budget and every number of failures; and the queue its     *)
(* executor works off (Forfallsklokke), for every set of operations, every *)
(* order and every course of failures, wake-ups and retries.               *)
(***************************************************************************)
EXTENDS Prosess, Forfallsklokke, TLAPS

----------------------------------------------------------------------------
(* The process: readiness tells the truth about the tasks, and the restart *)
(* budget is rolling.                                                      *)
(*                                                                         *)
(* The budget is counted in `forsok`, which a long run sets back to one    *)
(* and not to zero; that it is at most one ahead of the short runs since   *)
(* (Telling) is what makes a task that dies of it one that failed fast     *)
(* that many times in a row.                                               *)


Telling == \A t \in Tasks :
    /\ task[t] \in {"ingen", "topp", "inne", "pause"} => forsok[t] <= Budsjett
    /\ task[t] = "feil" => forsok[t] > Budsjett
    /\ forsok[t] <= ustabile[t] + 1

\* What readiness was told: nothing before the tasks are known, and then that a
\* task is up only while it is.
Foer == {"port", "nats", "stroemmer", "migrer", "media", "bygg"}
Meldinger ==
    /\ fase \in Foer => oppe = {} /\ \A t \in Tasks : task[t] = "ingen"
    /\ fase = "kjorer" => meldt = Tasks /\ \A t \in oppe : task[t] \in {"inne", "panikk"}

Styrt == ProsessTypeOK /\ Telling /\ Meldinger

LEMMA StyrtInit == ProsessInit => Styrt
<1> SUFFICES ASSUME ProsessInit PROVE Styrt
  OBVIOUS
<1>1. ProsessTypeOK
  <2>1. signal \in BOOLEAN /\ nats \in BOOLEAN /\ migrert \in BOOLEAN
    BY DEF ProsessInit
  <2>2. /\ forsok \in [Tasks -> 0..Budsjett + 1] /\ ustabile \in [Tasks -> Nat]
        /\ feil \in 0..MaksFeil
    BY ProsessAntagelse DEF ProsessInit
  <2>3. /\ fase \in Faser /\ utfall \in {"ingen", "ok", "feil"}
        /\ ytre \in [Ytre -> {"inne", "ok", "hentet"}] /\ task \in [Tasks -> TaskSteg]
        /\ meldt \subseteq Tasks /\ oppe \subseteq meldt
    BY DEF ProsessInit, Faser, TaskSteg
  <2> QED
    BY <2>1, <2>2, <2>3 DEF ProsessTypeOK
<1>2. Telling /\ Meldinger
  BY ProsessAntagelse DEF ProsessInit, Telling, Meldinger, Foer
<1> QED
  BY <1>1, <1>2 DEF Styrt

----------------------------------------------------------------------------
LEMMA StartSteg ==
    ASSUME Styrt, Forbered \/ ForberedFeiler \/ Spawn \/ NatsEndres
    PROVE  Styrt'
<1> USE DEF Styrt, taskVars, helseVars
<1>1. CASE Forbered
  <2>1. fase \in Foer /\ fase' \in Foer
    BY <1>1 DEF Forbered, Neste, Foer
  <2> QED
    BY <1>1, <2>1 DEF Forbered, ProsessTypeOK, Telling, Meldinger, Foer, Faser
<1>2. CASE ForberedFeiler
  BY <1>2, ProsessAntagelse DEF ForberedFeiler, ProsessTypeOK, Telling, Meldinger, Foer, Faser
<1>3. CASE Spawn
  <2>1. \A t \in Tasks : task[t] = "ingen"
    BY <1>3 DEF Spawn, Meldinger, Foer
  <2>2. ProsessTypeOK'
    BY <1>3 DEF Spawn, ProsessTypeOK, Faser, TaskSteg
  <2>3. Telling'
    BY <1>3, <2>1 DEF Spawn, Telling
  <2>4. Meldinger'
    BY <1>3 DEF Spawn, Meldinger, Foer
  <2> QED
    BY <2>2, <2>3, <2>4
<1>4. CASE NatsEndres
  BY <1>4 DEF NatsEndres, ProsessTypeOK, Telling, Meldinger
<1> QED
  BY <1>1, <1>2, <1>3, <1>4

\* The supervisor of one task.
LEMMA TaskSteget ==
    ASSUME Styrt, NEW t \in Tasks,
           SupervisorGaar(t) \/ Panikk(t) \/ \E stabil \in BOOLEAN : Feiler(t, stabil)
    PROVE  Styrt'
<1> USE DEF Styrt, taskVars, helseVars
<1>0. ASSUME NEW s, Sett(t, s)
      PROVE  task'[t] = s /\ \A u \in Tasks : u # t => task'[u] = task[u]
  BY <1>0 DEF Sett, ProsessTypeOK
<1>00. oppe \subseteq Tasks
  BY DEF ProsessTypeOK
<1>1. CASE Topp(t)
  <2>1. ProsessTypeOK'
    BY <1>1 DEF Topp, Sett, ProsessTypeOK, TaskSteg
  <2>2. Telling'
    BY <1>0, <1>1 DEF Topp, Telling
  <2>3. Meldinger'
    BY <1>0, <1>00, <1>1 DEF Topp, Lever, Meldinger, Foer
  <2> QED
    BY <2>1, <2>2, <2>3
<1>2. CASE Pause(t)
  <2>1. ProsessTypeOK'
    BY <1>2 DEF Pause, Sett, ProsessTypeOK, TaskSteg
  <2>2. Telling' /\ Meldinger'
    BY <1>0, <1>00, <1>2 DEF Pause, Lever, Telling, Meldinger, Foer
  <2> QED
    BY <2>1, <2>2
<1>3. CASE Stopper(t)
  <2>1. ProsessTypeOK'
    BY <1>3 DEF Stopper, Sett, ProsessTypeOK, TaskSteg
  <2>2. Telling' /\ Meldinger'
    BY <1>0, <1>00, <1>3 DEF Stopper, Lever, Telling, Meldinger, Foer
  <2> QED
    BY <2>1, <2>2
<1>4. CASE Panikk(t)
  <2>1. ProsessTypeOK'
    BY <1>4, ProsessAntagelse DEF Panikk, Sett, ProsessTypeOK, TaskSteg
  <2>2. Telling' /\ Meldinger'
    BY <1>0, <1>00, <1>4 DEF Panikk, Lever, Telling, Meldinger, Foer
  <2> QED
    BY <2>1, <2>2
<1>5. ASSUME NEW stabil \in BOOLEAN, Feiler(t, stabil)
      PROVE  Styrt'
  <2>0. /\ task[t] = "inne" /\ forsok[t] <= Budsjett /\ forsok[t] \in Nat /\ ustabile[t] \in Nat
        /\ forsok[t] <= ustabile[t] + 1 /\ Budsjett \in Nat \ {0} /\ MaksFeil \in Nat
    BY <1>5, ProsessAntagelse DEF Feiler, ProsessTypeOK, Telling
  <2>1. EtterKjoring(t, stabil) \in 1..(Budsjett + 1)
    BY <2>0 DEF EtterKjoring
  <2>2. CASE signal
    <3>1. Sett(t, "ok") /\ UNCHANGED <<forsok, ustabile>>
      BY <1>5, <2>2 DEF Feiler
    <3>2. ProsessTypeOK'
      BY <1>5, <2>0, <3>1 DEF Feiler, Sett, ProsessTypeOK, TaskSteg
    <3>3. Telling' /\ Meldinger'
      BY <1>0, <1>00, <1>5, <3>1 DEF Feiler, Lever, Telling, Meldinger, Foer
    <3> QED
      BY <3>2, <3>3
  <2>3. CASE ~signal
    <3>1. /\ forsok' = [forsok EXCEPT ![t] = EtterKjoring(t, stabil)]
          /\ ustabile' = [ustabile EXCEPT ![t] = IF stabil THEN 0 ELSE ustabile[t] + 1]
          /\ Sett(t, IF forsok'[t] > Budsjett THEN "feil" ELSE "pause")
      BY <1>5, <2>3 DEF Feiler
    <3>2. /\ forsok'[t] = EtterKjoring(t, stabil)
          /\ ustabile'[t] = IF stabil THEN 0 ELSE ustabile[t] + 1
          /\ \A u \in Tasks : u # t => forsok'[u] = forsok[u] /\ ustabile'[u] = ustabile[u]
      BY <3>1 DEF ProsessTypeOK
    <3>3. ProsessTypeOK'
      BY <1>5, <2>0, <2>1, <3>1 DEF Feiler, Sett, ProsessTypeOK, TaskSteg
    <3>4. Telling'
      <4>1. CASE stabil
        <5>1. forsok'[t] = 1 /\ ustabile'[t] = 0
          BY <3>2, <4>1 DEF EtterKjoring
        <5> QED
          BY <1>0, <2>0, <3>1, <3>2, <5>1 DEF Telling
      <4>2. CASE ~stabil
        <5>1. forsok'[t] = forsok[t] + 1 /\ ustabile'[t] = ustabile[t] + 1
          BY <3>2, <4>2 DEF EtterKjoring
        <5> QED
          BY <1>0, <2>0, <3>1, <3>2, <5>1 DEF Telling
      <4> QED
        BY <4>1, <4>2
    <3>5. Meldinger'
      BY <1>0, <1>00, <1>5, <3>1 DEF Feiler, Lever, Meldinger, Foer
    <3> QED
      BY <3>3, <3>4, <3>5
  <2> QED
    BY <2>2, <2>3
<1> QED
  BY <1>1, <1>2, <1>3, <1>4, <1>5 DEF SupervisorGaar

\* The main loop: what it takes home and aborts counts for nobody, and it never
\* goes on as before.
LEMMA HovedloopSteg ==
    ASSUME Styrt, Signal \/ HelseserverStopper \/ HovedloopGaar
    PROVE  Styrt'
<1> USE DEF Styrt, taskVars, helseVars
<1>1. CASE Signal
  BY <1>1 DEF Signal, ProsessTypeOK, Telling, Meldinger, Foer, Ytre
<1>2. CASE HelseserverStopper
  BY <1>2, ProsessAntagelse DEF HelseserverStopper, ProsessTypeOK, Telling, Meldinger, Ytre
<1>3. ASSUME NEW r, EtterTask(r)
      PROVE  fase' \in {"drenerer", "ferdig"} /\ utfall' \in {"ingen", "ok", "feil"}
  BY <1>3 DEF EtterTask, ProsessTypeOK
<1>4. \A t \in Tasks : /\ Avbrutt(t) \in TaskSteg
                       /\ Avbrutt(t) = task[t] \/ Avbrutt(t) = "avbrutt"
  BY DEF Avbrutt, ProsessTypeOK, TaskSteg
<1>5. CASE Drenert
  <2>1. ProsessTypeOK'
    BY <1>4, <1>5 DEF Drenert, ProsessTypeOK, Faser
  <2>2. Telling' /\ Meldinger'
    BY <1>4, <1>5 DEF Drenert, Telling, Meldinger, Foer
  <2> QED
    BY <2>1, <2>2
<1>6. ASSUME NEW t \in Tasks, Join(t)
      PROVE  Styrt'
  <2>1. ProsessTypeOK'
    BY <1>3, <1>4, <1>6 DEF Join, ProsessTypeOK, Faser, TaskSteg
  <2>2. \A u \in Tasks : task'[u] = task[u] \/ task'[u] \in {"hentet", "avbrutt"}
    BY <1>4, <1>6 DEF Join
  <2>3. Telling' /\ Meldinger'
    BY <1>3, <1>6, <2>2 DEF Join, Telling, Meldinger, Foer
  <2> QED
    BY <2>1, <2>3
<1>7. ASSUME NEW y \in Ytre, JoinYtre(y)
      PROVE  Styrt'
  <2>1. ProsessTypeOK'
    BY <1>3, <1>4, <1>7 DEF JoinYtre, ProsessTypeOK, Faser
  <2>2. \A u \in Tasks : task'[u] = task[u] \/ task'[u] = "avbrutt"
    BY <1>4, <1>7 DEF JoinYtre
  <2>3. Telling' /\ Meldinger'
    BY <1>3, <1>7, <2>2 DEF JoinYtre, Telling, Meldinger, Foer
  <2> QED
    BY <2>1, <2>3
<1> QED
  BY <1>1, <1>2, <1>5, <1>6, <1>7 DEF HovedloopGaar

LEMMA StyrtSteg == Styrt /\ [ProsessNext]_prosessVars => Styrt'
<1> SUFFICES ASSUME Styrt, [ProsessNext]_prosessVars
             PROVE  Styrt'
  OBVIOUS
<1>1. CASE UNCHANGED prosessVars
  BY <1>1 DEF prosessVars, taskVars, helseVars, Styrt, ProsessTypeOK, Telling, Meldinger
<1> QED
  BY <1>1, StartSteg, TaskSteget, HovedloopSteg DEF ProsessNext

\* Every variable keeps its type; no task restarts more often than its budget.
THEOREM ProsessTyper == ProsessSpec => []ProsessTypeOK
BY StyrtInit, StyrtSteg, PTL DEF ProsessSpec, Styrt

\* While the process runs, readiness is true only when every task is at work,
\* or has panicked this moment and takes the process with it.
THEOREM KlarUnderDriftHolder == ProsessSpec => []KlarUnderDrift
<1>1. Styrt => KlarUnderDrift
  BY DEF Styrt, Meldinger, KlarUnderDrift, ErKlar
<1> QED
  BY StyrtInit, StyrtSteg, <1>1, PTL DEF ProsessSpec

\* A task that dies of its budget failed that many times in a row, each time
\* before the stable window.
THEOREM BudsjettErRullendeHolder == ProsessSpec => []BudsjettErRullende
<1>1. Styrt => BudsjettErRullende
  BY ProsessAntagelse DEF Styrt, ProsessTypeOK, Telling, BudsjettErRullende
<1> QED
  BY StyrtInit, StyrtSteg, <1>1, PTL DEF ProsessSpec

\* Readiness and the restart budgets tell the truth, for every set of tasks.
THEOREM TilsynStemmerHolder == ProsessSpec => []TilsynStemmer
BY ProsessTyper, KlarUnderDriftHolder, BudsjettErRullendeHolder, PTL DEF TilsynStemmer

----------------------------------------------------------------------------
(* The queue: nobody who is due is overtaken twice, what waits is due when *)
(* it should be, and a late operation is told of once.                     *)
(*                                                                         *)
(* Who was taken while another was due is behind it ever since, for every  *)
(* writer of neste_forsok_at puts a row behind those that are due          *)
(* (Forbigaatt); the wait of an operation belongs to an attempt before the *)
(* one under way (Trappet), since no writer lowers attempt_no.             *)


I_hand == {"valgt", "besluttet", "kjorer"}

\* The operation in hand is one, and while it is carried out its row says so.
IHand ==
    /\ steg \in I_hand \cup {"varsel_sendt"} => hand \in Oppgaver
    /\ steg = "kjorer" => status[hand] = "kjorer"

\* Who was taken while o was due is behind it in the queue now, or in hand; and
\* nobody has passed the one in hand.
Forbigaatt ==
    \A o \in Oppgaver :
        /\ forbi[o] # {} => o \in forfalte /\ ~(steg \in I_hand /\ o = hand)
        /\ \A p \in forbi[o] :
              p # o /\ (<<p, o>> \in foer => steg \in {"valgt", "besluttet"} /\ p = hand)

\* What has been told and not marked was told before a stop, or just now.
Fortalt ==
    \A o \in Oppgaver :
        sagt[o] <= krasj + (IF o \in varslet \/ (steg = "varsel_sendt" /\ hand = o)
                            THEN 1 ELSE 0)

\* The last wait of o was after an earlier attempt than the one under way.
Trappet ==
    \A o \in Oppgaver :
        /\ ventetid[o] # 0 => \E m \in 1..attempt_no[o] :
              /\ ventetid[o] = Backoff(m - 1)
              /\ steg = "kjorer" /\ hand = o /\ attempt_no[o] < forlop.forsok
                 => m < attempt_no[o]
        /\ steg = "kjorer" /\ hand = o /\ attempt_no[o] < forlop.forsok => attempt_no[o] > 0

Stemmer == TypeOK /\ IHand /\ Forbigaatt /\ Fortalt /\ Trappet

----------------------------------------------------------------------------
(* The queue *)

\* Rows that are moved to now, or leave, leave the rest in order; nobody who was
\* due has another before it who was not.
LEMMA TilNaaOrdner ==
    ASSUME Ordnet, NEW S, NEW U, TilNaa(S, U), Rader' = (Rader \ (S \cup U)) \cup S
    PROVE  /\ Ordnet'
           /\ \A p, o : o \in forfalte' \ S /\ <<p, o>> \in foer' => <<p, o>> \in foer
<1> DEFINE A == Rader \ (S \cup U)
<1>1. PICK r \in Rekkefolger(S) :
         foer' = Blant(A) \cup r \cup ((A \cap forfalte) \X S) \cup (S \X (A \ forfalte))
  BY DEF TilNaa
<1>2. forfalte' = S \cup (A \cap forfalte) /\ Rader' = A \cup S /\ A \cap S = {}
  BY DEF TilNaa
<1>3. ErRekkefolge(r, S) /\ ErRekkefolge(foer, Rader)
  BY DEF Rekkefolger, Ordnet
<1>4. \A p, q : <<p, q>> \in foer' <=>
         \/ p \in A /\ q \in A /\ <<p, q>> \in foer
         \/ <<p, q>> \in r
         \/ p \in A \cap forfalte /\ q \in S
         \/ p \in S /\ q \in A \ forfalte
  BY <1>1, <1>3 DEF Blant, ErRekkefolge
<1>5. foer' \subseteq (A \cup S) \X (A \cup S)
  BY <1>1, <1>3 DEF Blant, ErRekkefolge
<1>6. \A p, q : <<p, q>> \in r => p \in S /\ q \in S
  BY <1>3 DEF ErRekkefolge
<1>7. A \subseteq Rader /\ A \cap forfalte \subseteq A
  OBVIOUS
<1> HIDE DEF A
<1>8. \A p, q \in A \cup S : <<p, q>> \in foer' <=> p # q /\ <<q, p>> \notin foer'
  BY <1>2, <1>3, <1>4, <1>6, <1>7 DEF ErRekkefolge
<1>9. \A p, q, o \in A \cup S : <<p, q>> \in foer' /\ <<q, o>> \in foer' => <<p, o>> \in foer'
  <2> SUFFICES ASSUME NEW p \in A \cup S, NEW q \in A \cup S, NEW o \in A \cup S,
                      <<p, q>> \in foer', <<q, o>> \in foer'
               PROVE  <<p, o>> \in foer'
    OBVIOUS
  <2>1. \A x, y \in A : <<x, y>> \in foer /\ y \in forfalte => x \in forfalte
    BY <1>7 DEF Ordnet
  <2>2. \A x, y, z \in A : <<x, y>> \in foer /\ <<y, z>> \in foer => <<x, z>> \in foer
    BY <1>3, <1>7 DEF ErRekkefolge
  <2>3. \A x, y, z \in S : <<x, y>> \in r /\ <<y, z>> \in r => <<x, z>> \in r
    BY <1>3 DEF ErRekkefolge
  <2>4. \A x, y \in A : x # y => <<x, y>> \in foer \/ <<y, x>> \in foer
    BY <1>3, <1>7 DEF ErRekkefolge
  <2>5. CASE p \in A /\ q \in A
    BY <1>2, <1>4, <1>6, <2>1, <2>2, <2>5
  <2>6. CASE p \in A /\ q \in S
    BY <1>2, <1>4, <1>6, <2>1, <2>4, <2>6
  <2>7. CASE p \in S /\ q \in A
    BY <1>2, <1>4, <1>6, <2>1, <2>7
  <2>8. CASE p \in S /\ q \in S
    BY <1>2, <1>4, <1>6, <2>3, <2>8
  <2> QED
    BY <2>5, <2>6, <2>7, <2>8
<1>10. ErRekkefolge(foer', Rader')
  BY <1>2, <1>5, <1>8, <1>9 DEF ErRekkefolge
<1>11. \A p, q \in Rader' : <<p, q>> \in foer' /\ q \in forfalte' => p \in forfalte'
  BY <1>2, <1>4, <1>6, <1>7 DEF Ordnet
<1>12. Ordnet'
  BY <1>2, <1>7, <1>10, <1>11 DEF Ordnet
<1>13. \A p, o : o \in forfalte' \ S /\ <<p, o>> \in foer' => <<p, o>> \in foer
  BY <1>2, <1>4, <1>6
<1> QED
  BY <1>12, <1>13

\* A row that is moved to a later time is behind all that are due.
LEMMA TilSenereOrdner ==
    ASSUME Ordnet, NEW h, TilSenere(h), Rader' = (Rader \ {h}) \cup {h}
    PROVE  /\ Ordnet'
           /\ \A p, o : o \in forfalte' /\ <<p, o>> \in foer' => <<p, o>> \in foer /\ p # h
<1> DEFINE A == Rader \ {h}
<1>1. PICK T \in SUBSET A :
         /\ A \cap forfalte \subseteq T
         /\ \A x \in Blant(A) : x[2] \in T => x[1] \in T
         /\ foer' = Blant(A) \cup (T \X {h}) \cup ({h} \X (A \ T))
  BY DEF TilSenere
<1>2. forfalte' = A \cap forfalte /\ Rader' = A \cup {h} /\ h \notin A
  BY DEF TilSenere
<1>3. ErRekkefolge(foer, Rader)
  BY DEF Ordnet
<1>4. \A p, q : <<p, q>> \in foer' <=>
         \/ p \in A /\ q \in A /\ <<p, q>> \in foer
         \/ p \in T /\ q = h
         \/ p = h /\ q \in A \ T
  BY <1>1, <1>3 DEF Blant, ErRekkefolge
<1>5. foer' \subseteq (A \cup {h}) \X (A \cup {h})
  BY <1>1, <1>3 DEF Blant, ErRekkefolge
<1>6. \A p, q \in A : <<p, q>> \in foer /\ q \in T => p \in T
  BY <1>1 DEF Blant
<1>7. A \subseteq Rader /\ T \subseteq A /\ A \cap forfalte \subseteq T
  BY <1>1
<1> HIDE DEF A
<1>8. \A p, q \in A \cup {h} : <<p, q>> \in foer' <=> p # q /\ <<q, p>> \notin foer'
  BY <1>2, <1>3, <1>4, <1>7 DEF ErRekkefolge
<1>9. \A p, q, o \in A \cup {h} : <<p, q>> \in foer' /\ <<q, o>> \in foer' => <<p, o>> \in foer'
  <2> SUFFICES ASSUME NEW p \in A \cup {h}, NEW q \in A \cup {h}, NEW o \in A \cup {h},
                      <<p, q>> \in foer', <<q, o>> \in foer'
               PROVE  <<p, o>> \in foer'
    OBVIOUS
  <2>1. \A x, y, z \in A : <<x, y>> \in foer /\ <<y, z>> \in foer => <<x, z>> \in foer
    BY <1>3, <1>7 DEF ErRekkefolge
  <2>2. \A x, y \in A : x # y => <<x, y>> \in foer \/ <<y, x>> \in foer
    BY <1>3, <1>7 DEF ErRekkefolge
  <2> QED
    BY <1>2, <1>4, <1>6, <1>7, <2>1, <2>2
<1>10. ErRekkefolge(foer', Rader')
  BY <1>2, <1>5, <1>8, <1>9 DEF ErRekkefolge
<1>11. \A p, q \in Rader' : <<p, q>> \in foer' /\ q \in forfalte' => p \in forfalte'
  BY <1>2, <1>4, <1>7 DEF Ordnet
<1> QED
  BY <1>2, <1>4, <1>7, <1>10, <1>11 DEF Ordnet

LEMMA SettRad ==
    ASSUME status \in [Oppgaver -> Status], NEW o \in Oppgaver, NEW s \in Status,
           SettStatus(o, s)
    PROVE  /\ status' \in [Oppgaver -> Status] /\ status'[o] = s
           /\ \A p \in Oppgaver : p # o => status'[p] = status[p]
           /\ s \in Ventende => Rader' = (Rader \ {o}) \cup {o}
           /\ s \notin Ventende => Rader' = Rader \ {o}
BY DEF SettStatus, Rader

\* What a row that is not touched by the queue's writers keeps.
LEMMA KoenStaar ==
    ASSUME Ordnet, UNCHANGED <<foer, forfalte, status>>
    PROVE  Ordnet'
BY DEF Ordnet, Rader, ErRekkefolge

----------------------------------------------------------------------------
(* The invariant                                                           *)

LEMMA StemmerInit == Init => Stemmer
<1> SUFFICES ASSUME Init PROVE Stemmer
  OBVIOUS
<1>1. forlop \in Forlop /\ forlop.oppgaver \subseteq Oppgaver /\ forlop.forsok \in Nat
      /\ forlop.krasj \in Nat /\ forlop.grep \in Nat
  BY KlokkeAntagelse DEF Init
<1>2. Rader = forlop.oppgaver
  BY <1>1 DEF Init, Rader, Ventende
<1>3. ErRekkefolge(foer, Rader)
  BY <1>2 DEF Init, Rekkefolger
<1>4. Ordnet
  BY <1>2, <1>3 DEF Init, Ordnet
<1>5. TypeOK
  BY <1>1, <1>4 DEF Init, TypeOK, Status, Ventende
<1>6. IHand /\ Forbigaatt /\ Fortalt /\ Trappet
  BY DEF Init, IHand, I_hand, Forbigaatt, Fortalt, Trappet
<1> QED
  BY <1>5, <1>6 DEF Stemmer

\* The bounds of the course, and what an executor may have in hand.
LEMMA Grensene ==
    ASSUME Stemmer
    PROVE  /\ forlop.forsok \in Nat /\ forlop.krasj \in Nat /\ forlop.grep \in Nat
           /\ krasj \in Nat /\ \A o \in Oppgaver : attempt_no[o] \in Nat /\ sagt[o] \in Nat
BY KlokkeAntagelse DEF Stemmer, TypeOK

\* The executor takes the first that is due.
LEMMA HentSteg == ASSUME Stemmer, Hent PROVE Stemmer'
<1>1. PICK n \in Oppgaver :
         /\ ErNeste(n) /\ Til("valgt", n, "ingen")
         /\ forbi' = [o \in Oppgaver |-> IF o \in Valgbare \ {n} THEN forbi[o] \cup {n} ELSE {}]
  BY DEF Hent
<1>2. Ordnet'
  BY KoenStaar DEF Hent, radVars, Stemmer, TypeOK
<1>3. forbi' \in [Oppgaver -> SUBSET Oppgaver]
  BY <1>1 DEF Stemmer, TypeOK
<1>4. TypeOK'
  BY <1>1, <1>2, <1>3 DEF Hent, radVars, varselVars, grenseVars, Til, Stemmer, TypeOK
<1>5. IHand'
  BY <1>1 DEF Til, IHand, I_hand
<1>6. Forbigaatt'
  BY <1>1 DEF Hent, radVars, Til, Stemmer, Forbigaatt, I_hand, Valgbare, ErNeste
<1>7. Fortalt'
  BY <1>1 DEF Hent, varselVars, grenseVars, Til, Stemmer, Fortalt, TypeOK
<1>8. Trappet'
  BY <1>1 DEF Hent, radVars, grenseVars, Til, Stemmer, Trappet
<1> QED
  BY <1>4, <1>5, <1>6, <1>7, <1>8 DEF Stemmer

LEMMA BesluttSteg == ASSUME Stemmer, Beslutt PROVE Stemmer'
<1>1. PICK d \in {"blokkert", "allerede_utfort", "ugyldig", "utfor"} : Til("besluttet", hand, d)
  BY DEF Beslutt
<1>2. Ordnet'
  BY KoenStaar DEF Beslutt, radVars, Stemmer, TypeOK
<1>3. TypeOK'
  BY <1>1, <1>2 DEF Beslutt, radVars, varselVars, grenseVars, Til, Stemmer, TypeOK
<1>4. IHand' /\ Forbigaatt' /\ Fortalt' /\ Trappet'
  BY <1>1 DEF Beslutt, radVars, varselVars, grenseVars, Til, Stemmer, IHand, I_hand,
              Forbigaatt, Fortalt, Trappet
<1> QED
  BY <1>3, <1>4 DEF Stemmer

\* The operation in hand is put back to a later time, or taken out.
LEMMA TilbakeSteg ==
    ASSUME Stemmer, Blokker \/ Feil \/ \E p \in BOOLEAN : ProvIgjen(p)
    PROVE  Stemmer'
<1>0. PICK s \in {"blokkert", "retry_venter", "feilet"} :
         /\ SettStatus(hand, s)
         /\ s \in Ventende => TilSenere(hand)
         /\ s \notin Ventende => TilNaa({}, {hand})
  BY DEF Blokker, Feil, ProvIgjen, Ventende
<1>1. /\ steg \in I_hand /\ hand \in Oppgaver /\ Til("ledig", Ingen, "ingen")
      /\ UNCHANGED <<attempt_no, forkastet, varselVars, forbi, grenseVars>>
  BY DEF Blokker, Feil, ProvIgjen, I_hand, Stemmer, IHand
<1>2. status \in [Oppgaver -> Status] /\ Ordnet /\ s \in Status
  BY <1>0 DEF Stemmer, TypeOK, Status, Ventende
<1>3. /\ Ordnet' /\ status' \in [Oppgaver -> Status]
      /\ \A p, o : o \in forfalte' /\ <<p, o>> \in foer' => <<p, o>> \in foer /\ p # hand
      /\ \A o \in forfalte : o # hand => o \in forfalte'
  <2>1. CASE s \in Ventende
    BY <1>0, <1>1, <1>2, <2>1, SettRad, TilSenereOrdner DEF TilSenere, Ordnet
  <2>2. CASE s \notin Ventende
    <3>1. Rader' = Rader \ {hand} /\ status' \in [Oppgaver -> Status]
      BY <1>0, <1>1, <1>2, <2>2, SettRad
    <3>2. /\ Ordnet'
          /\ \A p, o : o \in forfalte' \ {} /\ <<p, o>> \in foer' => <<p, o>> \in foer
      BY <1>0, <1>2, <2>2, <3>1, TilNaaOrdner
    <3>3. \A p, o : <<p, o>> \in foer' => p \in Rader'
      BY <3>2 DEF Ordnet, ErRekkefolge
    <3>4. \A o \in forfalte : o # hand => o \in forfalte'
      BY <1>0, <1>2, <2>2 DEF TilNaa, Ordnet
    <3> QED
      BY <3>1, <3>2, <3>3, <3>4
  <2> QED
    BY <2>1, <2>2
<1>4. ventetid' \in [Oppgaver -> {0} \cup {Trapp[i] : i \in DOMAIN Trapp}] /\ Trappet'
  <2>1. CASE ventetid' = ventetid
    BY <1>1, <2>1 DEF Stemmer, TypeOK, Trappet, Til, grenseVars
  <2>2. CASE ventetid' # ventetid
    <3>1. /\ steg = "kjorer" /\ attempt_no[hand] < forlop.forsok
          /\ ventetid' = [ventetid EXCEPT ![hand] = Backoff(attempt_no[hand] - 1)]
      BY <2>2 DEF Blokker, Feil, ProvIgjen
    <3>2. attempt_no[hand] \in Nat /\ attempt_no[hand] > 0
      BY <1>1, <3>1, Grensene DEF Stemmer, Trappet
    <3>3. Backoff(attempt_no[hand] - 1) \in {Trapp[i] : i \in DOMAIN Trapp}
      BY <3>2 DEF Backoff, Trapp
    <3>4. ventetid' \in [Oppgaver -> {0} \cup {Trapp[i] : i \in DOMAIN Trapp}]
      BY <1>1, <3>1, <3>3 DEF Stemmer, TypeOK
    <3>5. ASSUME NEW o \in Oppgaver, ventetid'[o] # 0
          PROVE  \E m \in 1..attempt_no'[o] : ventetid'[o] = Backoff(m - 1)
      <4>1. CASE o = hand
        <5>1. attempt_no[hand] \in 1..attempt_no'[o] /\ ventetid'[o] = Backoff(attempt_no[hand] - 1)
          BY <1>1, <3>1, <3>2, <4>1 DEF Stemmer, TypeOK
        <5> QED
          BY <5>1
      <4>2. CASE o # hand
        BY <1>1, <3>1, <3>5, <4>2 DEF Stemmer, TypeOK, Trappet
      <4> QED
        BY <4>1, <4>2
    <3> QED
      BY <1>1, <3>4, <3>5 DEF Trappet, Til
  <2> QED
    BY <2>1, <2>2
<1>5. TypeOK'
  BY <1>1, <1>3, <1>4 DEF Stemmer, TypeOK, Til, varselVars, grenseVars
<1>6. IHand' /\ Fortalt'
  BY <1>1 DEF Stemmer, IHand, I_hand, Fortalt, Til, varselVars, grenseVars
<1>7. Forbigaatt'
  <2> SUFFICES ASSUME NEW o \in Oppgaver, forbi'[o] # {}
               PROVE  /\ o \in forfalte' /\ ~(steg' \in I_hand /\ o = hand')
                      /\ \A p \in forbi'[o] : p # o /\ <<p, o>> \notin foer'
    BY DEF Forbigaatt
  <2>1. o \in forfalte /\ o # hand
    BY <1>1 DEF Stemmer, Forbigaatt
  <2>2. o \in forfalte'
    BY <1>3, <2>1
  <2> QED
    BY <1>1, <1>3, <2>1, <2>2 DEF Stemmer, Forbigaatt, Til, I_hand
<1> QED
  BY <1>4, <1>5, <1>6, <1>7 DEF Stemmer

LEMMA KjorSteg == ASSUME Stemmer, Kjor PROVE Stemmer'
<1>1. hand \in Oppgaver /\ SettStatus(hand, "kjorer") /\ TilNaa({}, {hand})
      /\ Til("kjorer", hand, dom)
      /\ UNCHANGED <<ventetid, forkastet, varselVars, forbi, grenseVars>>
  BY DEF Kjor, Stemmer, IHand, I_hand
<1>2. /\ status' \in [Oppgaver -> Status] /\ status'[hand] = "kjorer"
      /\ Rader' = Rader \ {hand}
  BY <1>1, SettRad DEF Stemmer, TypeOK, Status, Ventende
<1>3. Ordnet' /\ \A p, o : o \in forfalte' \ {} /\ <<p, o>> \in foer' => <<p, o>> \in foer
  BY <1>1, <1>2, TilNaaOrdner DEF Stemmer, TypeOK
<1>4. hand \notin Rader' /\ \A p, o : <<p, o>> \in foer' => p \in Rader'
  BY <1>2, <1>3 DEF Ordnet, ErRekkefolge
<1>5. /\ attempt_no' \in [Oppgaver -> 0..forlop.forsok]
      /\ \A o \in Oppgaver : o # hand => attempt_no'[o] = attempt_no[o]
      /\ attempt_no[hand] < forlop.forsok => attempt_no'[hand] = attempt_no[hand] + 1
      /\ ~(attempt_no[hand] < forlop.forsok) => attempt_no'[hand] = attempt_no[hand]
  BY <1>1, Grensene DEF Kjor, Stemmer, TypeOK
<1>6. TypeOK'
  BY <1>1, <1>2, <1>3, <1>5 DEF Stemmer, TypeOK, Til, varselVars, grenseVars
<1>7. IHand' /\ Fortalt'
  BY <1>1, <1>2 DEF Kjor, Stemmer, IHand, I_hand, Fortalt, Til, varselVars, grenseVars
<1>8. Forbigaatt'
  <2> SUFFICES ASSUME NEW o \in Oppgaver, forbi'[o] # {}
               PROVE  /\ o \in forfalte' /\ o # hand
                      /\ \A p \in forbi'[o] : p # o /\ <<p, o>> \notin foer'
    BY <1>1 DEF Forbigaatt, Til
  <2>1. o \in forfalte /\ o # hand /\ o \in Rader
    BY <1>1 DEF Kjor, Stemmer, Forbigaatt, I_hand, TypeOK, Ordnet
  <2>2. o \in forfalte'
    BY <1>1, <2>1 DEF TilNaa
  <2> QED
    BY <1>1, <1>3, <1>4, <2>1, <2>2 DEF Stemmer, Forbigaatt
<1>9. Trappet'
  <2> SUFFICES ASSUME NEW o \in Oppgaver
               PROVE  /\ ventetid'[o] # 0 => \E m \in 1..attempt_no'[o] :
                           /\ ventetid'[o] = Backoff(m - 1)
                           /\ o = hand /\ attempt_no'[o] < forlop.forsok => m < attempt_no'[o]
                      /\ o = hand /\ attempt_no'[o] < forlop.forsok => attempt_no'[o] > 0
    BY <1>1 DEF Trappet, Til, grenseVars
  <2>1. attempt_no[o] \in Nat /\ forlop.forsok \in Nat
    BY Grensene
  <2>2. o = hand /\ attempt_no'[o] < forlop.forsok => attempt_no'[o] = attempt_no[o] + 1
    BY <1>5, <2>1
  <2>3. ASSUME ventetid'[o] # 0
        PROVE  \E m \in 1..attempt_no'[o] :
                  /\ ventetid'[o] = Backoff(m - 1)
                  /\ o = hand /\ attempt_no'[o] < forlop.forsok => m < attempt_no'[o]
    <3>1. PICK m \in 1..attempt_no[o] : ventetid[o] = Backoff(m - 1)
      BY <1>1, <2>3 DEF Stemmer, Trappet
    <3>2. m \in 1..attempt_no'[o]
      BY <1>5, <2>1, <3>1
    <3> QED
      BY <1>1, <2>1, <2>2, <3>1, <3>2
  <2> QED
    BY <2>1, <2>2, <2>3
<1> QED
  BY <1>6, <1>7, <1>8, <1>9 DEF Stemmer

\* Rows that are due now wait anew; those before them have passed nobody.
LEMMA FlyttetForbi ==
    ASSUME Stemmer, NEW S \in SUBSET Oppgaver, NEW U, TilNaa(S, U), Ordnet', VentPaaNytt(S),
           \A p, o : o \in forfalte' \ S /\ <<p, o>> \in foer' => <<p, o>> \in foer,
           \/ U = {} /\ UNCHANGED execVars
           \/ U = {hand} /\ steg \in I_hand /\ steg' = "ledig"
    PROVE  Forbigaatt'
<1> SUFFICES ASSUME NEW o \in Oppgaver, forbi'[o] # {}
             PROVE  /\ o \in forfalte' /\ ~(steg' \in I_hand /\ o = hand')
                    /\ \A p \in forbi'[o] : p # o /\ (<<p, o>> \in foer' =>
                          steg' \in {"valgt", "besluttet"} /\ p = hand')
  BY DEF Forbigaatt
<1>1. o \notin S /\ forbi'[o] = forbi[o]
  BY DEF VentPaaNytt
<1>2. o \in forfalte /\ ~(steg \in I_hand /\ o = hand) /\ o \in Rader
  BY <1>1 DEF Stemmer, Forbigaatt, TypeOK, Ordnet
<1>3. o \in forfalte' \ S
  BY <1>1, <1>2 DEF TilNaa
<1>4. \A p \in forbi'[o] : p # o /\ (<<p, o>> \in foer' =>
         steg \in {"valgt", "besluttet"} /\ p = hand)
  BY <1>1, <1>3 DEF Stemmer, Forbigaatt
<1>5. CASE U = {} /\ UNCHANGED execVars
  BY <1>2, <1>3, <1>4, <1>5 DEF execVars
<1>6. CASE U = {hand} /\ steg \in I_hand /\ steg' = "ledig"
  <2>1. \A p : <<p, o>> \in foer' => p \in S \cup (Rader \ (S \cup {hand}))
    BY <1>6 DEF Ordnet, ErRekkefolge, TilNaa, Blant, Rekkefolger
  <2>2. \A p \in S : <<p, o>> \notin foer'
    <3> SUFFICES ASSUME NEW p \in S, <<p, o>> \in foer' PROVE FALSE
      OBVIOUS
    <3>1. PICK r \in Rekkefolger(S) :
            LET A == Rader \ (S \cup U) IN
            foer' = Blant(A) \cup r \cup ((A \cap forfalte) \X S) \cup (S \X (A \ forfalte))
      BY DEF TilNaa
    <3> QED
      BY <1>1, <1>2, <3>1 DEF Blant, Rekkefolger, ErRekkefolge
  <2>3. hand \notin S => \A p \in forbi'[o] : <<p, o>> \notin foer'
    BY <1>4, <2>1
  <2> QED
    BY <1>3, <1>4, <1>6, <2>2, <2>1 DEF I_hand
<1> QED
  BY <1>5, <1>6

LEMMA FullforSteg == ASSUME Stemmer, Fullfor PROVE Stemmer'
<1> DEFINE V == Vekkes(hand)
<1>1. /\ hand \in Oppgaver /\ steg \in I_hand /\ SettStatus(hand, "ok")
      /\ TilNaa(V, {hand}) /\ VentPaaNytt(V) /\ Til("ledig", Ingen, "ingen")
      /\ UNCHANGED <<attempt_no, ventetid, forkastet, varselVars, grenseVars>>
  BY DEF Fullfor, Stemmer, IHand, I_hand
<1>2. V \subseteq Rader /\ hand \notin V /\ V \subseteq Oppgaver
  BY DEF Vekkes, Rader, Ventende
<1> HIDE DEF V
<1>3. status' \in [Oppgaver -> Status] /\ Rader' = Rader \ {hand}
  BY <1>1, SettRad DEF Stemmer, TypeOK, Status, Ventende
<1>4. Rader' = (Rader \ (V \cup {hand})) \cup V
  BY <1>2, <1>3
<1>5. /\ Ordnet'
      /\ \A p, o : o \in forfalte' \ V /\ <<p, o>> \in foer' => <<p, o>> \in foer
  BY <1>1, <1>4, TilNaaOrdner DEF Stemmer, TypeOK
<1>6. forbi' \in [Oppgaver -> SUBSET Oppgaver]
  BY <1>1 DEF VentPaaNytt, Stemmer, TypeOK
<1>7. TypeOK'
  BY <1>1, <1>3, <1>5, <1>6 DEF Stemmer, TypeOK, Til, varselVars, grenseVars
<1>8. IHand' /\ Fortalt' /\ Trappet'
  BY <1>1 DEF Stemmer, IHand, I_hand, Fortalt, Trappet, Til, varselVars, grenseVars
<1>9. Forbigaatt'
  BY <1>1, <1>2, <1>5, FlyttetForbi DEF Til
<1> QED
  BY <1>7, <1>8, <1>9 DEF Stemmer

LEMMA KrasjSteg == ASSUME Stemmer, Krasj PROVE Stemmer'
<1>1. /\ Til("ledig", Ingen, "ingen") /\ forbi' = [o \in Oppgaver |-> {}]
      /\ krasj < forlop.krasj /\ krasj' = krasj + 1
      /\ UNCHANGED <<attempt_no, ventetid, forkastet, varselVars, forlop, grep>>
  BY DEF Krasj
<1>2. status' \in [Oppgaver -> Status] /\ Ordnet'
  <2>1. CASE steg = "kjorer" /\ SettStatus(hand, "klar") /\ TilNaa({hand}, {})
    <3>1. status' \in [Oppgaver -> Status] /\ Rader' = (Rader \ {hand}) \cup {hand}
      BY <2>1, SettRad DEF Stemmer, IHand, I_hand, TypeOK, Status, Ventende
    <3>2. Rader' = (Rader \ ({hand} \cup {})) \cup {hand}
      BY <3>1
    <3> QED
      BY <2>1, <3>1, <3>2, TilNaaOrdner DEF Stemmer, TypeOK
  <2>2. CASE /\ steg = "kjorer" /\ SettStatus(hand, "krever_avklaring")
             /\ UNCHANGED <<foer, forfalte>>
    <3>1. /\ hand \in Oppgaver /\ hand \notin Rader
          /\ status' \in [Oppgaver -> Status] /\ Rader' = Rader \ {hand}
      BY <2>2, SettRad DEF Stemmer, IHand, I_hand, TypeOK, Status, Ventende,
                        Rader
    <3>2. Rader' = Rader
      BY <3>1
    <3> QED
      BY <2>2, <3>1, <3>2 DEF Stemmer, TypeOK, Ordnet, ErRekkefolge
  <2>3. CASE UNCHANGED <<status, foer, forfalte>>
    BY <2>3, KoenStaar DEF Stemmer, TypeOK
  <2> QED
    BY <2>1, <2>2, <2>3 DEF Krasj
<1>3. TypeOK'
  BY <1>1, <1>2, Grensene DEF Stemmer, TypeOK, Til, varselVars
<1>4. IHand' /\ Forbigaatt' /\ Trappet'
  BY <1>1 DEF Stemmer, IHand, I_hand, Forbigaatt, Trappet, Til
<1>5. Fortalt'
  BY <1>1, Grensene DEF Stemmer, Fortalt, Til, varselVars, TypeOK
<1> QED
  BY <1>3, <1>4, <1>5 DEF Stemmer

LEMMA TikkSteg == ASSUME Stemmer, Tikk PROVE Stemmer'
<1>1. PICK o \in Rader \ forfalte :
         /\ \A p \in Rader \ (forfalte \cup {o}) : <<o, p>> \in foer
         /\ forfalte' = forfalte \cup {o}
  BY DEF Tikk
<1>2. Rader' = Rader /\ UNCHANGED <<foer, status>>
  BY DEF Tikk, Rader
<1>3. \A p, q \in Rader : <<p, q>> \in foer /\ q \in forfalte' => p \in forfalte'
  BY <1>1 DEF Stemmer, TypeOK, Ordnet, ErRekkefolge
<1>4. Ordnet'
  BY <1>1, <1>2, <1>3 DEF Stemmer, TypeOK, Ordnet, ErRekkefolge
<1>5. TypeOK'
  BY <1>4 DEF Tikk, Stemmer, TypeOK, execVars, varselVars, grenseVars
<1>6. IHand' /\ Forbigaatt' /\ Fortalt' /\ Trappet'
  BY <1>1 DEF Tikk, Stemmer, IHand, Forbigaatt, Fortalt, Trappet, execVars, varselVars,
              grenseVars
<1> QED
  BY <1>5, <1>6 DEF Stemmer

LEMMA VarselSteg ==
    ASSUME Stemmer,
           \/ \E o \in Oppgaver : Eldes(o) \/ SendVarsel(o)
           \/ MarkerVarslet \/ VarslerFerdig
    PROVE  Stemmer'
<1>1. UNCHANGED <<radVars, forbi, grenseVars>>
  BY DEF Eldes, SendVarsel, MarkerVarslet, VarslerFerdig
<1>2. Ordnet'
  BY <1>1, KoenStaar DEF radVars, Stemmer, TypeOK
<1>3. /\ steg' \in {"ledig", "varsler", "varsel_sendt"} \/ UNCHANGED execVars
      /\ steg' = "varsel_sendt" => hand' \in Oppgaver
      /\ hand' \in Oppgaver \cup {Ingen}
      /\ steg' \in {"ledig", "valgt", "besluttet", "kjorer", "varsler", "varsel_sendt"}
      /\ dom' \in {"ingen", "blokkert", "allerede_utfort", "ugyldig", "utfor"}
  BY DEF Eldes, SendVarsel, MarkerVarslet, VarslerFerdig, Til, execVars, Stemmer, TypeOK, IHand
<1>4. gammel' \subseteq Oppgaver /\ varslet' \subseteq Oppgaver /\ sagt' \in [Oppgaver -> Nat]
  BY DEF Eldes, SendVarsel, MarkerVarslet, VarslerFerdig, Stemmer, TypeOK, IHand, varselVars
<1>5. TypeOK'
  BY <1>1, <1>2, <1>3, <1>4 DEF radVars, grenseVars, Stemmer, TypeOK
<1>6. IHand' /\ Trappet' /\ Forbigaatt'
  <2>1. steg \notin {"valgt", "besluttet", "kjorer"} \/ UNCHANGED execVars
    BY DEF Eldes, SendVarsel, MarkerVarslet, VarslerFerdig, execVars
  <2> QED
    BY <1>1, <1>3, <2>1 DEF radVars, grenseVars, execVars, Stemmer, IHand, I_hand, Trappet,
                            Forbigaatt
<1>7. Fortalt'
  <2>1. ASSUME NEW o \in Oppgaver, SendVarsel(o) PROVE Fortalt'
    BY <1>1, <2>1, Grensene DEF SendVarsel, Varselkandidater, Til, grenseVars, Stemmer, Fortalt,
                                TypeOK
  <2>2. CASE ~\E o \in Oppgaver : SendVarsel(o)
    BY <1>1, <2>2, Grensene DEF Eldes, MarkerVarslet, VarslerFerdig, Til, grenseVars, execVars,
                                varselVars, Stemmer, Fortalt
  <2> QED
    BY <2>1, <2>2
<1> QED
  BY <1>5, <1>6, <1>7 DEF Stemmer

\* The operator moves rows to now, and never the one that is carried out.
LEMMA OperatorSteg ==
    ASSUME Stemmer, NEW k \in Kommandoene, Forkast(k) \/ Frigi(k)
    PROVE  Stemmer'
<1>1. PICK S \in SUBSET Oppgaver :
         /\ TilNaa(S, {}) /\ VentPaaNytt(S)
         /\ \A o \in S : status[o] \in {"blokkert", "feilet", "retry_venter"}
         /\ status' = [o \in Oppgaver |-> IF o \in S /\ status[o] = "feilet" THEN "klar"
                                          ELSE status[o]]
  <2>1. CASE Forkast(k)
    <3> DEFINE S == {p \in Avslutter : /\ status[p] = "blokkert"
                                       /\ \E o \in {q \in Oppgaver : Kommando[q] = k} :
                                             Sak[o] = Sak[p]}
    <3>1. S \subseteq Oppgaver /\ TilNaa(S, {}) /\ VentPaaNytt(S) /\ status' = status
      BY <2>1, KlokkeAntagelse DEF Forkast
    <3>2. \A o \in S : status[o] = "blokkert"
      OBVIOUS
    <3> HIDE DEF S
    <3>3. status' = [o \in Oppgaver |-> IF o \in S /\ status[o] = "feilet" THEN "klar"
                                        ELSE status[o]]
      BY <3>1, <3>2 DEF Stemmer, TypeOK
    <3> QED
      BY <3>1, <3>2, <3>3
  <2>2. CASE Frigi(k)
    <3> DEFINE S == {o \in {q \in Oppgaver : Kommando[q] = k} :
                        status[o] \in {"feilet", "retry_venter", "blokkert"}}
    <3>1. S \subseteq Oppgaver /\ TilNaa(S, {}) /\ VentPaaNytt(S)
      BY <2>2 DEF Frigi
    <3>2. status' = [o \in Oppgaver |-> IF o \in S /\ status[o] = "feilet" THEN "klar"
                                        ELSE status[o]]
      BY <2>2 DEF Frigi
    <3> QED
      BY <3>1, <3>2
  <2> QED
    BY <2>1, <2>2
<1>2. /\ UNCHANGED <<attempt_no, ventetid, execVars, varselVars, forlop, krasj>>
      /\ forkastet' \subseteq Kommandoene /\ grep' \in 0..forlop.grep
  BY Grensene DEF Forkast, Frigi, Frigitt, grenseVars, Stemmer, TypeOK
<1>3. /\ status' \in [Oppgaver -> Status]
      /\ \A o \in Oppgaver : status[o] = "kjorer" => status'[o] = "kjorer"
  BY <1>1 DEF Stemmer, TypeOK, Status, Ventende
<1>4. Rader' = (Rader \ (S \cup {})) \cup S
  BY <1>1 DEF Rader, Ventende, Stemmer, TypeOK
<1>5. Ordnet' /\ \A p, o : o \in forfalte' \ S /\ <<p, o>> \in foer' => <<p, o>> \in foer
  BY <1>1, <1>4, TilNaaOrdner DEF Stemmer, TypeOK
<1>6. forbi' \in [Oppgaver -> SUBSET Oppgaver]
  BY <1>1 DEF VentPaaNytt, Stemmer, TypeOK
<1>7. TypeOK'
  BY <1>2, <1>3, <1>5, <1>6 DEF Stemmer, TypeOK, execVars, varselVars
<1>8. IHand' /\ Fortalt' /\ Trappet'
  BY <1>2, <1>3 DEF Stemmer, IHand, I_hand, Fortalt, Trappet, execVars, varselVars
<1>9. Forbigaatt'
  BY <1>1, <1>2, <1>5, FlyttetForbi
<1> QED
  BY <1>7, <1>8, <1>9 DEF Stemmer

LEMMA StemmerSteg == ASSUME Stemmer, [Next]_vars PROVE Stemmer'
<1>1. CASE Next
  BY <1>1, HentSteg, BesluttSteg, TilbakeSteg, KjorSteg, FullforSteg, KrasjSteg, TikkSteg,
     VarselSteg, OperatorSteg DEF Next, Executor
<1>2. CASE UNCHANGED vars
  <2>1. Ordnet'
    BY <1>2, KoenStaar DEF vars, radVars, Stemmer, TypeOK
  <2>2. TypeOK'
    BY <1>2, <2>1 DEF vars, radVars, execVars, varselVars, grenseVars, Stemmer, TypeOK
  <2> QED
    BY <1>2, <2>2 DEF vars, radVars, execVars, varselVars, grenseVars, Stemmer, IHand,
                      Forbigaatt, Fortalt, Trappet
<1> QED
  BY <1>1, <1>2

LEMMA StemmerHolder == Spec => []Stemmer
BY StemmerInit, StemmerSteg, PTL DEF Spec

----------------------------------------------------------------------------
(* The properties                                                          *)

\* Rows are well formed, in one order, with those that are due first; and an
\* operation is warned about once, and once more for each stop between the
\* event and its mark.
THEOREM VarselStemmerHolder == Spec => []VarselStemmer
<1>1. Stemmer => VarselStemmer
  BY Grensene DEF Stemmer, VarselStemmer, Fortalt, EttVarsel
<1> QED
  BY <1>1, StemmerHolder, PTL

\* ORDER BY neste_forsok_at rotates: while an operation is due, no other is
\* taken twice, whatever blocks, fails, wakes up or is retried meanwhile.
THEOREM IngenSnikerHolder == Spec => IngenSniker
<1> DEFINE A == \A o \in Oppgaver :
                  steg = "ledig" /\ steg' = "valgt" /\ o \in Valgbare \ {hand'} =>
                      hand' \notin forbi[o]
<1>1. ASSUME Stemmer, [Next]_vars PROVE A
  <2> SUFFICES ASSUME NEW o \in Oppgaver, steg = "ledig", steg' = "valgt",
                      o \in Valgbare \ {hand'}
               PROVE  hand' \notin forbi[o]
    OBVIOUS
  <2>1. Hent
    BY <1>1 DEF Next, Executor, Beslutt, Blokker, Kjor, Fullfor, Feil, ProvIgjen, SendVarsel,
                MarkerVarslet, VarslerFerdig, Krasj, Tikk, Eldes, Forkast, Frigi, Til, vars,
                execVars
  <2>2. ErNeste(hand')
    BY <2>1 DEF Hent, Til
  <2>3. <<hand', o>> \in foer
    BY <2>2 DEF ErNeste
  <2> QED
    BY <1>1, <2>3 DEF Stemmer, Forbigaatt
<1>2. [Next]_vars /\ Stemmer => [A]_vars
  BY <1>1
<1> QED
  BY <1>2, StemmerHolder, PTL DEF Spec, IngenSniker

\* The ladder goes up, and stays where it ends.
LEMMA Stigende ==
    ASSUME NEW m \in Nat, NEW n \in Nat, m < n
    PROVE  Backoff(m) <= Backoff(n) /\ Backoff(m) \in Nat /\ Backoff(n) \in Nat /\ Backoff(n) > 0
<1>1. \A i, j \in 1..7 : i <= j => Trapp[i] <= Trapp[j] /\ Trapp[i] \in Nat /\ Trapp[i] > 0
  BY DEF Trapp
<1> QED
  BY <1>1 DEF Backoff

\* A closing is due in the very step that takes its last obstacle away, and no
\* wait is shorter than the one before it.
THEOREM TidenSettesRettHolder == Spec => TidenSettesRett
<1> DEFINE L == \A a \in Avslutter :
                  status[a] = "blokkert" /\ ~Fri(a) /\ Fri(a)' => a \in forfalte'
           T == \A o \in Oppgaver : ventetid'[o] # ventetid[o] =>
                  /\ ventetid'[o] > ventetid[o]
                  /\ attempt_no[o] = 1 => ventetid'[o] = 1
<1>1. ASSUME Stemmer, [Next]_vars PROVE L
  <2> SUFFICES ASSUME NEW a \in Avslutter, status[a] = "blokkert", ~Fri(a), Fri(a)'
               PROVE  a \in forfalte'
    OBVIOUS
  <2>1. a \in Oppgaver
    BY KlokkeAntagelse
  <2>2. PICK p \in Oppgaver \ {a} : /\ Sak[p] = Sak[a]
                                    /\ status[p] # "ok" /\ Kommando[p] \notin forkastet
    BY DEF Fri
  <2>3. status'[p] = "ok" \/ Kommando[p] \in forkastet'
    BY <2>2 DEF Fri
  <2>4. CASE Fullfor
    <3>1. status'[p] = "ok" /\ hand \in Oppgaver /\ SettStatus(hand, "ok")
      BY <1>1, <2>3, <2>2, <2>4 DEF Fullfor, Stemmer, IHand, I_hand
    <3>2. p = hand
      BY <1>1, <2>2, <3>1 DEF SettStatus, Stemmer, TypeOK
    <3>3. a \in Vekkes(hand)
      BY <2>1, <2>2, <3>2 DEF Vekkes
    <3> QED
      BY <2>4, <3>3 DEF Fullfor, TilNaa
  <2>5. ASSUME NEW k \in Kommandoene, Forkast(k) PROVE a \in forfalte'
    <3>1. Kommando[p] = k
      BY <2>2, <2>3, <2>5 DEF Forkast
    <3> QED
      BY <2>2, <2>5, <3>1 DEF Forkast, TilNaa
  <2>6. CASE ~Fullfor /\ ~\E k \in Kommandoene : Forkast(k)
    <3>1. forkastet' = forkastet
      BY <1>1, <2>6 DEF Next, Executor, Hent, Beslutt, Blokker, Kjor, Feil, ProvIgjen, SendVarsel,
                  MarkerVarslet, VarslerFerdig, Krasj, Tikk, Eldes, Frigi, vars, radVars
    <3>2. status'[p] # "ok"
      BY <1>1, <2>2, <2>6 DEF Next, Executor, Hent, Beslutt, Blokker, Kjor, Feil, ProvIgjen,
                  SendVarsel, MarkerVarslet, VarslerFerdig, Krasj, Tikk, Eldes, Frigi, vars,
                  radVars, SettStatus, Stemmer, TypeOK
    <3> QED
      BY <2>2, <2>3, <3>1, <3>2
  <2> QED
    BY <2>4, <2>5, <2>6
<1>2. ASSUME Stemmer, [Next]_vars PROVE T
  <2> SUFFICES ASSUME NEW o \in Oppgaver, ventetid'[o] # ventetid[o]
               PROVE  ventetid'[o] > ventetid[o] /\ (attempt_no[o] = 1 => ventetid'[o] = 1)
    OBVIOUS
  <2>1. ProvIgjen(FALSE)
    BY <1>2 DEF Next, Executor, Hent, Beslutt, Blokker, Kjor, Fullfor, Feil, ProvIgjen, SendVarsel,
                MarkerVarslet, VarslerFerdig, Krasj, Tikk, Eldes, Forkast, Frigi, vars, radVars
  <2>2. /\ steg = "kjorer" /\ attempt_no[hand] < forlop.forsok /\ o = hand
        /\ ventetid'[o] = Backoff(attempt_no[o] - 1)
    BY <1>2, <2>1 DEF ProvIgjen, Stemmer, TypeOK
  <2>3. attempt_no[o] \in Nat /\ attempt_no[o] > 0
    BY <1>2, <2>2, Grensene DEF Stemmer, Trappet
  <2>4. attempt_no[o] = 1 => Backoff(attempt_no[o] - 1) = 1
    BY DEF Backoff, Trapp
  <2>5. attempt_no[o] - 1 \in Nat
    BY <2>3
  <2>6. Backoff(attempt_no[o] - 1) \in Nat /\ Backoff(attempt_no[o] - 1) > 0
    BY <2>5 DEF Backoff, Trapp
  <2>7. CASE ventetid[o] = 0
    BY <2>2, <2>4, <2>6, <2>7
  <2>8. CASE ventetid[o] # 0
    <3>1. PICK m \in 1..attempt_no[o] : ventetid[o] = Backoff(m - 1) /\ m < attempt_no[o]
      BY <1>2, <2>2, <2>8 DEF Stemmer, Trappet
    <3>2. m - 1 \in Nat /\ m - 1 < attempt_no[o] - 1
      BY <2>3, <3>1
    <3>3. /\ Backoff(m - 1) <= Backoff(attempt_no[o] - 1)
          /\ Backoff(m - 1) \in Nat
      BY <2>5, <3>2, Stigende
    <3> QED
      BY <2>2, <2>4, <2>6, <3>1, <3>3
  <2> QED
    BY <2>7, <2>8
<1>3. Stemmer /\ [Next]_vars => [L]_vars /\ [T]_vars
  BY <1>1, <1>2
<1>4. Spec => [][L]_vars /\ [][T]_vars
  BY <1>3, StemmerHolder, PTL DEF Spec
<1> QED
  BY <1>4 DEF TidenSettesRett, LukkesStraks, TrappenStiger
=============================================================================
