--------------------------- MODULE Forfallsklokke ---------------------------
(***************************************************************************)
(* Which operation the executor takes next.  Rows that wait are ordered by *)
(* neste_forsok_at; the executor takes the first one that is due, and every *)
(* outcome moves its row: a blocked one by 30 seconds, a failed one by the *)
(* backoff ladder, a polled one by the poll interval.  A finished sibling, *)
(* a discard and an operator's retry move rows to "now".                   *)
(*                                                                         *)
(* Only the order of the times matters to who is served, so `foer` is the  *)
(* order of the waiting rows by neste_forsok_at, as pairs, and `forfalte`  *)
(* the first of them, those that are due.  "now" is the end of the due     *)
(* part, since the database's clock goes forward from one transaction to   *)
(* the next; "later" is any place after it.  What an operation does in the *)
(* archive is the subject of Eksekvering.                                  *)
(***************************************************************************)
EXTENDS Naturals, Sequences

CONSTANTS
    Oppgaver,       \* operations
    Avslutter,      \* those of type avslutt_sak
    Sak, Kommando,  \* the case and the command of each operation
    Forut,          \* what each other operation's facts wait for
    Ingen,
    Forlop          \* bound: which operations are not done when the behaviour begins
                    \* and which of them grow old, the attempts of each, stops of
                    \* the executor and retries of an operator

Trapp == <<1, 5, 15, 60, 360, 720, 1440>>   \* minutes

ASSUME KlokkeAntagelse ==
    /\ Avslutter \subseteq Oppgaver /\ Ingen \notin Oppgaver
    /\ DOMAIN Sak = Oppgaver /\ DOMAIN Kommando = Oppgaver
    /\ Forut \in [Oppgaver -> SUBSET Oppgaver]
    /\ Forlop \subseteq [oppgaver : SUBSET Oppgaver, gamle : SUBSET Oppgaver,
                          forsok : Nat, krasj : Nat, grep : Nat]

VARIABLES
    foer, forfalte,
    status, attempt_no,
    ventetid,           \* the last backoff of each operation, in minutes
    forkastet,          \* discarded commands
    steg, hand, dom,    \* the executor: where it is, its operation, its decision
    gammel, varslet,    \* older than the warning limit; varslet_at
    sagt,               \* warnings sent about each operation
    forbi,              \* history: who was taken while an operation was due
    forlop, krasj, grep

radVars == <<foer, forfalte, status, attempt_no, ventetid, forkastet>>
execVars == <<steg, hand, dom>>
varselVars == <<gammel, varslet, sagt>>
grenseVars == <<forlop, krasj, grep>>
vars == <<radVars, execVars, varselVars, forbi, grenseVars>>

Ventende == {"klar", "retry_venter", "blokkert"}
Status == Ventende \cup {"kjorer", "ok", "feilet", "krever_avklaring"}

Kommandoene == {Kommando[o] : o \in Oppgaver}
Rader == {o \in Oppgaver : status[o] \in Ventende}

\* r puts the rows of S one after the other.
ErRekkefolge(r, S) ==
    /\ r \subseteq S \X S
    /\ \A p, q \in S : <<p, q>> \in r <=> p # q /\ <<q, p>> \notin r
    /\ \A p, q, o \in S : <<p, q>> \in r /\ <<q, o>> \in r => <<p, o>> \in r

\* All that wait are in one order, and what is due is the first of it.
Ordnet ==
    /\ ErRekkefolge(foer, Rader) /\ forfalte \subseteq Rader
    /\ \A p, q \in Rader : <<p, q>> \in foer /\ q \in forfalte => p \in forfalte

TypeOK ==
    /\ status \in [Oppgaver -> Status] /\ attempt_no \in [Oppgaver -> 0..forlop.forsok]
    /\ Ordnet
    /\ ventetid \in [Oppgaver -> {0} \cup {Trapp[i] : i \in DOMAIN Trapp}]
    /\ forkastet \subseteq Kommandoene
    /\ steg \in {"ledig", "valgt", "besluttet", "kjorer", "varsler", "varsel_sendt"}
    /\ hand \in Oppgaver \cup {Ingen}
    /\ dom \in {"ingen", "blokkert", "allerede_utfort", "ugyldig", "utfor"}
    /\ gammel \subseteq Oppgaver /\ varslet \subseteq Oppgaver
    /\ sagt \in [Oppgaver -> Nat]
    /\ forbi \in [Oppgaver -> SUBSET Oppgaver]
    /\ forlop \in Forlop /\ krasj \in 0..forlop.krasj /\ grep \in 0..forlop.grep

----------------------------------------------------------------------------
(* neste_forsok_at *)

Rekkefolger(S) == {r \in SUBSET (S \X S) : ErRekkefolge(r, S)}

\* The order of the rows of A, which stay as they are.
Blant(A) == {x \in foer : x[1] \in A /\ x[2] \in A}

\* The rows of S are due now, all at the same time; those of U wait no more.
TilNaa(S, U) ==
    LET A == Rader \ (S \cup U)
    IN  /\ \E r \in Rekkefolger(S) :
              foer' = Blant(A) \cup r \cup ((A \cap forfalte) \X S) \cup (S \X (A \ forfalte))
        /\ forfalte' = S \cup (A \cap forfalte)

\* The row of o is due at some later time, after the rows of T.
TilSenere(o) ==
    LET A == Rader \ {o}
    IN  /\ \E T \in SUBSET A :
              /\ A \cap forfalte \subseteq T
              /\ \A x \in Blant(A) : x[2] \in T => x[1] \in T
              /\ foer' = Blant(A) \cup (T \X {o}) \cup ({o} \X (A \ T))
        /\ forfalte' = A \cap forfalte

\* History: a row whose time is set anew starts to wait anew.
VentPaaNytt(S) == forbi' = [o \in Oppgaver |-> IF o \in S THEN {} ELSE forbi[o]]

\* neste_backoff of `attempt_no.max(1) - 1`.
Backoff(n) == Trapp[IF n < 6 THEN n + 1 ELSE 7]

\* Mutant: a blocked row waits for its wake-up alone.
Valgbare_UtenBlokkerte ==
    {o \in forfalte : Kommando[o] \notin forkastet /\ status[o] # "blokkert"}

Valgbare == {o \in forfalte : Kommando[o] \notin forkastet}

\* Mutant: any row that is due is taken, whenever it was judged last.
ErNeste_Vilkaarlig(o) == o \in Valgbare

\* hent_neste_kjorbare: ORDER BY neste_forsok_at.
ErNeste(o) == o \in Valgbare /\ \A p \in Valgbare \ {o} : <<o, p>> \in foer

Init ==
    /\ forlop \in Forlop
    /\ status = [o \in Oppgaver |-> IF o \in forlop.oppgaver THEN "klar" ELSE "ok"]
    /\ foer \in Rekkefolger(forlop.oppgaver) /\ forfalte = forlop.oppgaver
    /\ attempt_no = [o \in Oppgaver |-> 0]
    /\ ventetid = [o \in Oppgaver |-> 0] /\ forkastet = {}
    /\ steg = "ledig" /\ hand = Ingen /\ dom = "ingen"
    /\ gammel = {} /\ varslet = {}
    /\ sagt = [o \in Oppgaver |-> 0]
    /\ forbi = [o \in Oppgaver |-> {}] /\ krasj = 0 /\ grep = 0

----------------------------------------------------------------------------
(* The executor *)

Til(s, o, d) == steg' = s /\ hand' = o /\ dom' = d
SettStatus(o, s) == status' = [status EXCEPT ![o] = s]

Hent ==
    /\ steg = "ledig"
    /\ \E n \in Oppgaver :
          /\ ErNeste(n) /\ Til("valgt", n, "ingen")
          /\ forbi' = [o \in Oppgaver |-> IF o \in Valgbare \ {n} THEN forbi[o] \cup {n}
                                          ELSE {}]
    /\ UNCHANGED <<radVars, varselVars, grenseVars>>

\* Mutant: the siblings are read without looking at forkastet_at.
Sosken_MedForkastet(o) == {p \in Oppgaver \ {o} : Sak[p] = Sak[o]}

\* hent_sammendrag_for_sak, less the operation itself.
Sosken(o) == {p \in Oppgaver \ {o} : Sak[p] = Sak[o] /\ Kommando[p] \notin forkastet}

Hindret(o) ==
    IF o \in Avslutter THEN \E p \in Sosken(o) : status[p] # "ok"
                       ELSE \E p \in Forut[o] : status[p] # "ok"

Beslutt ==
    /\ steg = "valgt"
    /\ \E d \in {"blokkert", "allerede_utfort", "ugyldig", "utfor"} :
          /\ d = "blokkert" => Hindret(hand)
          /\ d = "utfor" => ~Hindret(hand)
          /\ Til("besluttet", hand, d)
    /\ UNCHANGED <<radVars, varselVars, forbi, grenseVars>>

Blokker ==
    /\ steg = "besluttet" /\ dom = "blokkert"
    /\ SettStatus(hand, "blokkert") /\ TilSenere(hand)
    /\ Til("ledig", Ingen, "ingen")
    /\ UNCHANGED <<attempt_no, ventetid, forkastet, varselVars, forbi, grenseVars>>

\* marker_kjorer; the attempt is counted whether it fails or polls.
Kjor ==
    /\ steg = "besluttet" /\ dom = "utfor"
    /\ SettStatus(hand, "kjorer") /\ TilNaa({}, {hand})
    /\ attempt_no' = [attempt_no EXCEPT ![hand] = IF @ < forlop.forsok THEN @ + 1 ELSE @]
    /\ Til("kjorer", hand, dom)
    /\ UNCHANGED <<ventetid, forkastet, varselVars, forbi, grenseVars>>

\* Mutant: no sibling is woken.
Vekkes_Ingen(o) == {}

\* fullfor_ok wakes the blocked siblings of the case.
Vekkes(o) == {p \in Oppgaver \ {o} : Sak[p] = Sak[o] /\ status[p] = "blokkert"}

Fullfor ==
    /\ steg = "kjorer" \/ (steg = "besluttet" /\ dom = "allerede_utfort")
    /\ SettStatus(hand, "ok")
    /\ TilNaa(Vekkes(hand), {hand}) /\ VentPaaNytt(Vekkes(hand))
    /\ Til("ledig", Ingen, "ingen")
    /\ UNCHANGED <<attempt_no, ventetid, forkastet, varselVars, grenseVars>>

Feil ==
    /\ steg = "kjorer" \/ (steg = "besluttet" /\ dom = "ugyldig")
    /\ SettStatus(hand, "feilet") /\ TilNaa({}, {hand})
    /\ Til("ledig", Ingen, "ingen")
    /\ UNCHANGED <<attempt_no, ventetid, forkastet, varselVars, forbi, grenseVars>>

\* marker_retry after a failure, fullfor_poll after an answer that is not ready.
ProvIgjen(polles) ==
    /\ steg = "kjorer" /\ attempt_no[hand] < forlop.forsok
    /\ SettStatus(hand, "retry_venter") /\ TilSenere(hand)
    /\ ventetid' = IF polles THEN ventetid
                   ELSE [ventetid EXCEPT ![hand] = Backoff(attempt_no[hand] - 1)]
    /\ Til("ledig", Ingen, "ingen")
    /\ UNCHANGED <<attempt_no, forkastet, varselVars, forbi, grenseVars>>

\* The executor stops and the next one recovers: an attempt in hand is tried
\* again, or it had been sent and is unresolved.
Krasj ==
    /\ steg # "ledig" /\ krasj < forlop.krasj /\ krasj' = krasj + 1
    /\ IF steg = "kjorer"
       THEN \/ SettStatus(hand, "klar") /\ TilNaa({hand}, {})
            \/ SettStatus(hand, "krever_avklaring") /\ UNCHANGED <<foer, forfalte>>
       ELSE UNCHANGED <<status, foer, forfalte>>
    /\ Til("ledig", Ingen, "ingen") /\ forbi' = [o \in Oppgaver |-> {}]
    /\ UNCHANGED <<attempt_no, ventetid, forkastet, varselVars, forlop, grep>>

\* Time passes until the next row is due.
Tikk ==
    /\ \E o \in Rader \ forfalte :
          /\ \A p \in Rader \ (forfalte \cup {o}) : <<o, p>> \in foer
          /\ forfalte' = forfalte \cup {o}
    /\ UNCHANGED <<foer, status, attempt_no, ventetid, forkastet, execVars, varselVars,
                   forbi, grenseVars>>

----------------------------------------------------------------------------
(* The warning after 24 hours *)

Eldes(o) ==
    /\ o \in forlop.gamle \ gammel /\ gammel' = gammel \cup {o}
    /\ UNCHANGED <<radVars, execVars, varslet, sagt, forbi, grenseVars>>

Varselkandidater == {o \in gammel \ varslet : status[o] \notin {"ok", "feilet"}}

\* emitter_varsler runs when the queue is drained; publish, then mark.
SendVarsel(o) ==
    /\ steg \in {"ledig", "varsler"} /\ (steg = "ledig" => Valgbare = {})
    /\ o \in Varselkandidater
    /\ Til("varsel_sendt", o, "ingen")
    /\ sagt' = [sagt EXCEPT ![o] = @ + 1]
    /\ UNCHANGED <<radVars, gammel, varslet, forbi, grenseVars>>

\* Mutant: the mark is left to the next round.
MarkerVarslet_Utsatt ==
    /\ steg = "varsel_sendt" /\ UNCHANGED varslet
    /\ Til("ledig", Ingen, "ingen")
    /\ UNCHANGED <<radVars, gammel, sagt, forbi, grenseVars>>

MarkerVarslet ==
    /\ steg = "varsel_sendt" /\ varslet' = varslet \cup {hand}
    /\ \E s \in {"ledig", "varsler"} : Til(s, Ingen, "ingen")
    /\ UNCHANGED <<radVars, gammel, sagt, forbi, grenseVars>>

VarslerFerdig ==
    /\ steg = "varsler" /\ Til("ledig", Ingen, "ingen")
    /\ UNCHANGED <<radVars, varselVars, forbi, grenseVars>>

----------------------------------------------------------------------------
(* The operator *)

\* forkast: a finished command is left alone; blocked closings on its cases
\* are due at once.
Forkast(k) ==
    LET egne == {o \in Oppgaver : Kommando[o] = k}
        lukker == {p \in Avslutter : /\ status[p] = "blokkert"
                                     /\ \E o \in egne : Sak[o] = Sak[p]}
    IN  /\ k \notin forkastet /\ \E o \in egne : status[o] # "ok"
        /\ forkastet' = forkastet \cup {k}
        /\ TilNaa(lukker, {}) /\ VentPaaNytt(lukker)
        /\ UNCHANGED <<status, attempt_no, ventetid, execVars, varselVars, grenseVars>>

\* Mutant: the retry starts the ladder again.
Frigitt_Nullstilt(S) == [o \in Oppgaver |-> IF o \in S THEN 0 ELSE attempt_no[o]]

\* attempt_no is not touched by a retry.
Frigitt(S) == attempt_no

\* frigi: refused while an outcome on the case is unresolved; failed ones are
\* ready, waiting ones are due.
Frigi(k) ==
    LET egne == {o \in Oppgaver : Kommando[o] = k}
        berort == {o \in egne : status[o] \in {"feilet", "retry_venter", "blokkert"}}
    IN  /\ grep < forlop.grep /\ grep' = grep + 1
        /\ k \notin forkastet /\ berort # {}
        /\ \A o \in egne : \A p \in Oppgaver :
              Sak[p] = Sak[o] => status[p] # "krever_avklaring"
        /\ status' = [o \in Oppgaver |-> IF o \in berort /\ status[o] = "feilet"
                                         THEN "klar" ELSE status[o]]
        /\ attempt_no' = Frigitt(berort)
        /\ TilNaa(berort, {}) /\ VentPaaNytt(berort)
        /\ UNCHANGED <<ventetid, forkastet, execVars, varselVars, forlop, krasj>>

----------------------------------------------------------------------------
Executor ==
    \/ Hent \/ Beslutt \/ Blokker \/ Kjor \/ Fullfor \/ Feil
    \/ (\E p \in BOOLEAN : ProvIgjen(p))
    \/ (\E o \in Oppgaver : SendVarsel(o)) \/ MarkerVarslet \/ VarslerFerdig

Next ==
    \/ Executor \/ Krasj \/ Tikk
    \/ \E o \in Oppgaver : Eldes(o)
    \/ \E k \in Kommandoene : Forkast(k) \/ Frigi(k)

Spec == Init /\ [][Next]_vars

\* A leading executor goes on and time passes; operators owe nothing.
FairSpec == Spec /\ WF_vars(Executor) /\ WF_vars(Tikk)

----------------------------------------------------------------------------
(* Properties *)

\* "ORDER BY neste_forsok_at rotates through all the rows, so permanently
\* blocked operations cannot starve the queue": while an operation is due, no
\* other is taken twice, unless the executor stopped with the row in hand.  A
\* wake-up counts from itself: it gives a row that is overdue a later time.
IngenSniker ==
    [][\A o \in Oppgaver :
          steg = "ledig" /\ steg' = "valgt" /\ o \in Valgbare \ {hand'} =>
              hand' \notin forbi[o]]_vars

\* And so everything that is due is taken, if the executor goes on.
ForfaltBlirTatt ==
    \A o \in Oppgaver : o \in forfalte /\ Kommando[o] \notin forkastet
        ~> hand = o \/ Kommando[o] \in forkastet

\* Everything else on the case is done or discarded.
Fri(a) ==
    \A p \in Oppgaver \ {a} :
        Sak[p] = Sak[a] => status[p] = "ok" \/ Kommando[p] \in forkastet

\* A blocked closing is due in the very step that takes its last obstacle away,
\* be it a sibling's outcome or a discard; not 30 seconds later.
LukkesStraks ==
    [][\A a \in Avslutter :
          status[a] = "blokkert" /\ ~Fri(a) /\ Fri(a)' =>
              a \in forfalte']_vars

\* Two closings of one case wait for each other; when the operator discards
\* one, and the rest is done, the other is no longer blocked (SKU-0024 R2).
VranglaasLoesnes ==
    \A a \in Avslutter :
        Kommando[a] \notin forkastet /\ Fri(a)
            ~> status[a] # "blokkert" \/ Kommando[a] \in forkastet

\* The first failure is tried again after a minute, and no wait is shorter than
\* the one before it, whoever has moved the row in between.
TrappenStiger ==
    [][\A o \in Oppgaver : ventetid'[o] # ventetid[o] =>
          /\ ventetid'[o] > ventetid[o]
          /\ attempt_no[o] = 1 => ventetid'[o] = 1]_vars

\* One warning for each operation, and one more for each stop of the executor
\* between the event and the mark.
EttVarsel == \A o \in Oppgaver : sagt[o] <= 1 + krasj

\* What is told of late operations is told once, over well-formed rows.
VarselStemmer == TypeOK /\ EttVarsel

\* Every writer of neste_forsok_at sets it right: a wake-up at once, a wait no
\* shorter than the one before.
TidenSettesRett == LukkesStraks /\ TrappenStiger

\* Nothing that could go on waits for ever, in the queue or for another closing.
IngenVenterForEvig == ForfaltBlirTatt /\ VranglaasLoesnes
=============================================================================
