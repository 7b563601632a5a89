----------------------------- MODULE Lederskap ------------------------------
(***************************************************************************)
(* Several instances of the worker and the advisory lock that lets one of  *)
(* them execute: rolling deployment, shutdown between operations, abort    *)
(* when the grace runs out, crashes, errors that hand the lock on, and a   *)
(* database that drops the session of a living executor.                   *)
(*                                                                         *)
(* An operation is one archive write; what the executor decides about it   *)
(* is the subject of Eksekvering.  No write of the operation's row names   *)
(* the executor or the status it expects, here as in the code.             *)
(***************************************************************************)
EXTENDS Naturals, FiniteSets

CONSTANTS
    Instanser, Oppgaver, Ingen,
    MaksFeil,   \* bound: errors, crashes and expired graces
    MaksTap     \* bound: sessions dropped under a living executor

ASSUME LederskapAntagelse ==
    /\ Ingen \notin Instanser \cup Oppgaver
    /\ MaksFeil \in Nat /\ MaksTap \in Nat

VARIABLES
    laas,       \* the session that holds the advisory lock
    steg, i_hand,   \* each instance: where it is, and its operation
    nedstengt,  \* instances that have been told to stop
    status,     \* operasjon.status
    virket,     \* effects of each operation in the archive
    avbrutt,    \* history: operations interrupted between sendt and the outcome
    feil, tap

vars == <<laas, steg, i_hand, nedstengt, status, virket, avbrutt, feil, tap>>

Hviler == {"venter", "hent", "pause", "stoppet"}
Arbeider == {"gjenopprett", "hent", "valgt", "kjorer", "sendt", "svart"}
Steg == Hviler \cup Arbeider

TypeOK ==
    /\ laas \in Instanser \cup {Ingen}
    /\ steg \in [Instanser -> Steg]
    /\ i_hand \in [Instanser -> Oppgaver \cup {Ingen}]
    /\ nedstengt \subseteq Instanser
    /\ status \in [Oppgaver -> {"klar", "kjorer", "sendt", "ok", "krever_avklaring"}]
    /\ virket \in [Oppgaver -> Nat] /\ avbrutt \subseteq Oppgaver
    /\ feil \in 0..MaksFeil /\ tap \in 0..MaksTap

Init ==
    /\ laas = Ingen
    /\ steg = [i \in Instanser |-> "venter"] /\ i_hand = [i \in Instanser |-> Ingen]
    /\ nedstengt = {} /\ status = [o \in Oppgaver |-> "klar"]
    /\ virket = [o \in Oppgaver |-> 0] /\ avbrutt = {} /\ feil = 0 /\ tap = 0

\* Mutant: the connection is given back to the pool, and the session lives on.
Slipp_Aldri(i) == laas' = laas

Til(i, s) == steg' = [steg EXCEPT ![i] = s]
Slipp(i) == laas' = IF laas = i THEN Ingen ELSE laas
Skriv(i, s) == status' = [status EXCEPT ![i_hand[i]] = s]

----------------------------------------------------------------------------
\* Mutant: the answer of pg_try_advisory_lock is not looked at.
LaasLedig_Alltid(i) == TRUE

\* pg_try_advisory_lock
LaasLedig(i) == laas \in {Ingen, i}

\* vent_paa_lederskap: the lock, or the end of the wait.
TaLaas(i) ==
    /\ steg[i] = "venter" /\ i \notin nedstengt /\ LaasLedig(i)
    /\ laas' = i /\ Til(i, "gjenopprett")
    /\ UNCHANGED <<i_hand, nedstengt, status, virket, avbrutt, feil, tap>>

\* Mutant: the shutdown is heeded in the middle of an operation too.
KanStoppe_NaarSomHelst == Steg \ {"stoppet"}

\* The shutdown token is looked at while waiting, between operations and in the
\* supervisor's backoff, never while an operation runs.
KanStoppe == {"venter", "hent", "pause"}

Stopp(i) ==
    /\ i \in nedstengt /\ steg[i] \in KanStoppe
    /\ Til(i, "stoppet") /\ Slipp(i)
    /\ UNCHANGED <<i_hand, nedstengt, status, virket, avbrutt, feil, tap>>

\* Mutant: what was sent is taken to have succeeded.
Etter_SendtErOk(s) == IF s = "kjorer" THEN "klar" ELSE IF s = "sendt" THEN "ok" ELSE s

\* Mutant: what was sent is tried again.
Etter_SendtPaaNytt(s) == IF s \in {"kjorer", "sendt"} THEN "klar" ELSE s

\* What a restart makes of a status.
Etter(s) ==
    IF s = "kjorer" THEN "klar" ELSE IF s = "sendt" THEN "krever_avklaring" ELSE s

\* gjenopprett_etter_restart
Gjenopprett(i) ==
    /\ steg[i] = "gjenopprett"
    /\ status' = [o \in Oppgaver |-> Etter(status[o])] /\ Til(i, "hent")
    /\ UNCHANGED <<laas, i_hand, nedstengt, virket, avbrutt, feil, tap>>

Hent(i, o) ==
    /\ steg[i] = "hent" /\ i \notin nedstengt /\ status[o] = "klar"
    /\ Til(i, "valgt") /\ i_hand' = [i_hand EXCEPT ![i] = o]
    /\ UNCHANGED <<laas, nedstengt, status, virket, avbrutt, feil, tap>>

MarkerKjorer(i) ==
    /\ steg[i] = "valgt" /\ Til(i, "kjorer") /\ Skriv(i, "kjorer")
    /\ UNCHANGED <<laas, i_hand, nedstengt, virket, avbrutt, feil, tap>>

MarkerSendt(i) ==
    /\ steg[i] = "kjorer" /\ Til(i, "sendt") /\ Skriv(i, "sendt")
    /\ UNCHANGED <<laas, i_hand, nedstengt, virket, avbrutt, feil, tap>>

Arkivkall(i) ==
    /\ steg[i] = "sendt" /\ Til(i, "svart")
    /\ virket' = [virket EXCEPT ![i_hand[i]] = @ + 1]
    /\ UNCHANGED <<laas, i_hand, nedstengt, status, avbrutt, feil, tap>>

Fullfor(i) ==
    /\ steg[i] = "svart" /\ Til(i, "hent") /\ Skriv(i, "ok")
    /\ UNCHANGED <<laas, i_hand, nedstengt, virket, avbrutt, feil, tap>>

----------------------------------------------------------------------------
Nedsteng(i) ==
    /\ i \notin nedstengt /\ nedstengt' = nedstengt \cup {i}
    /\ UNCHANGED <<laas, steg, i_hand, status, virket, avbrutt, feil, tap>>

\* The run ends in the middle of something: an error goes to the supervisor
\* ("pause"), a crash starts the process afresh ("venter"), and the grace of a
\* shutdown stops it.  The lease is dropped in each case.
Avbryt(i, til) ==
    /\ steg[i] \in Arbeider /\ feil < MaksFeil
    /\ til = "stoppet" => i \in nedstengt
    /\ feil' = feil + 1
    /\ Til(i, til) /\ Slipp(i)
    /\ avbrutt' = IF steg[i] \in {"sendt", "svart"} THEN avbrutt \cup {i_hand[i]} ELSE avbrutt
    /\ UNCHANGED <<i_hand, nedstengt, status, virket, tap>>

Restart(i) ==
    /\ steg[i] = "pause" /\ i \notin nedstengt /\ Til(i, "venter")
    /\ UNCHANGED <<laas, i_hand, nedstengt, status, virket, avbrutt, feil, tap>>

\* External: the database ends the session that holds the lock.  The lease
\* never looks at its connection again.
TapSesjon ==
    /\ laas # Ingen /\ tap < MaksTap
    /\ laas' = Ingen /\ tap' = tap + 1
    /\ UNCHANGED <<steg, i_hand, nedstengt, status, virket, avbrutt, feil>>

Gaar(i) ==
    \/ TaLaas(i) \/ Stopp(i) \/ Gjenopprett(i) \/ (\E o \in Oppgaver : Hent(i, o))
    \/ MarkerKjorer(i) \/ MarkerSendt(i) \/ Arkivkall(i) \/ Fullfor(i) \/ Restart(i)

Next ==
    \/ TapSesjon
    \/ \E i \in Instanser : \/ Gaar(i) \/ Nedsteng(i)
                            \/ \E til \in {"pause", "venter", "stoppet"} : Avbryt(i, til)

Spec == Init /\ [][Next]_vars
FairSpec == Spec /\ \A i \in Instanser : WF_vars(Gaar(i))

----------------------------------------------------------------------------
(* Properties *)

Aktive == {i \in Instanser : steg[i] \in Arbeider}

\* "One active executor, enforced with an advisory lock" (OperasjonWorker): true
\* while the database keeps its sessions.
EnAktivExecutor == tap = 0 => \A i, j \in Aktive : i = j

\* An instance that works holds the lock, and so nobody repeats what another
\* has under way: each operation takes effect at most once over all instances,
\* until a session is lost.
HoystEnVirkningIAlt == tap = 0 => \A o \in Oppgaver : virket[o] <= 1

\* Even with two executors at work and rows overwritten from both sides, a
\* completed operation has been to the archive.
OkErVirket == \A o \in Oppgaver : status[o] = "ok" => virket[o] > 0

\* A shutdown leaves nobody with work to clear up: an outcome is unresolved
\* only when an error, a crash or the end of the grace hit it between `sendt`
\* and its commit (or a second executor, after a lost session, found it there).
UavklartBareEtterAvbrudd ==
    tap = 0 => \A o \in Oppgaver : status[o] = "krever_avklaring" => o \in avbrutt

\* A deployment hands the work on: once the holder of the lock is told to stop,
\* another instance works, if there is one that was not told to stop as well.
Overtakelse ==
    \A i \in Instanser : laas = i /\ i \in nedstengt
        ~> Aktive \ {i} # {} \/ Instanser \subseteq nedstengt

\* One at a time, and once: until the database drops a session one instance is
\* past the lock and no operation takes effect twice; a completed operation has
\* always been to the archive.
EnOmGangen ==
    /\ TypeOK
    /\ EnAktivExecutor
    /\ HoystEnVirkningIAlt
    /\ OkErVirket
=============================================================================
