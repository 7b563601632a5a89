------------------------------ MODULE Prosess -------------------------------
(***************************************************************************)
(* One process from start to exit: what is prepared and in which order,    *)
(* the supervised tasks with their restart budgets, the readiness          *)
(* aggregate, and the controlled shutdown.                                 *)
(*                                                                         *)
(* Lengths of time are left out: a run of a task ends before or after the  *)
(* stable window, a backoff ends some time, the grace of the shutdown may  *)
(* expire at any point of the drain.                                       *)
(***************************************************************************)
EXTENDS Naturals, FiniteSets

CONSTANTS
    Tasks,      \* the supervised tasks (tasknavn::ALLE)
    Lydhoere,   \* those whose work itself watches the shutdown token
    Budsjett,   \* RESTARTBUDSJETT
    MaksFeil    \* bound: runs that end in an error or a panic

ASSUME ProsessAntagelse ==
    /\ Lydhoere \subseteq Tasks /\ Budsjett \in Nat \ {0} /\ MaksFeil \in Nat

VARIABLES
    fase,       \* how far the process has come
    utfall,     \* what the process ended with
    signal,     \* the shutdown token is cancelled
    ytre,       \* signal_handler and health_check, which nobody supervises
    task,       \* where each supervised task is
    forsok,     \* its restarts since it was last stable
    ustabile,   \* history: its short runs since the last long one
    meldt,      \* the tasks readiness knows of
    oppe,       \* those it holds to be up
    nats, migrert,
    feil

helseVars == <<meldt, oppe, nats, migrert>>
taskVars == <<task, forsok, ustabile>>
prosessVars == <<fase, utfall, signal, ytre, taskVars, helseVars, feil>>

Faser == {"port", "nats", "stroemmer", "migrer", "media", "bygg", "kjorer",
          "drenerer", "ferdig"}
TaskSteg == {"ingen", "topp", "inne", "pause", "ok", "feil", "panikk",
             "hentet", "avbrutt"}
Ytre == {"signal_handler", "health_check"}

ProsessTypeOK ==
    /\ fase \in Faser /\ utfall \in {"ingen", "ok", "feil"}
    /\ signal \in BOOLEAN /\ nats \in BOOLEAN /\ migrert \in BOOLEAN
    /\ ytre \in [Ytre -> {"inne", "ok", "hentet"}]
    /\ task \in [Tasks -> TaskSteg]
    /\ forsok \in [Tasks -> 0..Budsjett + 1] /\ ustabile \in [Tasks -> Nat]
    /\ meldt \subseteq Tasks /\ oppe \subseteq meldt
    /\ feil \in 0..MaksFeil

ProsessInit ==
    /\ fase = "port" /\ utfall = "ingen" /\ signal = FALSE
    /\ ytre = [y \in Ytre |-> "inne"]
    /\ task = [t \in Tasks |-> "ingen"] /\ forsok = [t \in Tasks |-> 0]
    /\ ustabile = [t \in Tasks |-> 0]
    /\ meldt = {} /\ oppe = {} /\ nats = FALSE /\ migrert = FALSE
    /\ feil = 0

----------------------------------------------------------------------------
(* Start: the port first, then NATS, the streams, the migrations, the media *)
(* store; then the tasks are registered and spawned                        *)

Neste == [port |-> "nats", nats |-> "stroemmer", stroemmer |-> "migrer",
          migrer |-> "media", media |-> "bygg"]

Forbered ==
    /\ fase \in DOMAIN Neste
    /\ fase' = Neste[fase]
    /\ nats' = (nats \/ fase = "nats")
    /\ migrert' = (migrert \/ fase = "migrer")
    /\ UNCHANGED <<utfall, signal, ytre, taskVars, meldt, oppe, feil>>

\* Any of it may fail, and the process ends.
ForberedFeiler ==
    /\ fase \in DOMAIN Neste /\ feil < MaksFeil
    /\ fase' = "ferdig" /\ utfall' = "feil" /\ feil' = feil + 1
    /\ UNCHANGED <<signal, ytre, taskVars, helseVars>>

\* Mutant: a task is known to readiness when its supervisor starts.
Spawn_UtenRegistrering ==
    /\ fase = "bygg" /\ fase' = "kjorer"
    /\ meldt' = meldt
    /\ task' = [t \in Tasks |-> "topp"]
    /\ UNCHANGED <<utfall, signal, ytre, forsok, ustabile, oppe, nats, migrert, feil>>

Spawn ==
    /\ fase = "bygg" /\ fase' = "kjorer"
    /\ meldt' = Tasks
    /\ task' = [t \in Tasks |-> "topp"]
    /\ UNCHANGED <<utfall, signal, ytre, forsok, ustabile, oppe, nats, migrert, feil>>

\* The client's event callback.
NatsEndres ==
    /\ fase \in {"kjorer", "drenerer"}
    /\ nats' = ~nats
    /\ UNCHANGED <<fase, utfall, signal, ytre, taskVars, meldt, oppe, migrert, feil>>

----------------------------------------------------------------------------
(* TaskSupervisor::run *)

Lever == fase \in {"kjorer", "drenerer"}
Sett(t, steg) == task' = [task EXCEPT ![t] = steg]

Topp(t) ==
    /\ Lever /\ task[t] = "topp"
    /\ IF signal THEN Sett(t, "ok") /\ oppe' = oppe \ {t} /\ meldt' = meldt
       ELSE Sett(t, "inne") /\ oppe' = oppe \cup {t} /\ meldt' = meldt \cup {t}
    /\ UNCHANGED <<fase, utfall, signal, ytre, forsok, ustabile, nats, migrert, feil>>

\* Mutant: a long run leaves the count of restarts as it was.
EtterKjoring_UtenNullstilling(t, stabil) == forsok[t] + 1

\* A run that lasted the stable window starts the count afresh.
EtterKjoring(t, stabil) == IF stabil THEN 1 ELSE forsok[t] + 1

\* run_once ends with an error, after the stable window or before it.
Feiler(t, stabil) ==
    /\ Lever /\ task[t] = "inne" /\ feil < MaksFeil
    /\ feil' = feil + 1
    /\ oppe' = oppe \ {t}
    /\ IF signal THEN Sett(t, "ok") /\ UNCHANGED <<forsok, ustabile>>
       ELSE /\ forsok' = [forsok EXCEPT ![t] = EtterKjoring(t, stabil)]
            /\ ustabile' = [ustabile EXCEPT ![t] = IF stabil THEN 0 ELSE @ + 1]
            /\ Sett(t, IF forsok'[t] > Budsjett THEN "feil" ELSE "pause")
    /\ UNCHANGED <<fase, utfall, signal, ytre, meldt, nats, migrert>>

\* Work that watches the token returns when it is cancelled.
Stopper(t) ==
    /\ Lever /\ task[t] = "inne" /\ t \in Lydhoere /\ signal
    /\ Sett(t, "ok") /\ oppe' = oppe \ {t}
    /\ UNCHANGED <<fase, utfall, signal, ytre, forsok, ustabile, meldt, nats, migrert, feil>>

\* vent_med_backoff: the delay ends, or the shutdown ends it.
Pause(t) ==
    /\ Lever /\ task[t] = "pause"
    /\ Sett(t, IF signal THEN "ok" ELSE "topp")
    /\ UNCHANGED <<fase, utfall, signal, ytre, forsok, ustabile, helseVars, feil>>

\* A panic passes the supervisor by; its readiness flag stays up.
Panikk(t) ==
    /\ Lever /\ task[t] = "inne" /\ feil < MaksFeil
    /\ feil' = feil + 1 /\ Sett(t, "panikk")
    /\ UNCHANGED <<fase, utfall, signal, ytre, forsok, ustabile, helseVars>>

----------------------------------------------------------------------------
(* run: the outcomes of the tasks, and the shutdown *)

Signal ==
    /\ fase = "kjorer" /\ ~signal
    /\ signal' = TRUE /\ ytre' = [ytre EXCEPT !["signal_handler"] = "ok"]
    /\ UNCHANGED <<fase, utfall, taskVars, helseVars, feil>>

HelseserverStopper ==
    /\ Lever /\ ytre["health_check"] = "inne" /\ feil < MaksFeil
    /\ feil' = feil + 1 /\ ytre' = [ytre EXCEPT !["health_check"] = "ok"]
    /\ UNCHANGED <<fase, utfall, signal, taskVars, helseVars>>

\* Mutant: a failed task ends the process also while it is shutting down.
EtterTask_FeilForst(resultat) ==
    IF resultat \in {"feil", "panikk"} THEN fase' = "ferdig" /\ utfall' = "feil"
    ELSE IF signal THEN fase' = "drenerer" /\ UNCHANGED utfall
    ELSE fase' = "ferdig" /\ utfall' = "feil"

\* Mutant: a degraded task that fails is only logged.
EtterTask_BareLogg(resultat) ==
    IF signal THEN fase' = "drenerer" /\ UNCHANGED utfall
    ELSE UNCHANGED <<fase, utfall>>

\* After the signal any end is normal.  Before it a failure, a panic or the
\* clean end of a critical task ends the process.
EtterTask(resultat) ==
    IF signal THEN fase' = "drenerer" /\ UNCHANGED utfall
    ELSE fase' = "ferdig" /\ utfall' = "feil"

Avbrutt(t) == IF task[t] \in {"topp", "inne", "pause"} THEN "avbrutt" ELSE task[t]

\* join_next: one task that has ended; abort_all when the process ends by it.
Join(t) ==
    /\ fase = "kjorer" /\ task[t] \in {"ok", "feil", "panikk"}
    /\ EtterTask(task[t])
    /\ task' = [u \in Tasks |-> IF u = t THEN "hentet"
                                ELSE IF fase' = "ferdig" THEN Avbrutt(u) ELSE task[u]]
    /\ UNCHANGED <<signal, ytre, forsok, ustabile, helseVars, feil>>

JoinYtre(y) ==
    /\ fase = "kjorer" /\ ytre[y] = "ok"
    /\ EtterTask("ok")
    /\ ytre' = [ytre EXCEPT ![y] = "hentet"]
    /\ task' = IF fase' = "ferdig" THEN [t \in Tasks |-> Avbrutt(t)] ELSE task
    /\ UNCHANGED <<signal, forsok, ustabile, helseVars, feil>>

\* avslutt_kontrollert: the tasks end by themselves, or the grace expires and
\* the rest is aborted.  The health server never ends by itself.
Drenert ==
    /\ fase = "drenerer"
    /\ fase' = "ferdig" /\ utfall' = "ok"
    /\ task' = [t \in Tasks |-> Avbrutt(t)]
    /\ UNCHANGED <<signal, ytre, forsok, ustabile, helseVars, feil>>

----------------------------------------------------------------------------
SupervisorGaar(t) == Topp(t) \/ Pause(t) \/ Stopper(t)
HovedloopGaar ==
    Drenert \/ (\E t \in Tasks : Join(t)) \/ (\E y \in Ytre : JoinYtre(y))

ProsessNext ==
    \/ Forbered \/ ForberedFeiler \/ Spawn \/ NatsEndres
    \/ \E t \in Tasks : \/ SupervisorGaar(t) \/ Panikk(t)
                        \/ \E stabil \in BOOLEAN : Feiler(t, stabil)
    \/ Signal \/ HelseserverStopper \/ HovedloopGaar

ProsessSpec == ProsessInit /\ [][ProsessNext]_prosessVars

\* The runtime schedules what can run; errors, signals and the connection owe
\* nothing.
ProsessFairSpec ==
    ProsessSpec /\ WF_prosessVars(HovedloopGaar) /\ \A t \in Tasks : WF_prosessVars(SupervisorGaar(t))

----------------------------------------------------------------------------
(* Properties *)

\* Helse::er_klar
ErKlar == migrert /\ nats /\ meldt \subseteq oppe

\* While the tasks live, readiness says no more than the truth: every task is
\* at work, or has just panicked and takes the process with it (SKU-0021 R5).
KlarUnderDrift ==
    fase = "kjorer" /\ ErKlar => \A t \in Tasks : task[t] \in {"inne", "panikk"}

\* "An instance that loses a task becomes healthy again or dies"
\* (SKU-0021): the half-dead state in between does not last.
FriskEllerDod ==
    \A t \in Tasks : fase = "kjorer" /\ task[t] # "inne"
                     ~> fase = "ferdig" \/ task[t] = "inne"

\* A shutdown that was signalled to a running process ends it, and as a
\* success, whatever fails meanwhile.
NedstengingErNormal == fase = "kjorer" /\ signal ~> fase = "ferdig" /\ utfall = "ok"

\* The budget is rolling (SKU-0021 R2): a task that dies of it had that many
\* short runs in a row, however many restarts it has behind it.
BudsjettErRullende ==
    \A t \in Tasks : task[t] = "feil" => ustabile[t] >= Budsjett

\* No process is left half dead, and one that is told to stop does, as a
\* success (SKU-0021).
IngenHalvdod == FriskEllerDod /\ NedstengingErNormal

\* The supervisor's two accounts are true: readiness of the tasks at work, and
\* the budget of the failures in a row.
TilsynStemmer ==
    /\ ProsessTypeOK
    /\ KlarUnderDrift
    /\ BudsjettErRullende
=============================================================================
