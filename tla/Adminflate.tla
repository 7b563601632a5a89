----------------------------- MODULE Adminflate ------------------------------
(***************************************************************************)
(* The operator's side: the five admin routes, each a loop of its own that *)
(* takes one request at a time, beside the work they look at and release.  *)
(* A retry reads, plans, fetches originals, releases and revalidates in    *)
(* steps between which the work, a discard or the loss of the subscription *)
(* may come.                                                               *)
(*                                                                         *)
(* Time is left out: an operation in retry_venter may come due at once.    *)
(* A reply the transport loses changes nothing here: nobody sends it again.*)
(***************************************************************************)
EXTENDS Naturals, Sequences, FiniteSets, Functions

CONSTANTS
    Kommandoer,      \* the commands, in the order they were received (sequence)
    SakAv,           \* the case of each command
    OpsAv,           \* the operations each is decomposed into
    KjenteSaker,     \* cases with an identity
    MedOriginal,     \* commands whose original is still on the inbox
    MAKS_COMMANDS_PER_RETRY,
    Forlop,          \* bound: what operators ask and how often, failures of the
                     \* system, and the status of each operation at the start
    Nei

Kommando == Range(Kommandoer)
Operasjoner == UNION {OpsAv[c] : c \in Kommando}
Ruter == {"HentCommand", "HentSak", "RetryCommands", "RetrySak", "ForkastCommands"}
Status == {"klar", "sendt", "retry_venter", "ok", "feilet", "krever_avklaring"}

ASSUME AdminflateAntagelse ==
    /\ Kommandoer \in Seq(Kommando)
    /\ \A c \in Kommando : SakAv[c] # Nei
    /\ \A c, d \in Kommando : c # d => OpsAv[c] \cap OpsAv[d] = {}
    /\ Nei \notin Status
    /\ \A F \in Forlop : /\ F.status \in [Operasjoner -> Status \cup {Nei}]
                         /\ F.antall \in Nat /\ F.feil \in Nat
                         /\ \A f \in F.foresporsler : /\ f.rute \in Ruter
                                                     /\ f.ider \in Seq(Kommando \cup {Nei})
    /\ MAKS_COMMANDS_PER_RETRY \in Nat

VARIABLES
    op,          \* status of each operation row, Nei where there is none
    koblet,      \* commands with a sak_id
    forkastet,   \* commands with forkastet_at
    validert,    \* commands published as validated
    lytter,      \* routes with a live subscription
    b,           \* what each route's loop is doing, or did last; gjort is what
                 \* it has done, frigitt what anyone has released meanwhile
    forlop, antall, feil

db == <<op, koblet, forkastet, validert>>
vars == <<op, koblet, forkastet, validert, lytter, b, antall, feil, forlop>>

Rader(c, o) == {x \in OpsAv[c] : o[x] # Nei}
KommandoTil(o) == CHOOSE c \in Kommando : o \in OpsAv[c]
Fullfort(c) == Rader(c, op) # {} /\ \A o \in Rader(c, op) : op[o] = "ok"

Ledig == [f |-> Nei, steg |-> "ledig", valgt |-> {}, plan |-> << >>,
          igjen |-> {}, mangler |-> {}, snap |-> << >>, lest |-> << >>,
          gjort |-> {}, frigitt |-> {}, utfall |-> "ingen"]

Init ==
    /\ forlop \in Forlop /\ op = forlop.status
    /\ koblet \in SUBSET {c \in Kommando : Rader(c, op) = {} /\ SakAv[c] \in KjenteSaker}
    /\ forkastet = {} /\ validert = {c \in Kommando : Rader(c, op) # {}}
    /\ lytter = Ruter /\ b = [r \in Ruter |-> Ledig]
    /\ antall = 0 /\ feil = 0

Steg(r, steg) == r \in lytter /\ b[r].steg = steg
Videre(r, x) == b' = [b EXCEPT ![r] = x] /\ UNCHANGED <<lytter, antall>>
Svar(r, utfall) == Videre(r, [b[r] EXCEPT !.steg = "ledig", !.utfall = utfall])

\* A query, the original's stream or the archive's answer fails: an internal
\* error is all the operator is told.
Teknisk(r) ==
    /\ feil < forlop.feil /\ feil' = feil + 1
    /\ r \in lytter /\ b[r].steg # "ledig"
    /\ Svar(r, "intern_feil") /\ UNCHANGED <<db, forlop>>

----------------------------------------------------------------------------
(* AdminListener                                                           *)

ForsteSteg(f) ==
    CASE f.rute = "RetrySak"      -> "velg"
      [] f.rute = "RetryCommands" -> "handle"
      [] f.rute = "ForkastCommands" -> "forkast"
      [] OTHER                    -> "les"

\* handle_i_span: without a reply subject nothing is done, and what cannot be
\* read is answered before any service is called.
Motta(r) ==
    /\ Steg(r, "ledig") /\ antall < forlop.antall /\ antall' = antall + 1
    /\ \E f \in forlop.foresporsler :
        /\ f.rute = r /\ f.svarsubjekt
        /\ b' = [b EXCEPT ![r] =
                   [Ledig EXCEPT !.f = f, !.valgt = Range(f.ider),
                                 !.steg = IF f.gyldig THEN ForsteSteg(f) ELSE "ledig",
                                 !.utfall = IF f.gyldig THEN "ingen" ELSE "invalid_request"]]
    /\ UNCHANGED <<db, lytter, feil, forlop>>

\* Mutant: the loop returns Ok, and try_join_all waits for the other loops.
SubscriptionSlutter_Ok(r) ==
    /\ r \in lytter /\ feil < forlop.feil /\ feil' = feil + 1
    /\ lytter' = lytter \ {r}
    /\ b' = [b EXCEPT ![r].steg = "ledig"]
    /\ UNCHANGED <<db, antall, forlop>>

\* subscription_loop returns Err, try_join_all drops every other loop where it
\* stands, and the supervisor starts run_once again.
SubscriptionSlutter(r) ==
    /\ r \in lytter /\ feil < forlop.feil /\ feil' = feil + 1
    /\ lytter' = {}
    /\ b' = [q \in Ruter |-> [b[q] EXCEPT !.steg = "ledig"]]
    /\ UNCHANGED <<db, antall, forlop>>

RunOnce ==
    /\ lytter = {} /\ lytter' = Ruter
    /\ UNCHANGED <<db, b, antall, feil, forlop>>

----------------------------------------------------------------------------
(* AdminReadService: every query of a read sees one snapshot               *)

\* Decomposition writes dekomponert_at, facts and operations in one transaction.
Materialisert(C, o) ==
    [c \in C |-> [dekomponert |-> Rader(c, o) # {}, ops |-> {}, utfall |-> "uavklart"]]

\* Mutant: "all ok" is asked first, and an empty list is all ok.
Utfall_Tom(s) == IF s \subseteq {"ok"} THEN "fullfort" ELSE "uavklart"

\* AdminCommand::utled_utfall, from the statuses of the rows; feilet comes
\* first whatever the others are.
Utfall(s) ==
    IF "feilet" \in s THEN "feilet"
    ELSE IF "krever_avklaring" \in s THEN "krever_avklaring"
    ELSE IF s = {"ok"} THEN "fullfort"
    ELSE "uavklart"

\* BEGIN and the first query: a command's own row.
LesCommand(r) ==
    /\ Steg(r, "les") /\ r = "HentCommand"
    /\ LET C == Range(b[r].f.ider) \cap Kommando IN
       IF C = {} THEN Svar(r, "not_found")
       ELSE Videre(r, [b[r] EXCEPT !.steg = "les_ops", !.snap = op,
                                   !.lest = Materialisert(C, op)])
    /\ UNCHANGED <<db, feil, forlop>>

\* The same for a case: its identity, by whichever of its three keys.
LesIdentitet(r) ==
    /\ Steg(r, "les") /\ r = "HentSak"
    /\ IF b[r].f.sak \notin KjenteSaker THEN Svar(r, "not_found")
       ELSE Videre(r, [b[r] EXCEPT !.steg = "les_fakta", !.snap = op])
    /\ UNCHANGED <<db, feil, forlop>>

\* Mutant: each query sees what is committed when it runs.
Snapshot_ReadCommitted(r) == op
\* REPEATABLE READ: what was committed when the first query ran.
Snapshot(r) == b[r].snap

\* The facts of the case, its journalposts and their documents: what its
\* commands materialised.
LesFakta(r) ==
    /\ Steg(r, "les_fakta")
    /\ LET C == {c \in Kommando : SakAv[c] = b[r].f.sak} IN
       Videre(r, [b[r] EXCEPT !.steg = "les_ops",
                              !.lest = Materialisert(C, Snapshot(r))])
    /\ UNCHANGED <<db, feil, forlop>>

TilResponse(l, c, o) ==
    [l EXCEPT !.ops = Rader(c, o), !.utfall = Utfall({o[x] : x \in Rader(c, o)})]

LesOps(r) ==
    /\ Steg(r, "les_ops")
    /\ \E utfall \in {"ok", "response_too_large"} :
          Videre(r, [b[r] EXCEPT !.steg = "ledig", !.utfall = utfall,
                        !.lest = [c \in DOMAIN @ |-> TilResponse(@[c], c, Snapshot(r))]])
    /\ UNCHANGED <<db, feil, forlop>>

----------------------------------------------------------------------------
(* AdminRetryService                                                       *)

\* hent_commands_for_sak; one more than the limit.
CommandsForSak(s) ==
    {c \in Kommando : /\ SakAv[c] = s /\ c \notin forkastet
                      /\ c \in koblet \/ Rader(c, op) # {}}

HandleSak(r) ==
    /\ Steg(r, "velg")
    /\ LET s == b[r].f.sak IN
       IF s \notin KjenteSaker THEN Svar(r, "not_found")
       ELSE IF Cardinality(CommandsForSak(s)) > MAKS_COMMANDS_PER_RETRY
            THEN Svar(r, "invalid_request")
       ELSE IF CommandsForSak(s) = {} THEN Svar(r, "ok")
       ELSE Videre(r, [b[r] EXCEPT !.steg = "handle", !.valgt = CommandsForSak(s)])
    /\ UNCHANGED <<db, feil, forlop>>

\* Mutant: one operation that is done settles the command.
VurderCommand_Noen(s) ==
    IF s = {} THEN "Revalider"
    ELSE IF "ok" \in s THEN "IngenEndring" ELSE "FrigiOperasjoner"

\* gjenopptak.rs vurder_command, for a command that decomposes into something.
VurderCommand(s) ==
    IF s = {} THEN "Revalider"
    ELSE IF s = {"ok"} THEN "IngenEndring" ELSE "FrigiOperasjoner"

\* hent_grunnlag, for one command.
Grunnlag(c) ==
    [handling |-> VurderCommand({op[o] : o \in Rader(c, op)}),
     sak      |-> IF c \in koblet \/ Rader(c, op) # {} THEN SakAv[c] ELSE Nei,
     feilet   |-> {o \in OpsAv[c] : op[o] = "feilet"}]

\* The chosen commands with a given treatment.
Med(r, handling) == {c \in b[r].valgt : b[r].plan[c].handling = handling}

\* unike_i_rekkefolge: each command once, in the place where the request first
\* names it; for a case, in the order received.
Rekke(r) == IF r = "RetrySak" THEN Kommandoer ELSE b[r].f.ider
ErNeste(r, c) ==
    \E i \in DOMAIN Rekke(r) :
        /\ Rekke(r)[i] = c /\ c \in b[r].igjen
        /\ \A j \in 1..(i - 1) : Rekke(r)[j] \notin b[r].igjen

\* The sizes, and the first half of planlegg: one query for all the commands.
Handle(r) ==
    /\ Steg(r, "handle")
    /\ LET C == b[r].valgt
           plan == [c \in C |-> Grunnlag(c)] IN
       IF C = {} \/ Cardinality(C) > MAKS_COMMANDS_PER_RETRY
       THEN Svar(r, "invalid_request")
       ELSE IF Nei \in C THEN Svar(r, "not_found")
       ELSE IF C \cap forkastet # {} THEN Svar(r, "discarded")
       ELSE Videre(r, [b[r] EXCEPT !.steg = "original", !.plan = plan,
                          !.igjen = {c \in C : plan[c].handling = "Revalider"}])
    /\ UNCHANGED <<db, feil, forlop>>

\* The second half: the original of one command, and its link to the case.
HentOriginal(r) ==
    /\ Steg(r, "original")
    /\ \E c \in b[r].igjen :
        /\ ErNeste(r, c)
        /\ LET knytt == b[r].plan[c].sak = Nei /\ SakAv[c] \in KjenteSaker
           IN IF c \notin MedOriginal
              THEN /\ Videre(r, [b[r] EXCEPT !.mangler = @ \cup {c}, !.igjen = @ \ {c}])
                   /\ UNCHANGED koblet
              ELSE /\ koblet' = IF knytt THEN koblet \cup {c} ELSE koblet
                   /\ Videre(r, [b[r] EXCEPT !.igjen = @ \ {c},
                                    !.plan[c].sak = IF knytt THEN SakAv[c] ELSE @])
    /\ UNCHANGED <<op, forkastet, validert, feil, forlop>>

\* Mutant: only the rows of the chosen commands are looked at.
Laases_BareEgne(r) ==
    {o \in Operasjoner : op[o] # Nei /\ KommandoTil(o) \in b[r].valgt}

\* The rows frigi locks: every operation on the cases, whoever's it is.
Laases(r) ==
    LET saker  == {b[r].plan[c].sak : c \in b[r].valgt} \ {Nei}
    IN {o \in Operasjoner : /\ op[o] # Nei
                            /\ \/ SakAv[KommandoTil(o)] \in saker
                               \/ KommandoTil(o) \in Med(r, "FrigiOperasjoner")}

\* Mutant: the release comes before the answer that an original is missing.
Frigi_UtenPreflight(r) ==
    /\ Steg(r, "original") /\ b[r].igjen = {}
    /\ LET frigis == {o \in Laases(r) : /\ op[o] = "feilet"
                                        /\ KommandoTil(o) \in Med(r, "FrigiOperasjoner")}
           alle == b[r].mangler = {}
       IN /\ op' = [o \in Operasjoner |-> IF o \in frigis THEN "klar" ELSE op[o]]
          /\ b' = [q \in Ruter |->
                     [b[q] EXCEPT !.frigitt = @ \cup frigis,
                                  !.steg = IF q # r THEN @ ELSE IF alle THEN "valider" ELSE "ledig",
                                  !.utfall = IF q # r \/ alle THEN @ ELSE "original_unavailable",
                                  !.gjort = IF q = r THEN frigis ELSE @,
                                  !.igjen = IF q = r THEN Med(r, "Revalider") ELSE @]]
    /\ UNCHANGED <<koblet, forkastet, validert, lytter, antall, feil, forlop>>

\* frigi: FOR UPDATE NOWAIT, then all or nothing.  Another transaction may hold
\* a row at any moment.
Frigi(r) ==
    /\ Steg(r, "original") /\ b[r].igjen = {}
    /\ LET frigis == {o \in Laases(r) : /\ op[o] = "feilet"
                                        /\ KommandoTil(o) \in Med(r, "FrigiOperasjoner")}
       IN \/ /\ b[r].mangler # {}
             /\ Svar(r, "original_unavailable") /\ UNCHANGED op
          \/ /\ b[r].mangler = {} /\ Laases(r) # {}
             /\ Svar(r, "busy") /\ UNCHANGED op
          \/ /\ b[r].mangler = {} /\ \E o \in Laases(r) : op[o] = "krever_avklaring"
             /\ Svar(r, "unresolved") /\ UNCHANGED op
          \/ /\ b[r].mangler = {} /\ \A o \in Laases(r) : op[o] # "krever_avklaring"
             /\ op' = [o \in Operasjoner |-> IF o \in frigis THEN "klar" ELSE op[o]]
             /\ b' = [q \in Ruter |->
                        [b[q] EXCEPT !.frigitt = @ \cup frigis,
                                     !.steg  = IF q = r THEN "valider" ELSE @,
                                     !.gjort = IF q = r THEN frigis ELSE @,
                                     !.igjen = IF q = r THEN Med(r, "Revalider") ELSE @]]
             /\ UNCHANGED <<lytter, antall>>
    /\ UNCHANGED <<koblet, forkastet, validert, feil, forlop>>

\* The validator, one original after another: it publishes the command or the
\* rejection of it.
Revalider(r) ==
    /\ Steg(r, "valider")
    /\ \E gyldig \in BOOLEAN, c \in b[r].igjen :
        /\ ErNeste(r, c)
        /\ validert' = IF gyldig THEN validert \cup {c} ELSE validert
        /\ Videre(r, [b[r] EXCEPT !.igjen = @ \ {c}, !.gjort = @ \cup {c}])
    /\ UNCHANGED <<op, koblet, forkastet, feil, forlop>>

Fullforer(r) ==
    /\ Steg(r, "valider") /\ b[r].igjen = {}
    /\ Svar(r, "ok") /\ UNCHANGED <<db, feil, forlop>>

----------------------------------------------------------------------------
(* AdminForkastService, one transaction                                    *)

Forkast(r) ==
    /\ Steg(r, "forkast")
    /\ LET C == b[r].valgt IN
       IF C = {} \/ Cardinality(C) > MAKS_COMMANDS_PER_RETRY
       THEN Svar(r, "invalid_request") /\ UNCHANGED forkastet
       ELSE IF Nei \in C
       THEN Svar(r, "not_found") /\ UNCHANGED forkastet
       ELSE /\ forkastet' = forkastet \cup {c \in C : ~Fullfort(c)}
            /\ Videre(r, [b[r] EXCEPT !.steg = "ledig", !.utfall = "ok",
                                      !.gjort = forkastet' \ forkastet])
    /\ UNCHANGED <<op, koblet, validert, feil, forlop>>

----------------------------------------------------------------------------
(* The work beside: decomposition and the executor                         *)

Dekomponer(c) ==
    /\ c \in validert \ forkastet /\ Rader(c, op) = {} /\ SakAv[c] \in KjenteSaker
    /\ op' = [o \in Operasjoner |-> IF o \in OpsAv[c] THEN "klar" ELSE op[o]]
    /\ UNCHANGED <<koblet, forkastet, validert, lytter, b, antall, feil, forlop>>

Overgang == {<<"klar", "sendt">>, <<"klar", "retry_venter">>, <<"retry_venter", "sendt">>,
             <<"sendt", "ok">>, <<"sendt", "feilet">>, <<"sendt", "krever_avklaring">>,
             <<"sendt", "retry_venter">>}

\* A discarded command's operation is finished but not begun.
Arbeid(o) ==
    /\ op[o] = "sendt" \/ KommandoTil(o) \notin forkastet
    /\ \E ny \in Status :
        /\ <<op[o], ny>> \in Overgang
        /\ op' = [op EXCEPT ![o] = ny]
    /\ UNCHANGED <<koblet, forkastet, validert, lytter, b, antall, feil, forlop>>

Behandle(r) ==
    \/ LesCommand(r) \/ LesIdentitet(r) \/ LesFakta(r) \/ LesOps(r)
    \/ HandleSak(r) \/ Handle(r) \/ HentOriginal(r)
    \/ Frigi(r) \/ Revalider(r) \/ Fullforer(r)
    \/ Forkast(r)

Next ==
    \/ \E r \in Ruter : Motta(r) \/ Behandle(r) \/ Teknisk(r) \/ SubscriptionSlutter(r)
    \/ RunOnce
    \/ \E c \in Kommando : Dekomponer(c)
    \/ \E o \in Operasjoner : Arbeid(o)

Spec == Init /\ [][Next]_vars

\* The handlers are tasks that run, and the supervisor restarts the listener.
Fairness == WF_vars(RunOnce) /\ \A r \in Ruter : WF_vars(Behandle(r))
FairSpec == Spec /\ Fairness

----------------------------------------------------------------------------
Utfallene ==
    {"ingen", "ok", "invalid_request", "not_found", "discarded", "busy", "unresolved",
     "original_unavailable", "response_too_large", "intern_feil"}

\* Types; and a request that is carried out has no more commands than the limit,
\* known ones, and a plan for each (MAKS_COMMANDS_PER_RETRY).
TypeOK ==
    /\ op \in [Operasjoner -> Status \cup {Nei}]
    /\ koblet \subseteq Kommando /\ forkastet \subseteq Kommando /\ validert \subseteq Kommando
    /\ forlop \in Forlop /\ lytter \subseteq Ruter /\ antall \in 0..forlop.antall /\ feil \in 0..forlop.feil
    /\ \A r \in Ruter :
        /\ b[r].utfall \in Utfallene
        /\ b[r].steg \in {"original", "valider"} =>
              /\ b[r].valgt \subseteq Kommando
              /\ Cardinality(b[r].valgt) <= MAKS_COMMANDS_PER_RETRY
              /\ DOMAIN b[r].plan = b[r].valgt /\ b[r].igjen \subseteq b[r].valgt

\* No operation is taken up again while another on its case may or may not
\* have had its effect in the archive, whichever command that one is part of
\* and however much came between the plan and the release (SKU-0016 R5).
UavklartSperrer ==
    [][\A o, p \in Operasjoner :
          /\ op[o] = "feilet" /\ op'[o] = "klar"
          /\ SakAv[KommandoTil(o)] = SakAv[KommandoTil(p)]
          => op[p] # "krever_avklaring"]_vars

\* A refusal means that nothing was done: no operation was released and no
\* command validated, whichever of its commands was the reason.
AvvistErUrort ==
    \A r \in Ruter :
        b[r].utfall \notin {"ingen", "ok", "intern_feil"} => b[r].gjort = {}

\* "ok" to a retry means that each failed operation it saw was released, by
\* it or by another retry meanwhile, and that each command without operations
\* went to validation again, although the work went on beside it.
OkHarVirket ==
    \A r \in {"RetryCommands", "RetrySak"} : b[r].utfall = "ok" =>
        \A c \in DOMAIN b[r].plan :
            /\ b[r].plan[c].feilet \subseteq b[r].frigitt
            /\ b[r].plan[c].handling = "Revalider" => c \in b[r].gjort

\* What a read shows was so at one moment: a command has operations exactly
\* when it is decomposed, however the work moves between its queries.
LestErEttOyeblikk ==
    \A r \in {"HentCommand", "HentSak"} : b[r].utfall = "ok" =>
        \A c \in DOMAIN b[r].lest :
            b[r].lest[c].dekomponert <=> b[r].lest[c].ops # {}

\* "fullfort" is never taken back: every operation of the command was done
\* when it was read, and is done now, after any retry.
FullfortErEndelig ==
    \A r \in {"HentCommand", "HentSak"} : b[r].utfall = "ok" =>
        \A c \in DOMAIN b[r].lest : b[r].lest[c].utfall = "fullfort" => Fullfort(c)

\* Every route listens for its next request again, through lost
\* subscriptions, refused locks and failing queries.
RutenLytterIgjen == \A r \in Ruter : []<>Steg(r, "ledig")


\* An operator is told what was done: a refusal did nothing, an "ok" did all.
SvaretErSant == TypeOK /\ AvvistErUrort /\ OkHarVirket

\* What a read shows was so at one moment, and "fullfort" is so for good.
LesingErSann == LestErEttOyeblikk /\ FullfortErEndelig

============================================================================
