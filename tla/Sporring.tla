------------------------------ MODULE Sporring -------------------------------
(***************************************************************************)
(* Reading from the archive: four subjects answered request by request, by *)
(* every instance of the service, beside executors that archive and change *)
(* the cases that are asked for.  A reference is looked up in two steps    *)
(* and the case is then read from the archive in one.                      *)
(*                                                                         *)
(* Texts that are carried along unchanged are left out; `lesbar` stands    *)
(* for the fields of a record that must be there and be readable.  Whether *)
(* the supervisor gives up is the subject of Prosess.                      *)
(***************************************************************************)
EXTENDS Naturals, Sequences, FiniteSets, FiniteSetsExt

CONSTANTS
    Replikaer,
    Referanser, Saksnumre,
    Entiteter,       \* what the references may stand for to begin with
    Saker,           \* what a case may look like in the archive,
    Endringer,       \* and may become meanwhile
    Foresporsler,    \* what clients may ask
    Oppsett,         \* SKUFFEN_FAKE_SIKRI and APP_ENV
    MAKS_SVAR_BYTES, \* in records and documents
    Forlop,          \* bound: the instances, environments and archives that are
                     \* met with, and how many of which requests, changes and failures
    Nei, Feil

Ruter == {"sak.hent", "sak.med_journalposter", "journalpost.hent", "bruker.mt_enheter"}

\* A row of entitet: its type, and its number when it is archived.
Rad == [type : {"sak", "journalpost", "dokument"}, arkiv_id : Saksnumre \cup {Nei}]

ASSUME SporringAntagelse ==
    /\ Foresporsler \subseteq [rute : Ruter, nokkel : Referanser \cup Saksnumre,
                               svarsubjekt : BOOLEAN, gyldig : BOOLEAN]
    /\ Referanser \cap Saksnumre = {}
    /\ Entiteter \subseteq [Referanser -> Rad \cup {Nei}]
    /\ \A o \in Oppsett : o.bedt \in BOOLEAN
    /\ MAKS_SVAR_BYTES \in Nat
    /\ \A G \in Forlop :
         /\ G.instanser \subseteq Replikaer /\ G.oppsett \subseteq Oppsett
         /\ G.foresporsler \subseteq Foresporsler
         /\ G.arkiver \subseteq [Saksnumre -> Saker \cup {Nei}]
         /\ {G.antall, G.endringer, G.feil} \subseteq Nat

ErListe(l) == l \in Seq({l[n] : n \in DOMAIN l})

\* The archive (external): lists of records and of documents; the documents of a
\* record have numbers of their own.
ASSUME ArkivAntagelse ==
    /\ Endringer \subseteq Saker
    /\ \A x \in Saker :
         /\ ErListe(x.jp)
         /\ \A k \in DOMAIN x.jp :
              LET dok == x.jp[k].dok IN
              /\ ErListe(dok)
              /\ \A n \in DOMAIN dok : /\ x.jp[k].lesbar => dok[n].id # Nei
                                       /\ \A m \in DOMAIN dok \ {n} : dok[m].id # dok[n].id

\* Nothing is not a thing.
ASSUME NeiAntagelse == Nei \notin Saker \cup Rad \cup Saksnumre

VARIABLES
    forlop,      \* bound: the course the behaviour takes
    oppsett,     \* the environment the service was started in
    entitet,     \* entitet: by reference its type and arkiv_id, Nei without a row
    historie,    \* history: every state each case has had in the archive
    sendt,       \* the requests sent
    fra,         \* history: how far `historie` was when each was sent
    svar,        \* the answers each has been given
    tapt,        \* requests whose answer the transport or a teardown has lost
    lytter,      \* the subjects each instance subscribes to
    buffer,      \* messages delivered to a subscription and not yet taken
    b,           \* what each loop is doing
    endringer, sviktet

fast == <<forlop, oppsett>>
arkivet == <<entitet, historie>>
foresp == <<sendt, fra>>
sporringVars == <<fast, arkivet, foresp, svar, tapt, lytter, buffer, b, endringer, sviktet>>

Arkiv(s) == IF historie[s] = << >> THEN Nei ELSE historie[s][Len(historie[s])]
Arbeid(id, steg, nr, x) == [id |-> id, steg |-> steg, nr |-> nr, svar |-> x]
Ledig == Arbeid(0, "ledig", Nei, Nei)
F(i, r) == sendt[b[i][r].id]
Star(i, r, steg) == r \in lytter[i] /\ b[i][r].steg = steg
Videre(i, r, e) == b' = [b EXCEPT ![i][r] = e]

----------------------------------------------------------------------------
(* Start: bootstrap.rs                                                     *)

\* Mutant: an environment that is not set is a developer's.
FakeTillatt_Usatt(miljo) == miljo \in {"local", "dev", "test", Nei}
\* fake_adaptere_tillatt_for: only named environments.
FakeTillatt(miljo) == miljo \in {"local", "dev", "test"}

\* use_fake_sikri: asked for where it is not allowed, nothing starts.
Starter == oppsett.bedt => FakeTillatt(oppsett.miljo)
Falsk == oppsett.bedt

SporringTypeOK ==
    /\ forlop \in Forlop /\ oppsett \in forlop.oppsett
    /\ entitet \in [Referanser -> Rad \cup {Nei}] /\ historie \in [Saksnumre -> Seq(Saker)]
    /\ sendt \in Seq(Foresporsler) /\ Len(sendt) <= forlop.antall
    /\ fra \in Seq([Saksnumre -> Nat]) /\ Len(fra) = Len(sendt)
    /\ DOMAIN svar = DOMAIN sendt /\ tapt \subseteq DOMAIN sendt
    /\ lytter \in [Replikaer -> SUBSET Ruter]
    /\ buffer \in [Replikaer -> [Ruter -> Seq(DOMAIN sendt)]]
    /\ endringer \in 0..forlop.endringer /\ sviktet \in 0..forlop.feil
    /\ \A i \in Replikaer, r \in Ruter :
         /\ b[i][r].steg \in {"ledig", "entitet", "arkiv_id", "arkiv", "svar"}
         /\ b[i][r].steg # "ledig" => F(i, r).rute = r /\ F(i, r).gyldig
         /\ b[i][r].steg = "arkiv" => b[i][r].nr \in Saksnumre

SporringInit ==
    /\ forlop \in Forlop /\ oppsett \in forlop.oppsett
    /\ entitet \in Entiteter
    /\ \E a \in forlop.arkiver :
          historie = [s \in Saksnumre |-> IF a[s] = Nei THEN << >> ELSE <<a[s]>>]
    /\ sendt = << >> /\ fra = << >> /\ svar = << >> /\ tapt = {}
    /\ endringer = 0 /\ sviktet = 0
    /\ lytter = [i \in Replikaer |-> IF Starter /\ i \in forlop.instanser THEN Ruter ELSE {}]
    /\ buffer = [i \in Replikaer |-> [r \in Ruter |-> << >>]]
    /\ b = [i \in Replikaer |-> [r \in Ruter |-> Ledig]]

----------------------------------------------------------------------------
(* From the archive's form to the answer                                   *)

\* Mutant: what is not both is neither.
Tilgang_Apen(x) == IF x.kode # Nei /\ x.hjemmel # Nei THEN <<x.kode, x.hjemmel>> ELSE << >>

\* from_sikri_*_to_domain_tilgang: both or none, and neither of them blank.
Tilgang(x) ==
    IF x.kode = Nei /\ x.hjemmel = Nei THEN << >>
    ELSE IF {x.kode, x.hjemmel} \cap {Nei, "blank"} # {} THEN Feil
    ELSE <<x.kode, x.hjemmel>>

\* Marked as the main document, or the one that the record names.
Hoveddokumenter(j) ==
    {n \in DOMAIN j.dok : j.dok[n].merket \/ (j.hoveddok # Nei /\ j.dok[n].id = j.hoveddok)}

\* from_sikri_dokumenter_to_domain.
Dokumenter(j) ==
    IF j.dok = << >> /\ ~j.har_hoveddokument THEN << >>
    ELSE IF Cardinality(Hoveddokumenter(j)) # 1 THEN Feil
    ELSE LET h == CHOOSE n \in Hoveddokumenter(j) : TRUE
         IN [n \in DOMAIN j.dok |->
                j.dok[IF n = 1 THEN h ELSE IF n <= h THEN n - 1 ELSE n].id]

\* from_sikri_journalpost_to_domain_journalpost.
Journalpost(j) ==
    IF Feil \in {Tilgang(j), Dokumenter(j)} \/ ~j.lesbar THEN Feil
    ELSE [id |-> j.id, tilgang |-> Tilgang(j), dok |-> Dokumenter(j)]

\* from_sikri_sak_to_domain_sak and from_domain_sak_to_dto: one record that
\* cannot be read fails the whole case.
Sak(s, x, journalposter) ==
    LET jp == [n \in DOMAIN journalposter |-> Journalpost(journalposter[n])] IN
    IF Tilgang(x) = Feil \/ ~x.lesbar \/ (\E n \in DOMAIN jp : jp[n] = Feil) THEN Feil
    ELSE [nr |-> s, tilgang |-> Tilgang(x), jp |-> jp]

\* FakeSakRepository: a case that is nowhere.
FakeSak(s) == [nr |-> s, tilgang |-> << >>, jp |-> << >>]

Storrelse(x) == 1 + MapThenSumSet(LAMBDA n : 1 + Len(x.jp[n].dok), DOMAIN x.jp)

Ok(x) == [status |-> "ok", payload |-> x]
Error(message) == [status |-> "error", payload |-> message]

----------------------------------------------------------------------------
(* Clients, executors and the transport (external)                         *)

\* Mutant: subscriptions without a queue group.
Mottakere_Alle(r) == {{i \in Replikaer : r \in lytter[i]}}

\* queue_subscribe: one member of the group on a subject gets a message.
Mottakere(r) ==
    IF \A i \in Replikaer : r \notin lytter[i] THEN {{}}
    ELSE {{i} : i \in {j \in Replikaer : r \in lytter[j]}}

Send(f) ==
    /\ Starter /\ f \in forlop.foresporsler /\ Len(sendt) < forlop.antall
    /\ sendt' = Append(sendt, f) /\ fra' = Append(fra, [s \in Saksnumre |-> Len(historie[s])])
    /\ svar' = Append(svar, << >>)
    /\ \E M \in Mottakere(f.rute) :
        /\ buffer' = [i \in Replikaer |-> IF i \in M
                         THEN [buffer[i] EXCEPT ![f.rute] = Append(@, Len(sendt) + 1)]
                         ELSE buffer[i]]
        /\ tapt' = IF M = {} THEN tapt \cup {Len(sendt) + 1} ELSE tapt
    /\ UNCHANGED <<fast, arkivet, lytter, b, endringer, sviktet>>

\* The executor registers a case and records its number when it is archived;
\* cases are created and changed by others too.
Endre ==
    /\ endringer < forlop.endringer /\ endringer' = endringer + 1
    /\ \/ \E ref \in Referanser :
            /\ entitet[ref] = Nei
            /\ entitet' = [entitet EXCEPT ![ref] = [type |-> "sak", arkiv_id |-> Nei]]
            /\ UNCHANGED historie
       \/ \E ref \in Referanser, s \in Saksnumre :
            /\ entitet[ref] = [type |-> "sak", arkiv_id |-> Nei] /\ Arkiv(s) # Nei
            /\ \A annen \in Referanser : entitet[annen] # [type |-> "sak", arkiv_id |-> s]
            /\ entitet' = [entitet EXCEPT ![ref].arkiv_id = s]
            /\ UNCHANGED historie
       \/ \E s \in Saksnumre, x \in Endringer :
            /\ Arkiv(s) # x
            /\ historie' = [historie EXCEPT ![s] = Append(@, x)]
            /\ UNCHANGED entitet
    /\ UNCHANGED <<fast, foresp, svar, tapt, lytter, buffer, b, sviktet>>

----------------------------------------------------------------------------
(* NatsReplier                                                             *)

\* The end of handle_message: an answer that cannot be published is logged.
Publiser(id, x) ==
    \/ svar' = [svar EXCEPT ![id] = Append(@, x)] /\ UNCHANGED <<tapt, sviktet>>
    \/ /\ sviktet < forlop.feil /\ sviktet' = sviktet + 1
       /\ tapt' = tapt \cup {id} /\ UNCHANGED svar

\* Where a request starts: `sak.*` by number goes straight to the archive, the
\* other subjects have nothing behind them but the fake.
ForsteSteg(id, f) ==
    IF f.rute = "journalpost.hent"
    THEN Arbeid(id, "svar", Nei, IF Falsk THEN Ok(FakeSak(Nei)) ELSE Error("Internal error"))
    ELSE IF f.rute = "bruker.mt_enheter" THEN Arbeid(id, "svar", Nei, Error("Not implemented"))
    ELSE IF f.nokkel \in Saksnumre THEN Arbeid(id, "arkiv", f.nokkel, Nei)
    ELSE Arbeid(id, "entitet", Nei, Nei)

\* Mutant: a request that cannot be read is passed over.
Motta_Taus(i, r) ==
    /\ Star(i, r, "ledig") /\ buffer[i][r] # << >>
    /\ buffer' = [buffer EXCEPT ![i][r] = Tail(@)]
    /\ LET id == Head(buffer[i][r]) f == sendt[id] IN
       IF ~f.svarsubjekt \/ ~f.gyldig THEN UNCHANGED <<b, svar, tapt, sviktet>>
       ELSE Videre(i, r, ForsteSteg(id, f)) /\ UNCHANGED <<svar, tapt, sviktet>>
    /\ UNCHANGED <<fast, arkivet, foresp, lytter, endringer>>

\* sub.next, up to the use case's first wait.
Motta(i, r) ==
    /\ Star(i, r, "ledig") /\ buffer[i][r] # << >>
    /\ buffer' = [buffer EXCEPT ![i][r] = Tail(@)]
    /\ LET id == Head(buffer[i][r]) f == sendt[id] IN
       IF ~f.svarsubjekt THEN UNCHANGED <<b, svar, tapt, sviktet>>
       ELSE IF ~f.gyldig THEN Publiser(id, Error("Invalid request format")) /\ UNCHANGED b
       ELSE Videre(i, r, ForsteSteg(id, f)) /\ UNCHANGED <<svar, tapt, sviktet>>
    /\ UNCHANGED <<fast, arkivet, foresp, lytter, endringer>>

InternFeil(i, r) == Videre(i, r, Arbeid(b[i][r].id, "svar", Nei, Error("Internal error")))

\* lookup_sak_skuffen_id_fra_client_reference.
SlaaOppEntitet(i, r) ==
    /\ Star(i, r, "entitet")
    /\ LET e == entitet[F(i, r).nokkel] IN
       IF e = Nei \/ (e # Nei /\ e.type # "sak") THEN InternFeil(i, r)
       ELSE Videre(i, r, Arbeid(b[i][r].id, "arkiv_id", Nei, Nei))
    /\ UNCHANGED <<fast, arkivet, foresp, svar, tapt, lytter, buffer, endringer, sviktet>>

\* lookup_arkiv_id_fra_skuffen_id.
SlaaOppArkivId(i, r) ==
    /\ Star(i, r, "arkiv_id")
    /\ LET s == entitet[F(i, r).nokkel].arkiv_id IN
       IF s = Nei THEN InternFeil(i, r)
       ELSE Videre(i, r, Arbeid(b[i][r].id, "arkiv", s, Nei))
    /\ UNCHANGED <<fast, arkivet, foresp, svar, tapt, lytter, buffer, endringer, sviktet>>

\* The answer of the archive: records only when they are asked for.
Svaret(s, x, rute) ==
    IF Falsk THEN Ok(FakeSak(s))
    ELSE IF x = Nei THEN Error("Internal error")
    ELSE LET y == Sak(s, x, IF rute = "sak.med_journalposter" THEN x.jp ELSE << >>)
         IN IF y = Feil THEN Error("Internal error") ELSE Ok(y)

\* One call to the archive, and the conversion of what it answers.
LesArkiv(i, r) ==
    /\ Star(i, r, "arkiv")
    /\ Videre(i, r, Arbeid(b[i][r].id, "svar", Nei, Svaret(b[i][r].nr, Arkiv(b[i][r].nr), r)))
    /\ UNCHANGED <<fast, arkivet, foresp, svar, tapt, lytter, buffer, endringer, sviktet>>

\* A lookup or the archive fails, the latter within the client's time limit.
Svikter(i, r) ==
    /\ sviktet < forlop.feil /\ sviktet' = sviktet + 1
    /\ \E steg \in {"entitet", "arkiv_id", "arkiv"} : Star(i, r, steg)
    /\ InternFeil(i, r)
    /\ UNCHANGED <<fast, arkivet, foresp, svar, tapt, lytter, buffer, endringer>>

\* Mutant: the list is cut where the answer becomes too large.
Avgrens_Kuttet(x) ==
    IF x.status = "ok" /\ Storrelse(x.payload) > MAKS_SVAR_BYTES
    THEN [x EXCEPT !.payload.jp = SubSeq(@, 1, 1)] ELSE x

Avgrens(x) == IF x.status = "ok" /\ Storrelse(x.payload) > MAKS_SVAR_BYTES
              THEN Error("Response too large") ELSE x

Svar(i, r) ==
    /\ Star(i, r, "svar")
    /\ Publiser(b[i][r].id, Avgrens(b[i][r].svar))
    /\ b' = [b EXCEPT ![i][r] = Ledig]
    /\ UNCHANGED <<fast, arkivet, foresp, lytter, buffer, endringer>>

\* The requests of an instance that nobody has answered.
Underveis(i) ==
    (UNION {{buffer[i][r][n] : n \in DOMAIN buffer[i][r]} : r \in Ruter})
      \cup {b[i][r].id : r \in {q \in Ruter : b[i][q].steg # "ledig"}}

\* Mutant: join!, which waits for the other loops.
SubscriptionSlutter_Join(i, r) ==
    /\ r \in lytter[i] /\ sviktet < forlop.feil /\ sviktet' = sviktet + 1
    /\ lytter' = [lytter EXCEPT ![i] = @ \ {r}]
    /\ tapt' = tapt \cup {buffer[i][r][n] : n \in DOMAIN buffer[i][r]}
                    \cup (IF b[i][r].steg = "ledig" THEN {} ELSE {b[i][r].id})
    /\ buffer' = [buffer EXCEPT ![i][r] = << >>] /\ b' = [b EXCEPT ![i][r] = Ledig]
    /\ UNCHANGED <<fast, arkivet, foresp, svar, endringer>>

\* NatsReplier::run returns Err, and try_join! drops the other loops where
\* they stand.
SubscriptionSlutter(i, r) ==
    /\ r \in lytter[i] /\ sviktet < forlop.feil /\ sviktet' = sviktet + 1
    /\ lytter' = [lytter EXCEPT ![i] = {}]
    /\ tapt' = tapt \cup Underveis(i)
    /\ buffer' = [buffer EXCEPT ![i] = [q \in Ruter |-> << >>]]
    /\ b' = [b EXCEPT ![i] = [q \in Ruter |-> Ledig]]
    /\ UNCHANGED <<fast, arkivet, foresp, svar, endringer>>

\* The supervisor calls QueryListener::run again.
Run(i) ==
    /\ Starter /\ i \in forlop.instanser /\ lytter[i] = {}
    /\ lytter' = [lytter EXCEPT ![i] = Ruter]
    /\ UNCHANGED <<fast, arkivet, foresp, svar, tapt, buffer, b, endringer, sviktet>>

Behandle(i, r) == \/ Motta(i, r) \/ SlaaOppEntitet(i, r) \/ SlaaOppArkivId(i, r)
                  \/ LesArkiv(i, r) \/ Svar(i, r)

SporringNext ==
    \/ \E f \in Foresporsler : Send(f)
    \/ Endre
    \/ \E i \in Replikaer, r \in Ruter :
         Behandle(i, r) \/ Svikter(i, r) \/ SubscriptionSlutter(i, r)
    \/ \E i \in Replikaer : Run(i)

SporringSpec == SporringInit /\ [][SporringNext]_sporringVars

\* A loop takes what its subscription gives it, and the clients of the database
\* and of the archive have time limits; the supervisor starts what has ended.
Fairness == \A i \in Replikaer :
    /\ WF_sporringVars(Run(i))
    /\ \A r \in Ruter : WF_sporringVars(Behandle(i, r))
SporringFairSpec == SporringSpec /\ Fairness

----------------------------------------------------------------------------
(* Properties                                                              *)

OkSvar(id) == {x \in {svar[id][n] : n \in DOMAIN svar[id]} : x.status = "ok"}

\* A request is answered once, also while two revisions of the service listen
\* at the same time; and nobody answers one that cannot be answered.
EttSvar ==
    \A id \in DOMAIN svar : Len(svar[id]) <= (IF sendt[id].svarsubjekt THEN 1 ELSE 0)

\* What the shielding of x in the archive is, when it is shown as y.
Vises(x, y) == IF y = << >> THEN x.kode = Nei /\ x.hjemmel = Nei
               ELSE y = <<x.kode, x.hjemmel>> /\ {x.kode, x.hjemmel} \cap {Nei, "blank"} = {}

\* What an answer says of a record is what the archive holds: no document is
\* left out or there twice, and the first is the only main one.
GjengirJournalpost(y, j) ==
    /\ y.id = j.id /\ Len(y.dok) = Len(j.dok)
    /\ \A n \in DOMAIN j.dok : \E m \in DOMAIN y.dok : y.dok[m] = j.dok[n].id
    /\ \A m \in DOMAIN y.dok : \A n \in DOMAIN j.dok :
         y.dok[m] = j.dok[n].id =>
            ((m = 1) <=> (j.dok[n].merket \/ j.dok[n].id = j.hoveddok))

\* An answer that is ok is one state the case has had since it was asked for,
\* with every record when they are asked for, in the archive's order: no list
\* is cut, no record is passed over and no case is made up.
ErSaken(id, y, s, v) ==
    LET sak == historie[s][v] IN
    /\ y.nr = s /\ v >= fra[id][s]
    /\ sendt[id].nokkel \in Saksnumre => sendt[id].nokkel = s
    /\ sendt[id].nokkel \in Referanser => /\ entitet[sendt[id].nokkel] # Nei
                                          /\ entitet[sendt[id].nokkel].arkiv_id = s
    /\ IF sendt[id].rute = "sak.med_journalposter"
       THEN /\ Len(y.jp) = Len(sak.jp)
            /\ \A n \in DOMAIN y.jp : GjengirJournalpost(y.jp[n], sak.jp[n])
       ELSE y.jp = << >>

Gjengir(id, y) == \E s \in Saksnumre : \E v \in 1..Len(historie[s]) : ErSaken(id, y, s, v)

SvarGjengirArkivet ==
    \A id \in DOMAIN svar : \A x \in OkSvar(id) :
       oppsett.miljo \notin {"local", "dev", "test"} => Gjengir(id, x.payload)

\* Nothing that the archive shields, or half shields, is shown as open: neither
\* the case nor any of its records (SKU-0015).
Skjermet(y) ==
    \A s \in Saksnumre : y.nr = s =>
       \E v \in 1..Len(historie[s]) :
          /\ Vises(historie[s][v], y.tilgang)
          /\ \A n \in DOMAIN y.jp : Vises(historie[s][v].jp[n], y.jp[n].tilgang)

SkjermingVises == ~Falsk => \A id \in DOMAIN svar : \A x \in OkSvar(id) : Skjermet(x.payload)

\* Bound: how many requests any course has.
MaksAntall == Max({G.antall : G \in Forlop})

\* A request that someone has taken is answered, whatever it asks and whatever
\* the archive says, unless the transport fails or the loops are torn down.
FaarSvar ==
    \A id \in 1..MaksAntall :
       (id \in DOMAIN sendt /\ sendt[id].svarsubjekt) ~>
          (id \in tapt \/ (id \in DOMAIN svar /\ svar[id] # << >>))

\* One subscription that ends does not leave a subject without a listener.
LytterIgjen ==
    \A i \in Replikaer, r \in Ruter :
       (Starter /\ i \in forlop.instanser /\ r \notin lytter[i]) ~> r \in lytter[i]

\* A client gets one answer, and what it says is so: the archive's case, whole
\* and with its shielding.
SvarErSant == SporringTypeOK /\ EttSvar /\ SvarGjengirArkivet /\ SkjermingVises

\* Everyone who asks is served, now and after a subscription that ended.
AlleBetjenes == FaarSvar /\ LytterIgjen
=============================================================================
