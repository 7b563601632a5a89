# Skuffen in TLA+

Skuffen takes archive commands ("create a case", "create a journal entry with these
documents", "close the case") from clients over NATS and carries them out in the Sikri
archive, one archive call at a time, reporting on a status stream. The archive's writes are
not idempotent, so everything hard in this program is about the same question: what has been
done, who knows it, and what may be done next, when the process can stop between any two
steps, answers get lost, and operators and other commands work on the same case meanwhile.

This directory models the service from a client's request to the archive's answer and back: the
execution core (operation rows and facts in Postgres, the executor, its recovery, the writers
beside it), the message side in front of it, the leaders and the process around it, documents,
the archive client, the operator's routes and the queries. TLC checks all of it on small
instances; TLAPS proves the properties that matter most for every value of the constants. The
names in the modules are the source's Norwegian names. Paths below are relative to the
repository.

## 1. Inventory

### The course of a command

    client --NATS--> command_listener -> IngestCommandService --arkiv_command_inbox-->
      ValidateCommandService --arkiv_command_ready--> DekomponerCommandService --Postgres-->
      OperasjonWorker / EksekverOperasjonService --HTTP--> Sikri
                                       \--arkiv_status--> client
    operator --NATS request--> retry / discard (forkast) / read

A command is registered by ingest (rows `command`, `entitet`, `command.sak_id`), validated,
and decomposed into *operations* (rows `operasjon`), one archive call each. From there on the
commands of a case only meet in the database: the executor picks the operation that is due,
judges it against the *facts* of its case (`sak_tilstand`, `journalpost_tilstand`,
`dokument_tilstand`, archive ids), and carries it out, waits, or gives up.

### Components

| Component (source) | State | Operations | Hard behaviour | Correct when |
|---|---|---|---|---|
| Operations, decisions, outcomes (`src/domain/src/eksekvering/`) | none: pure functions | `dekomponer`, `vurder`, `vurder_avslutt_sak`, `hent_command_outcome`'s fold, `vurder_operasjon` of the retry | the order of operations is not stored, it follows from judging each against the facts | the facts force the one legal order and never a circular wait |
| Executor (`application/.../eksekver_operasjon.rs`) | what it remembers of one operation | `run_next`: fetch, read facts, decide, `kjorer`, `sendt`, call, settle, publish | at-most-once over a non-idempotent archive; interruptions; stale snapshots | no effect made twice or forgotten; facts never ahead of the archive |
| Leadership and recovery (`operasjon_worker.rs`) | the Postgres advisory lock | take the lock, `gjenopprett_etter_restart`, `varsle_krever_avklaring`, the loop | recovery itself interrupted; lock lost under a living executor | one executor; nothing orphaned; every unresolved outcome told |
| Operation and fact tables (`postgres_operasjon_repository.rs`, `postgres_dekomponering.rs`, `postgres_fakta_repository.rs`, the migration) | the rows | `hent_neste_kjorbare`, `marker_*`, `fullfor_*`, `lagre_dekomponering` | unguarded UPDATEs; `ON CONFLICT` clauses; CHECK constraints | final rows stay final |
| Ingest (`ingest_command.rs`, `command_listener.rs`) | `command`, `entitet`, `command.sak_id` | register, link, publish to the inbox | redelivery, duplicate command ids, commit before publish | a received command is eventually ready or told as refused |
| Validation (`validate_command.rs`, `validation_listener.rs`) | reads the case | refuse or forward | redelivery of a command that has been completed | nothing done is told as refused |
| Decomposition service (`dekomponer_command.rs`, `dekomponering_listener.rs`) | plan, uploads | plan, store, publish `Utfoeres` | rows committed, publish failing | decomposed once, in whatever order commands arrive |
| Operator's retry (`admin_retry_service.rs`, `gjenopptak.rs`, `postgres_admin_retry_repository.rs`) | none | plan, release rows, revalidate, republish | planned from an earlier read, beside the executor | never reopens what may have been done |
| Operator's discard (`admin_forkast_service.rs` and its repository) | `forkastet_at` | discard | an operation of the command under way | completed commands stay; the executor's outcome is recorded |
| Admin listener and read (`admin_listener.rs`, `admin_read_service.rs`) | five subscriptions | one request at a time per route; reads of several queries | the work goes on between two queries; a subscription that ends | a read is one moment; every route listens again |
| Archive gateway and Sikri client (`sikri_arkiv_gateway.rs`, `crates/sikri_client`) | none | one HTTP call per operation, errors mapped to recoverable or not | timeout, lost or unparsable answer after the effect | an answer says what happened |
| Status stream (`nats_status_publisher.rs`) | JetStream `arkiv_status` | publish operation and command events | commit before publish | what was said is true; what is true gets said |
| Task supervisor (`infrastructure/src/nats/supervisor.rs`) | restart counts, shutdown flag | restart, stop the process | budget against window; shutdown during restart | a failing task never goes unnoticed |
| JetStream setup and acks | stream and consumer configuration | create, ack, nak, term | ack wait against handler time | no message lost |
| Rendering and document store (`html2pdf_renderer_adapter.rs`, `media_render_operasjon.rs`, `media.rs`) | object store | render, upload, fetch | a rendered file without its commit | a document is rendered before it is sent |
| Wire mapping and the plan (`wire_mapper.rs`, `dekomponer_command.rs`, `sikri_arkiv_gateway.rs`) | none: the same command in five forms | wire form, application form, message, rows, archive DTO | no place sees two of the forms; references shared by requests | what reaches the archive is what was asked for |
| Query side (`query/`, `sikri_reader`) | subscriptions | look up, read, convert, answer | two revisions at once; the archive changes meanwhile | an answer is one state of the archive, and shielding shows |
| Health (`helse.rs`) | flags set by tasks, NATS, migrations | `er_klar` | true before anything is registered | ready means at work |
| Telemetry; `crates/adr-fmt` | none | observation; a documentation tool | none of its own | not modelled |

`PROJECT.json` has the same list with a status for each, and under `hazards` every point
where the interleaving, crash or ordering problems above bite, by line.

### How the components interact

* Ingest, decomposition, operators and the executor share **only the database**; no component
  calls another across that line. Every interaction is therefore a committed transaction seen
  by a later read.
* The executor's one turn reads in three or four separate queries (the operation, the facts,
  the siblings, the undecomposed commands) and writes in three or four separate transactions
  (`kjorer`, `sendt`, the outcome, then the event outside any transaction). Between any two of
  them other writers act, and the process can stop.
* The archive is called between `sendt` and the outcome. It also changes on its own: a robot
  dispatches and journalises outgoing entries, which the executor finds by polling.

## 2. Plan, and how far it has come

Written, most important first:

| Module | Part | Composes with |
|---|---|---|
| `Operasjoner` | the pure domain | |
| `Eksekvering` | rows, facts, executor, recovery, writers beside it, archive and stream | extends `Operasjoner` |
| `Virkninger` | abstract: what execution promises of an effect | implemented by `Eksekvering` (`INSTANCE ... WITH`) |
| `EksekveringPaastander` | a claim of the repository that does not hold | extends `Eksekvering` |
| `Mottak` | ingest, inbox, validation, ready stream, decomposition, revalidation | its last step is `Eksekvering`'s `LagreDekomponering` |
| `Lederskap` | several instances and the advisory lock | justifies the one leader of `Eksekvering` |
| `Forfallsklokke` | `neste_forsok_at`, the queue, wake-ups, the 24-hour warning | discharges the strong fairness of `Hent` |
| `Prosess` | start, supervision, readiness, shutdown of one process | justifies the fairness the others assume |
| `Dokumentflyt` | uploads, references, rendering, sending | |
| `Arkivkall` | mapping, credentials, classification of answers, the fake | says what `KallAvvises` and `SvarTapt` of `Eksekvering` come from |
| `Adminflate` | the five operator's routes | `Frigi` and `Forkast` of `Eksekvering` seen from the request |
| `Materialisering` | a command's five forms | the data that `Mottak` and `Eksekvering` abstract |
| `Sporring` | the four query subjects | |

Each has an `MC` module with its instances, and the proof modules are `EksekveringBevis`,
`MottakBevis`, `InstansBevis` (of `Lederskap` and `Sporring`), `DriftBevis` (of `Prosess` and
`Forfallsklokke`), `DokumentBevis`, `ArkivkallBevis`, `AdminBevis` and `MaterialiseringBevis`.

Left for later: `Mottak` shown to implement the
`Motta` and `LagreDekomponering` writers of `Eksekvering`; the requests that outlive their executor
(a write or a call of an aborted instance that arrives after the next leader has begun); the wire
format of the events.

## 3. Modules and how they correspond to the code

**`Operasjoner`** (constants `Kommandoer`, `Payload`). An operation is a record
`[kommando, type, entitet]`, a command's operations are a set, since they are inserted together
and share `created_at`. `Dekomponer` is `dekomponer`; `Vurder*` are the functions under `vurder`
with the same early returns in the same order; the reasons they give are left out, the four kinds
of decision (`utfor`, `allerede_utfort`, `blokkert`, `ugyldig`) kept. `Fold` is
`hent_command_outcome`, `SakSperrerGjenopptak` and `GjenopptattStatus` are the retry's rules in
`gjenopptak.rs`. No recursion, so that theorems can be stated over it.

**`Eksekvering`**. One action is one transaction, one archive call or one message.

| Variables | Code |
|---|---|
| `mottatt`, `dekomponert`, `forkastet` | row of `command` with its `sak_id`, `dekomponert_at`, `forkastet_at` |
| `status`, `apneForsok`, `varslet` | `operasjon.status`, open rows of `operasjon_forsok`, `avklaring_varslet_at` |
| `sak`, `jp`, `dok` | the facts, with `entitet.arkiv_id` as a flag |
| `lease` | holder of the advisory lock |
| `virkning`, `tapte`, `arkivJp`, `arkivAnsvarlig` | external: effects made in the archive, per operation; those whose answer was lost; the entry's status and the case's officer there |
| `opStatus`, `kmdStatus` | the last event a client has seen, per operation and command |
| `pc`, `minne`, `avbrudd` | where an executor is, and what it carries from one step to the next |

| Actions | Code |
|---|---|
| `Motta`, `LagreDekomponering` | ingest's commit with `knytt_sak`; `lagre_dekomponering` with `skriv_sak` and `skriv_dokument` |
| `Frigi`, `Forkast` | the operator's release and discard transactions, for any set of commands |
| `TaLederskap`, `Gjenopprett`, `HentUvarslet`, `VarsleOperasjon`, `VarsleKommando`, `MarkerVarslet`, `StartArbeid` | `OperasjonWorker::run` before its loop, one action per transaction or message |
| `Hent`, `LesFakta`, `LesSosken`, `LesUdekomponerte` | the reads of `run_next` and `beslutt`, separately |
| `MarkerBlokkert`, `FullforAlleredeUtfort`, `MarkerUgyldig`, `MarkerKjorer`, `MarkerSendt` | the branches of `run_next` and the start of `utfor` |
| `KallLykkes`, `Render`, `Poll`, `ManglerAttributter`, `KallAvvises`, `KallFeilerForVirkning`, `SvarTapt` | `arkivkall` and the ways a call ends |
| `FullforOk`, `FullforPoll`, `MarkerRetry`, `MarkerFeilet` | how `utfor` settles the answer, with facts, in one transaction |
| `PubliserOperasjon`, `LesUtfall`, `PubliserKommando` | `publiser` and `publiser_command_outcome` |
| `Avbryt` | crash, aborted task or a returned error, anywhere; the lock goes with the connection |
| `Rpa` | external: the archive's robot |

What is abstracted. Time: an operation waiting in `klar`, `retry_venter` or `blokkert` may be
picked at any moment, its `neste_forsok_at` having passed; so the model allows every order of
picking the code allows, and more. Document contents: present, a template, or a template with
fields. A command makes one journal entry, as its payload does. The reasons of decisions, error
codes and log lines are left out. Reading the fold and publishing it are one step in
`VarsleKommando`, since a fold of `krever_avklaring` can change only to `feilet`.

What is assumed of the world. The effect of an interrupted call has happened by the time of the
interruption or never: a request still travelling when the next leader starts is not modelled.
The lock is lost only with its holder here (`Lederskap` is where it is not). Nobody edits the
tables by hand: a person who resolves `krever_avklaring` in the database acts outside the code.

**`Virkninger`** has one variable, what may be said of each operation's effect (`venter`, `spurt`,
`virket`, `ferdig`, `avvist`, `uavklart`, `tapt`), and the eleven ways it can go. No executors,
rows or crashes. `Eksekvering!Abstrakt` is its instance with `utfall` read off the row and the
archive (`Utfallet`), and `Eksekvering!Loefte` is the abstract specification as a property of the
detailed one: between `marker_sendt` and the recorded outcome a crash may come anywhere, and what
follows is still one of the eleven.

**`Mottak`**. A handler (ingest of a request, validation or decomposition of a delivered message,
an operator's revalidation) is a record with the step it is at; one action is one call of the
handler to Postgres or NATS, so anything may come between two calls.

| Actions | Code |
|---|---|
| `Send`, `Registrer`, `RegistrerEntiteter`, `KnyttSak`, `Dispatch`, `MarkerDispatchet`, `PubliserMottatt`, `IngestFeiler` | `command_listener.rs`, `IngestCommandService::process_command`, and the answer to the batch |
| `HentInnboks`, `Valider`, `SendKlar`, `PubliserValidering`, `KvitterInnboks`, `ValideringFeiler` | `validation_listener.rs`, `ValidateCommandService::handle`, ack and nak |
| `HentKlar`, `Plan`, `Lagre`, `PubliserDekomponering`, `KvitterKlar`, `DekomponeringFeiler` | `dekomponering_listener.rs`, `DekomponerCommandService::handle` |
| `Revalider`, `Forkast` | the operator's retry of a command without operations; the discard |
| `VinduUtlop`, `Fullfor` | external: JetStream forgets a message id; the executor |

Messages are copies `<<command, n>>`, delivered to anyone until acknowledged, also while another
handler works on them. Local field checks are one flag of the payload.

**`Lederskap`**. `laas` is the session that holds the advisory lock, `steg` and `i_hand` where each
instance is; rows are written without naming the executor or the expected status, as in the
code. `TapSesjon` drops the session of a living executor.

**`Forfallsklokke`**. `foer` is the order of the waiting rows by `neste_forsok_at`, as pairs, and
`forfalte` the rows that are due, the first ones of it: only the order of the times matters to who is
served. "Now" is the end of the due part (`TilNaa`), "later" any place after it (`TilSenere`). The
ladder of backoffs is kept in minutes.

**`Prosess`**. `fase` is `lib.rs` from the port to the exit, `task`, `forsok` the supervisor
(`supervisor.rs`), `meldt`, `oppe`, `nats`, `migrert` the readiness aggregate (`helse.rs`).
Lengths of time are left out: a run ends before or after the stable window.

**`Dokumentflyt`**. `lager` is the object store, `opplasting` each upload session between its two
looks and its write (`UploadStore::store`), `hand`, `steg`, `mal` the executor in
`MediaRenderOperasjon::render`. Content is a record with the way it writes the token, which is
all that `html_template.rs` looks at. `delt`, `mottatt` are history.

**`Arkivkall`**. `ERROR_RULES` and `classify_http_error` over answers whose text is the set of
phrases some rule looks for, together with the echo of what was sent (`Ekko`); the codes told to
clients as a table searched in the same way (`KODER`); the mapping with its refusals, shielding and
credentials; the fake gateway with its failure modes. What our own side ends before anything is sent
comes in the order of `map_journalpost`: the document (a template that was never rendered, a file the
store does not have), the correspondents, the shielding; then a case's title (`EgenFeil`). The store
may also fail for the moment (`MediaFeiler`). The fake looks at none of them. The errors the executor
gives itself before it calls the gateway (`intern_sak_attributter_mangler` and its like) are
`ManglerAttributter` of `Eksekvering`.

**`Adminflate`**. Each route's loop is a record `b[r]` with the commands it has chosen, what it has
read and planned of each, the ones it has still to send to validation (`igjen`) and what it has
done; the work on the same case, a discard or the loss of the subscription come between any two of
its queries. Commands are gone through in the order of `Kommandoer`, as the code does after its
sort.

**`Materialisering`**. The wire form, the application form, the message on each stream, the plan,
the rows and the message to the archive, each conversion a function of what it decides from.
`ErForespurt` is what a request may be: it assumes that a journal entry has at least one document
(the listener refuses others) and an incoming one a sender (its type says so), that requests name a
case by the same number, and that the case number is there; more than 65,536 documents in an entry
are left out. Decomposition is rolled back when a document's place in a record is taken by another
(`Kolliderer`, the unique key of `dokument_tilstand`); the message then comes again, with the same end.

**`Sporring`**. The four subjects, each a loop per instance; a reference is looked up in two
steps and the case read in one; `historie` keeps every state of a case, for the property to
compare with, and `fra` how far each case had come when a request was sent. `Saker` is what a case
may look like in the archive. `lesbar` stands for the fields of a record that must be there and be readable;
sizes are counted in records and documents. The supervisor that gives up is in `Prosess`.

The **`MC...`** modules define the payloads of the instances; **`EksekveringPaastander`** a claim
of the decision records that the execution core does not keep, whose run ends in a counterexample.

Definitions named `X_Something` above a definition `X` are plausible bugs in `X`, used to see that
a property can fail; no specification uses them.

## 4. What the runs check

Most instances are unions of *courses* (`Forlop`): a course says which commands, requests or
calls come beside each other and how many mishaps may come between them, and one run checks all
the courses of its module. `PROJECT.json` says of each run what it shows.

| Run | Instance | Properties |
|---|---|---|
| `eksekvering` | nine courses, two executors: case created and incoming entry with attachment (an interruption with a lost answer, or a discard); outgoing entry rendered, dispatched and polled (an interruption); a note that fails for good (an interruption), with a closing (a discard); a creation and two officers (a lost answer); a creation and a closing (an interruption), two creations and a closing (a discard), two creations (an interruption) | `TypeOK`, `HoystEnVirkning`, `KomplettForStatusovergang`, `FaktaHarDekning`, `SisteAnsvarligGjelder`, `AvslutterEtterSosken`, `StromErSann`, `FerdigErEndelig`, `Loefte` |
| `fremdrift` | two courses, one executor, fair: creation, entry, closing without interruptions; one command with three interruptions and a discard | `Fremdrift`, `FullfortMeldes`, `UavklartMeldes` |
| `udekomponert_sosken` | ends in a counterexample, see below | `AvsluttSakVenterPaaAlle` |
| `mottak` | six courses, fair: a batch sent twice; a creation sent twice, with an operator or a mishap; a case and its entry in separate requests; one reference for an entry and a case; a refused command | `IngenTapes`, `OkErSann`, `AvgjortStaar` (`TypeOK`, `KlarHarEntitet`, `FeiletStaar`, `ForkastetErEndelig`), `KommerVidere` |
| `lederskap` | two instances: deployment, two errors or crashes, one session lost; fair | `EnOmGangen` (`TypeOK`, `EnAktivExecutor`, `HoystEnVirkningIAlt`, `OkErVirket`), `UavklartBareEtterAvbrudd`, `Overtakelse` |
| `klokke` | five courses, fair: two closings and a sibling with a crash and an operator; the ladder; an old row; rows behind each other; rows on two cases | `VarselStemmer` (`TypeOK`, `EttVarsel`), `IngenSniker`, `TidenSettesRett` (`LukkesStraks`, `TrappenStiger`), `IngenVenterForEvig` (`ForfaltBlirTatt`, `VranglaasLoesnes`) |
| `prosess` | a task that watches the token and one that does not, five failures or panics; fair | `TilsynStemmer` (`ProsessTypeOK`, `KlarUnderDrift`, `BudsjettErRullende`), `IngenHalvdod` (`FriskEllerDod`, `NedstengingErNormal`) |
| `dokument` | two sessions under one id, one under another, a template and a file, two failures; fair | `DokumentetStaar` (`TypeOK`, `OkErLagret`, `GjentattErIkkeKonflikt`, `ArkivertErMottatt`, `FelterPasser`), `MottattBlirAvgjort` |
| `arkivkall` | fourteen calls, each alone and two pairs, among them one whose title has the words of a refusal, one with a missing file and one with a template that was never rendered; every mode of the fake, two passing failures; fair | `FeilErRiktig` (`TypeOK`, `TerminalErAvvist`, `TerminalKode`, `FakeErEkte`), `SkjermingBevares`, `KalletAvgjores` |
| `admin` | eight courses, fair: retries and discards that overlap beside the work; reads with the work between their queries; every refusal; a lost subscription | `SvaretErSant` (`TypeOK`, `AvvistErUrort`, `OkHarVirket`), `LesingErSann` (`LestErEttOyeblikk`, `FullfortErEndelig`), `UavklartSperrer`, `RutenLytterIgjen` |
| `materialisering` | every pair of commands of every type on one case, records that share references, requests with different documents for one place of a record, redelivered; fair | `ArkivertErSendt`, `EttNavn` (`TypeOK`, `KontekstStemmer`, `OriginalFinnes`), `OensketEndresEnGang`, `AltAvgjores` (`BlirArkivert`, `KommandoAvgjores`) |
| `sporring` | two courses, fair: every request against ten archives, most half shielded or unreadable, that may change; two requests, two instances, one failure | `SvarErSant` (`TypeOK`, `SvarGjengirArkivet`, `SkjermingVises`, `EttSvar`), `AlleBetjenes` (`FaarSvar`, `LytterIgjen`) |

Where properties of one module belong together they are checked as one conjunction; its parts are
named in brackets, and the text below speaks of the parts. `VirkningErSkrevet`, `IngenForeldrelose`
and `VarsletErMeldt` of the execution core are proved and in no run.

In words:

* **`HoystEnVirkning`** and **`VirkningErSkrevet`**: no interruption, recovery, new leader or
  operator's retry makes an effect twice, and the row of an operation with an effect is never one
  that would be picked or released. The exception is written into the property: an answer lost
  after the effect (`tapte`), which the code retries by decision.
* **`FaktaHarDekning`**: the facts never claim what the archive does not have. A fact that ran
  ahead would make `vurder` skip the operation as already done.
* **`KomplettForStatusovergang`**: an entry leaves "opprettet" only with all its documents in the
  archive, however attachments fail, are retried or stay unresolved.
* **`AvslutterEtterSosken`**: from the moment a closing is judged executable until it is
  settled, the siblings it was judged from are still done, although operators reopen operations
  meanwhile: it rests on `ok` being the one status no writer leaves.
* **`SisteAnsvarligGjelder`**: commands that set the officer share one wanted value, which may
  change between the snapshot and the call; the fact records what was sent and not what is
  wanted now, so the later command is not skipped, and the archive ends with the last wanted,
  unless an answer was lost on the way.
* **`StromErSann`**, **`VarsletErMeldt`**: "done" and "unresolved" on the stream are true of the
  database for ever, and the mark of a warning is never ahead of the warning.
* **`IngenForeldrelose`**: whatever is under way is in the leader's hands or will be found by
  recovery; open attempts are exactly those operations.
* **`FerdigErEndelig`**: an action property over all writers: done and unresolved are final, a
  failure is reopened only on a case without an unresolved outcome (SKU-0023).
* **`Fremdrift`**, **`UavklartMeldes`**, **`FullfortMeldes`**: a case always comes to rest with
  everything carried out or for a reason an operator can see; unresolved outcomes are always
  told; a completed command is told unless something interrupts (`avbrudd > 0`): a completed
  operation has no mark from which a lost event could be told again.
* **`Loefte`**: every step of the execution core is a step of `Virkninger` or a stutter.
* **`IngenTapes`**, **`OkErSann`**, **`KommerVidere`**: what ingest has marked as dispatched is on a
  stream until it is decided; "ok" is true of the whole batch, also when an earlier attempt stopped
  in the middle of it; and everything dispatched is decided if failures cease.
* **`KlarHarEntitet`**, **`FeiletStaar`**, **`ForkastetErEndelig`**: decomposition finds the entities it
  names (what `skuffen_id` claims in its error); its permanent failure and a discard stand against
  every later delivery or retry.
* **`EnAktivExecutor`**, **`HoystEnVirkningIAlt`**, **`UavklartBareEtterAvbrudd`**, **`Overtakelse`**,
  **`OkErVirket`**: with its sessions kept the database lets one instance work, nothing is done
  twice over all of them, an orderly handover leaves nothing unresolved and happens; without them
  a completed operation has still been to the archive.
* **`IngenSniker`**, **`ForfaltBlirTatt`**, **`LukkesStraks`**, **`VranglaasLoesnes`**,
  **`TrappenStiger`**, **`EttVarsel`**: nobody who is due is overtaken twice by the same operation;
  a closing with nothing left to wait for is due in that very step; two closings that wait for
  each other are freed by discarding one; the ladder never goes down.
* **`KlarUnderDrift`**, **`FriskEllerDod`**, **`BudsjettErRullende`**, **`NedstengingErNormal`**: the
  half-dead process, in which a task is gone and nobody knows, does not last.
* **`OkErLagret`**, **`GjentattErIkkeKonflikt`**, **`ArkivertErMottatt`**, **`FelterPasser`**,
  **`MottattBlirAvgjort`**: the store is used by many without a lock; where no two sessions overlap
  an "ok" stands, a repeated upload never meets itself as a conflict, and what is archived is what
  was referred to when the command came.
* **`TerminalErAvvist`**, **`TerminalKode`**, **`SkjermingBevares`**, **`FakeErEkte`**, **`KalletAvgjores`**:
  a call that is sent ends for good on a refusal (or a text of its own that reads like one) and
  nothing else; one that our own side cannot make is never sent, keeps its own code, and the client
  is told that what it asked for is wrong, or, for a document that could not be had, that processing
  failed; the fake fails as the archive does.
* **`AvvistErUrort`**, **`OkHarVirket`**, **`UavklartSperrer`**, **`LestErEttOyeblikk`**,
  **`FullfortErEndelig`**, **`RutenLytterIgjen`**: a refused request has changed nothing, an accepted
  one has released all it saw failed, one unresolved write on the case stops every release; a read
  is one moment although it takes several queries.
* **`ArkivertErSendt`**, **`KontekstStemmer`**, **`OriginalFinnes`**, **`OensketEndresEnGang`**: five
  changes of form neither lose, move nor mix anything, and what is written under one name is
  looked for under the same. `KontekstStemmer` and `BlirArkivert` speak of requests that use each
  reference once (`UliktNavngitt`); the others of all. **`KommandoAvgjores`**: every command is
  decomposed, unless another has put other documents at its places in the record (`Fortrengt`).
* **`SvarGjengirArkivet`**, **`SkjermingVises`**, **`EttSvar`**, **`FaarSvar`**, **`LytterIgjen`**: an answer is
  one state of the archive since the request, whole, with its shielding.

### Bounds

`Eksekvering`: `MaksVirkning` effects of one operation (2: enough to see a second one), and in each
course its commands, lost answers, discards and interruptions. One
interruption reaches every pair of adjacent steps, since `Avbryt` is enabled at each of them, and
is followed by a full recovery; a recovery that is itself interrupted needs two, and a warning
interrupted twice three, which `fremdrift` allows. A retry (`Frigi`) and the events it leads to
are not bounded at all, as the state they return to is one already seen. Two commands are the
least that interact through a case, three the least in which a third waits for both. Two executors
(interchangeable, hence `SYMMETRY`) show the lock; under fairness one is enough, because a stopped
one forgets everything and may be restarted. One case: the code never relates two cases, except
that a retry request over several is all or nothing, and that makes no state one case cannot reach.
The whole course of `fremdrift` has an entry with one document and no sending; rendering and
dispatch are in the safety course.

`Mottak`: a request sent twice and two messages of a command in a stream are the least with a
duplicate at each level; each mishap may hit any step, and two of them let a retry fail as well.
`Lederskap`: two instances are the least with a handover; three failures let both fail and one of
them again. `Forfallsklokke`: four operations on two cases, so that a sibling, a stranger and two
closings are in the queue together; the initial order is any. `Prosess`: a budget and one more
failure, for each kind of task. `Dokumentflyt`: two sessions under one id are what overlaps; a third
id shows that others are left alone. `Adminflate`: two requests at a time, from three routes.
`Materialisering`: two commands are what shares a reference; it has no bound of its own, since the
number of commands bounds it. `Sporring`: one request beside a change, and two requests on two
instances; a loop takes one at a time and keeps nothing between them.

All configurations say `CHECK_DEADLOCK FALSE`: the system may rightly stop, with everything
carried out or put before a human and no operator acting.

### Fairness

`LiveSpec` of `Eksekvering` assumes: an executor's own steps are taken (`WF` of `Fremover`; the loop
has no other wait than a database or archive call, and the supervisor restarts a worker that
returns); an operation that is due again and again is picked (`SF` of `Hent`; `Forfallsklokke`
shows it of the ordering by `neste_forsok_at`, `ForfaltBlirTatt` and `IngenSniker`); an operation that
is tried again and again is once answered (`SF` of `Besvares`: the archive is not down for ever);
the archive's robot does its work. Nothing is assumed of clients, decomposition or operators, and
the number of interruptions is bounded. Without the strong fairness of `Besvares` the code's
unlimited retries would be a counterexample of no interest.

Elsewhere weak fairness of the service's own steps is all there is: the handlers and deliveries
of `Mottak` (JetStream delivers an unacknowledged message again), an instance's loop in
`Lederskap`, the executor and the passing of time in `Forfallsklokke`, the main loop and the
supervisor in `Prosess`, the executor, a started upload and the creation of the case in
`Dokumentflyt`, a call's next step in `Arkivkall`, the loops and their restart in `Adminflate` and
`Sporring`, the next conversion in `Materialisering`. Failures, crashes, clients, operators and the
expiry of a dedup window owe nothing, and their number is bounded.

### Finding

**`udekomponert_sosken`** (`AvsluttSakVenterPaaAlle`) checks a claim of the decision records and
ends in a counterexample. `beslutt` reads the siblings, then the commands without operations, in
two queries; a command decomposed in between is in neither answer, and the case is judged ready
to close without it. Trace: `Hent` of the closing, `LesFakta`, `LesSosken`, `LagreDekomponering` of the
other command, `LesUdekomponerte`. The quotation is in `PROJECT.json`.

### What the properties leave out

Where the code does something a stronger property would forbid, the property says so in its own
condition or is not stated. The places, with the condition to take away to see each:

* A timeout, a broken connection or an unparsable 2xx is "recoverable" (`api.rs:79-112`, SKU-0016
  R6), so an effect whose answer was lost is made again: `tapte` in `HoystEnVirkning`. For the same
  reason the archive may have an officer the facts do not know of; if a third command then wants the
  recorded one back, it and the retry are judged already done and the archive keeps the second one:
  `tapte` in `SisteAnsvarligGjelder`.
* An interruption between `fullfor_ok` and its event: the completed command is never told
  (`eksekver_operasjon.rs:217`): `avbrudd > 0` in `FullfortMeldes`.
* The database ends the session that holds the lock, and two executors work
  (`postgres_operasjon_repository.rs:198`): `tap = 0` in three properties of `Lederskap`.
* `ON CONFLICT` in `skriv_sak` stores no attributes when another command on the case was decomposed
  before `OpprettSak`; the creation then fails for good (`postgres_dekomponering.rs:182`). And a second
  `OpprettSak` for a reference whose first creation is unresolved passes validation
  (`validate_command.rs:200`). `ManglerAttributter` and the course with `igjen` are in the model.
* Validation judges a redelivered message against what its command has done since, so a completed
  `OpprettSak` may be told as refused; and a case that is registered between ingest and validation
  gives a command without a link. Both are steps of `Mottak`.
* Two upload sessions that both look before either writes get ok for different contents
  (`media.rs:220`): `delt` in the properties of `Dokumentflyt`.
* The check of a template trims what is inside the braces, the substitution does not
  (`html_template.rs:100`), so `{{ saksnummer }}` is accepted and left as it is: `Utfylt`. `FelterPasser`
  is about names only, and no property says that what is accepted is filled in.
* The rules of `error_mapping.rs` search the whole answer, in which the archive repeats a title, so a
  passing failure of a call whose title has a refusal's words ends it for good: `LignerAvslag` in
  `TerminalErAvvist` (the call `omtalt`). A refusal that mentions identification or a bad gateway is
  told as trouble with the connection: the condition on `Sier` in `TerminalKode`. Missing content at
  400 has the code of a terminal failure and is tried again, and a title's 256 characters are counted
  in bytes (`elements_sak.rs:78`).
* A document that our own side does not have ends its operation for good although the archive has
  refused nothing (`sikri_arkiv_gateway.rs:342`, `368-371`), and the client is told `ProcessingFailed`
  and not what is wrong: the first branch of `TerminalErAvvist` and of `TerminalKode` (the calls
  `uferdig` and `borte`). A file is missing when the store has lost it since its reference was
  checked. The
  template is the gateway's last line: `vurder_legg_til_vedlegg` refuses one as attachment and
  `vurder_opprett_journalpost` waits for the rendering of a main document (`Operasjoner`), so of the
  gateway's own refusals it is the one the decision should never let come.
* A command that says a record has another document at a place where a decomposed one has put its own
  (the main one, an attachment, or the same in another order) is never decided: `skriv_dokument` passes
  over a conflict on `dokument_id` only (`postgres_dekomponering.rs:314`), so the unique key of journal
  entry and place (`dokument_tilstand_unik_rekkefolge`, migration `20260818120000`, line 182) rolls
  everything back, and without `max_deliver` the message comes again for ever: `Fortrengt` in
  `KommandoAvgjores`. Without that condition the run `materialisering` ends in such a course.
  `KommerVidere` is about `Mottak`, where documents have no places and this does not happen.
* An entry's reference used again with another main document: in general that is the collision above;
  but `skriv_journalpost` and `skriv_dokument` each keep the row that is
  there (`ON CONFLICT`), and with three requests that share references what is sent can have the
  attributes of one and the main document of another: `SammeHoved` in `ArkivertErSendt`. In the run's
  instance the main document goes with the reference.
* An empty list of recipients is read back as none; a case with a code no longer in use cannot be
  read. `Materialisering` and `Sporring` do both.
* `hent_varselkandidater` also finds unresolved and discarded operations
  (`postgres_operasjon_repository.rs:731`), and before any task is registered the readiness aggregate is
  over none (`bootstrap.rs:83`): `KlarUnderDrift` speaks of the time the process runs, and no property
  of the start.

## 5. What is proved

Each theorem holds for every value of the constants, from the named `ASSUME` of its module only
(payloads have the fields their wire types have, bounds are numbers, the null values are not
members of the sets they stand beside). TLC evaluates each of them in some passing run. The three
properties marked * say "as long as no session has been lost" (`tap = 0`) themselves.

| Module | Theorems (the property each is about) |
|---|---|
| `EksekveringBevis` | `Typekorrekthet` (`TypeOK`), `HoystEnVirkningHolder`, `VirkningErSkrevetHolder`, `IngenForeldreloseHolder`, `FerdigErEndeligHolder`; `StromErSannHolder`, `VarsletErMeldtHolder`; `LoefteHolder`: `Eksekvering` implements `Virkninger`; `FaktaHarDekningHolder`, `KomplettForStatusovergangHolder`, `AvslutterEtterSoskenHolder`, `SisteAnsvarligGjelderHolder` |
| `MottakBevis` | `MottakTyper`, `IngenTapesHolder`, `OkErSannHolder`, `ForkastetErEndeligHolder`, `KlarHarEntitetHolder`, `FeiletStaarHolder`; together `AvgjortStaarHolder` |
| `InstansBevis` | `LederskapTyper`, `OkErVirketHolder`, `EnAktivExecutorHolder`\*, `HoystEnVirkningIAltHolder`\*, `UavklartBareEtterAvbruddHolder`\*; together `EnOmGangenHolder`; `SvarErSantHolder` |
| `DriftBevis` | `ProsessTyper`, `KlarUnderDriftHolder`, `BudsjettErRullendeHolder`; together `TilsynStemmerHolder`; `VarselStemmerHolder`, `IngenSnikerHolder`, `TidenSettesRettHolder` |
| `DokumentBevis` | `DokumentTyper`, `OkErLagretHolder`, `GjentattErIkkeKonfliktHolder`, `ArkivertErMottattHolder`, `FelterPasserHolder`; together `DokumentetStaarHolder` |
| `ArkivkallBevis` | `FeilErRiktigHolder`, `SkjermingBevaresHolder` |
| `AdminBevis` | `SvaretErSantHolder`, `LesingErSannHolder`, `UavklartSperrerHolder` |
| `MaterialiseringBevis` | `TryggHolder`, `ArkivertErSendtHolder`, `OensketEndresEnGangHolder`, `EttNavnHolder` |

The assumptions that say more than types: two journal entries share no document and no reference
(`PayloadAntagelse`, `DokumentAntagelse`: references are minted per request, and what happens when a
client reuses one is the subject of `Materialisering`); operations belong to one command
(`AdminflateAntagelse`); requests name a case by the same number (`MaterialiseringAntagelse`); the
archive's documents of one record have numbers of their own, and a record that can be read has them
all (`ArkivAntagelse`); a client reference is no case number (`SporringAntagelse`); no row, no code and
no case is the null value (`RadAntagelse`, `NeiAntagelse`).

**Execution core.** The argument has layers, each an inductive invariant relative to the one before.

* **`TypeInv`** is `TypeOK` with `MinneOK`: at each place in its turn the executor remembers what
  the place needs (an operation of the database from `hentet` on, a decision that fits at
  `besluttet`, an answer at `svar`). Without it "the operation in hand" has no meaning.
* **`Trygg`** is the safety argument. None of the three properties is inductive alone: that a
  call makes at most one effect needs the row to be `sendt` with no earlier effect, which needs
  the executor's place and the row to agree (`Fase`), which needs that nobody else writes the row,
  hence that one executor works at a time (`EnLeder`). `UtenVirkning` carries "not yet" from
  `sendt` to the call and past a refusal. Then: before `sendt` the effect is absent by
  `VirkningErSkrevet`; after it, recovery turns `sendt` into `krever_avklaring`, which no writer
  leaves (`FerdigErEndelig`). `RadTilOperasjon` also shows that the table's CHECK, which refuses a
  non-terminal status over a terminal one, never fires under an executor.
* **`Strom`** adds **`Budskap`**: what an executor is about to say is already committed and cannot
  be taken back. The event is published in a later step than the outcome was read in, and the
  proof is that `ok` and `krever_avklaring` are final and a fold of `fullfort` is stable, the rows
  of a command being complete from the moment it is decomposed.
* **The refinement** needs no invariant of its own: with `VirkningErSkrevet` the abstract outcome
  can be read off the row, and `Fase` and `UtenVirkning` make each write of a row one of the
  abstract ways or a stutter. A recovery or a release moves several operations in one step, and so
  does the abstract next-state relation.
* **`SoskenSett`** is what carries a closing: what was read as done is done, since no writer leaves
  `ok`, and a closing is only carried out when every other sibling was read so.
* **`Dekning`** is about the facts. The facts lag behind the archive and the executor decides from a
  snapshot of the facts, so the proof follows a decision to its commit: `Grunnlag` says that what
  the decision rests on (how far the entry has come, that its documents are in the archive) stands
  until the outcome is settled, for only the executor writes the entry and its documents and there
  is one of it; `SvarSant` says that what an answer claims of the entry is so, or the robot has gone
  on. The attachments of an entry are counted by what is in the archive, not by their rows: an
  attachment that failed is not there, and the status change is not made.
* **`Ansvar`** is the one argument that cannot say "nobody else writes": a decomposition may change
  the wanted officer while the executor works. Instead there is always a row to blame: a wanted
  officer that is not recorded has a row that is not done (`SakAnsvar`), and if the wanted one has
  changed since the snapshot, that row is another one than the one in hand (`HandAnsvar`). When all
  rows are done there is none left to blame.

**Message side.** `IngenTapes` speaks of streams and rows; what carries it is what every handler
knows between two of its steps: `Vinduer` (an id in the dedup window has a message in the stream,
so a dropped duplicate is not a lost one), `InnboksGaarVidere` and `KlarGaarVidere` (an
acknowledged message has been passed on, or its command is decided), `ValKjent` and `DekKjent`
(a handler about to acknowledge has done so), `RadPaaInnboks`. `OkErSann` needs `Kvittert`: a
request under way has marked every command before the present one. `KlarHarEntitet` needs that
entities are registered before the inbox is written and that an entity is never taken away or
changed; `FeiletStaar` follows because a plan refused for its entities is refused for ever
(`Planlagt`).

**Leadership.** `EnAktivExecutor` says nothing of the lock and is not inductive; `Eier` says that a
working instance holds it, `RadStemmer` that the row says where the instance is, `Urort` that what may be
picked has no effect, `SendtForklart` that a `sendt` row is somebody's or interrupted. `OkErVirket`
needs none of them, only that an answer remembers its effect.

**Process.** `Telling`: `forsok`, which a long run sets to one and not to zero, is at most one ahead
of the short runs since. `Meldinger`: readiness was told of every task before the process runs,
and of none earlier.

**The queue.** That nobody is passed twice is a statement about the whole past, so `forbi` remembers
who was taken while an operation was due, and `Forbigaatt` says where they are now: behind it. A row
that is taken leaves the due part or is put at its end, and so is every row that a wake-up, a release
or a recovery makes due (`TilNaaOrdner`, `TilSenereOrdner`: both keep the order of all the others).
An operation whose own row is moved starts to wait anew, and a stop clears the account. `Trappet`
ties the last wait of an operation to an attempt before the one under way; the ladder being
increasing (`Stigende`) and no writer lowering `attempt_no`, no wait is shorter than the one before.
`Fortalt` charges each extra warning to a stop between the event and its mark.

**Documents.** `Okter`: between its look and its write a session finds its id empty or its own, or
somebody overlapped it. Hence what is stored stays, except where sessions overlapped
(`LagtStaar`), which is what lets the executor read the store again at every attempt. `Opphav`: what
is under an id was uploaded under it. `Navngitt` and `Underveis` carry a document from the check of
its reference through rendering to the archive.

**Archive calls.** The first rule that fits decides, in a table whose order matters, so the lemmas are
about the tables: a smallest matching index exists (`ForsteRegel`, `ForsteKode`), passing trouble fits
no rule of a refusal before one of its own (`ForbigaaendeVarig`), and an answer that is final has a
final code (`KodeVarig`) unless it mentions what comes earlier in the code table. The invariant then
only follows a call: whatever has failed after it was sent was refused, or says so itself, and what our
own side ended has its own code and has never been sent (`Forklart`, `Begrunnet`); what was sent was
shielded as told (`SomMeldt`).

**The operator's side.** A loop keeps what it read while the rows go on. `Sant` says of each loop, at
each place of its request, how what it keeps relates to the rows now; `Framgang` says all that the
rest of the system can do to the rows meanwhile (done stays done, no row is taken away, a failed one
is released by a release only), and every other actor's step is shown to be one once, instead of once
for each loop. `PlanGjelder` and `Skyldig` carry a release from its plan to its answer; `Bevart` makes
a read of four queries one moment: a snapshot is behind the rows, never beside them.

**Queries.** What clients have been told says nothing of requests on their way. `Plass`: such a
request is with one loop of one instance, buffered or in hand, and has no answer; the answer takes it
away from there, so there is one at most. `Sporet`: what its loop knows at each place (that the
reference has a row, that it stands for the number, that the composed answer is right). An answer is
composed in one step from one state of the case (`SvaretRiktig`), where the refusals are what makes it
whole: nothing is shown unless both fields of the access are there or neither, one main document is
found, and every record can be read (`SakGjengir`, `DokumenterGjengir`). What was right stays right
because no step takes anything back (`Verden`): a case keeps the states it has had, and a reference
that has a number keeps it.

**Five forms.** `Trygg` of `MaterialiseringBevis` says of each form where it came from: a message is
the wire form of its request, a row is the plan of one request that has been decomposed. What a row
gets from one request and its main document from another is where mixing could happen;
`Fullstendig` and `Hoveddokument` exclude it under `SammeHoved`. That late events list the documents
in the order of the request is a fact about numbers: an increasing numbering of 1..n by 1..n is the
identity (`Voksende`), proved from well-foundedness without induction over data.

The parts of each invariant were checked with TLC before they were proved. Trying to prove them
showed three of the properties to be wrong as first stated, and TLC then the counterexamples, in
instances that had been too small: the exceptions for a lost answer in `SisteAnsvarligGjelder`, for a
text that reads like a refusal in `TerminalErAvvist`, and for three requests that share references in
`ArkivertErSendt` are under "What the properties leave out".

Only model-checked: all liveness properties, which TLAPS cannot
prove here (fairness, `ENABLED`). Induction over data
and `RECURSIVE` operators are out of the prover's reach as well; the modules with theorems need
neither.

## 6. Not modelled

* `crates/adr-fmt` is a documentation tool and no part of the running service.
* Telemetry observes and decides nothing. Of health, the readiness aggregate and all that sets its
  flags is in `Prosess`; the HTTP endpoint that reads it is not.
* The format of the events on the status stream. Which event is said when, and the tokens of the
  inbox subjects, are modelled; log texts, wording and layout are left out everywhere.
* Lengths of time (backoff, grace, ack wait, dedup window, the 180 days of a stream): a wait ends at
  any point, or an action lets it expire. Only the order of due times and the rungs of the ladder
  are kept.
* The limit a NATS server puts on a message, which is the deployment's; the limit the query side
  itself keeps is in `Sporring`.
* Statements and calls of an aborted executor that reach the database or the archive after the next
  leader has begun.
* The NATS library's chunked upload protocol, the HTTP client, the renderer and the archive are
  external: modelled by the answers the code distinguishes.
* The manual test program under `integration-tests/`.

## 7. Running

    tlasany M.tla                                   # parse
    tlc -workers 2 -config eksekvering.cfg MCEksekvering
    tlapm EksekveringBevis.tla                      # some five minutes; the others take one or two

The largest runs (`eksekvering`, `fremdrift`, `klokke`) take two to three minutes with two workers. The `runs` of `PROJECT.json` pair configurations and modules.
