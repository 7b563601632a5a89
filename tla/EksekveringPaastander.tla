------------------------ MODULE EksekveringPaastander ------------------------
(***************************************************************************)
(* What the repository's decision records say of the closing of a case and *)
(* the code does not keep, checked by a run of its own that ends in a      *)
(* counterexample; the README tells what to read from it.                  *)
(***************************************************************************)
EXTENDS Eksekvering

\* Every other received command on the case of e's operation is done.
VenterPaaAlle(e) ==
    LET o == minne[e].op
    IN  \A c \in mottatt \ (forkastet \cup {o.kommando}) :
            Payload[c].sak = SakTil(o) => c \in dekomponert /\ Fullfort(c)

\* SKU-0024 R2 (and operasjon.rs:475-480): AvsluttSak waits for all other
\* commands on the case.  A command that is decomposed between beslutt's two
\* reads is in neither of them.
AvsluttSakVenterPaaAlle ==
    [][\A e \in Executorer :
         /\ pc[e] = "les_udekomponerte" /\ pc'[e] = "besluttet"
         /\ minne'[e].beslutning = "utfor"
         => VenterPaaAlle(e)]_vars
=============================================================================
