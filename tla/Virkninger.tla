----------------------------- MODULE Virkninger -----------------------------
(***************************************************************************)
(* What the executor promises the archive, without how it keeps it.        *)
(*                                                                         *)
(* An operation is asked for at most until its effect has been made.  The  *)
(* effect then becomes a recorded success or an open question that a human *)
(* answers; it is never forgotten and never asked for again.  A refusal    *)
(* means that nothing was done, and only then may an operator reopen it.   *)
(*                                                                         *)
(* There are no executors, leases, rows, facts or crashes here: Eksekvering *)
(* implements this module (Eksekvering!Loefte), whichever of its steps are *)
(* interrupted.                                                            *)
(***************************************************************************)
CONSTANT Virkende       \* the operations that change the archive

VARIABLE utfall         \* what may be said of each operation's effect

\* venter:   not asked for, not made
\* spurt:    asked for, not made
\* virket:   made, but not recorded
\* ferdig:   recorded (as made, or as made by someone else before)
\* avvist:   refused, not made
\* uavklart: nobody but a human can tell
\* tapt:     made, but the answer was lost and taken for a transient error:
\*           the one case the promise does not cover
Utfallene == {"venter", "spurt", "virket", "ferdig", "avvist", "uavklart", "tapt"}

LoefteInit == utfall = [o \in Virkende |-> "venter"]

\* The only ways an operation can go.
Overganger ==
    {<<"venter", "spurt">>,     <<"venter", "ferdig">>, <<"venter", "avvist">>,
     <<"spurt", "virket">>,     <<"spurt", "venter">>,  <<"spurt", "avvist">>,
     <<"spurt", "uavklart">>,   <<"spurt", "tapt">>,
     <<"virket", "ferdig">>,    <<"virket", "uavklart">>,
     <<"avvist", "venter">>}

\* Operations go their ways independently; a recovery or an operator may move
\* several at once.
LoefteNext ==
    /\ utfall' \in [Virkende -> Utfallene]
    /\ \A o \in Virkende :
          utfall'[o] # utfall[o] => <<utfall[o], utfall'[o]>> \in Overganger

LoefteSpec == LoefteInit /\ [][LoefteNext]_utfall
=============================================================================
