-------------------------- MODULE MCForfallsklokke --------------------------
(* Instances of Forfallsklokke for TLC. *)
EXTENDS Forfallsklokke

CONSTANTS a, b, x, y, z, s, t, ka, kb, kx, kz

\* Two closings of a case, two operations that one command queued on it, the
\* second behind the first, and one on another case that only wants its turn.
Alle == {a, b, x, y, z}
AlleSak == [o \in Alle |-> IF o = z THEN t ELSE s]
AlleKommando == [o \in Alle |-> CASE o = a -> ka [] o = b -> kb [] o = z -> kz
                                  [] o \in {x, y} -> kx]
AlleForut == [o \in Alle |-> IF o = y THEN {x} ELSE {}]

\* The courses: the blocked closings, the ladder, the queue and the warning,
\* each with the mishaps that bear on it.
F(oppgaver, gamle, antall, stopp, grep_) ==
    [oppgaver |-> oppgaver, gamle |-> gamle, forsok |-> antall,
     krasj |-> stopp, grep |-> grep_]
Forlopene == {F({a, b, x}, {}, 1, 1, 1), F({a, x}, {}, 3, 0, 1), F({x}, {x}, 3, 1, 1),
              F({a, x, y}, {x}, 1, 0, 0), F({x, y, z}, {}, 2, 0, 0)}
=============================================================================
