---------------------------- MODULE MCAdminflate ----------------------------
(* An instance of Adminflate for TLC: on one case a command half done, one   *)
(* underway and one that was never validated; a fourth on a case nobody knows. *)
EXTENDS Adminflate, TLC

CONSTANTS c1, c2, c3, c4, o1, o2, o3, o4, o5, s1, s2

Rekkefolge == << c1, c2, c3, c4 >>
Sakene == c1 :> s1 @@ c2 :> s1 @@ c3 :> s1 @@ c4 :> s2
Opene == c1 :> {o1, o2} @@ c2 :> {o3} @@ c3 :> {o4} @@ c4 :> {o5}
Statusene ==
    [o \in Operasjoner |-> CASE o = o1 -> "ok" [] o = o2 -> "feilet" [] o = o3 -> "klar"
                             [] OTHER -> Nei]
UtenAndre == [Statusene EXCEPT ![o3] = Nei]
AndreFerdig == [Statusene EXCEPT ![o3] = "ok"]

Be(rute, ider, sak) ==
    [rute |-> rute, ider |-> ider, sak |-> sak, gyldig |-> TRUE, svarsubjekt |-> TRUE]

Kast == Be("ForkastCommands", <<c2, c3>>, Nei)
Igjen(ider) == Be("RetryCommands", ider, Nei)
HeleSaken == Be("RetrySak", << >>, s1)

Lesninger ==
    { Be("HentCommand", <<c3>>, Nei), Be("HentCommand", <<Nei>>, Nei),
      Be("HentSak", << >>, s1), Be("HentSak", << >>, s2),
      Be("RetryCommands", <<c3, c1>>, Nei), Be("RetryCommands", <<c1, Nei>>, Nei),
      Be("RetryCommands", << >>, Nei), Be("RetrySak", << >>, s2),
      Be("ForkastCommands", << >>, Nei), Be("ForkastCommands", <<Nei>>, Nei),
      [Be("ForkastCommands", <<c3>>, Nei) EXCEPT !.gyldig = FALSE],
      [Be("RetrySak", << >>, s1) EXCEPT !.svarsubjekt = FALSE] }

\* Retries and a discard that overlap; and reads, with every way a request is
\* refused, through the loss of a subscription.
F(foresporsler, status, n, m) ==
    [foresporsler |-> foresporsler, status |-> status, antall |-> n, feil |-> m]
Les(ider) == Be("HentCommand", ider, Nei)
Forlopene ==
    {F({Igjen(<<c1>>), HeleSaken}, Statusene, 2, 0),
     F({Igjen(<<c1, c3, c1>>), HeleSaken}, AndreFerdig, 2, 0),
     F({Igjen(<<c1, c3, c1>>), Kast}, Statusene, 2, 0),
     F({Igjen(<<c1, c4>>), Kast}, Statusene, 2, 0),
     F({HeleSaken, Kast}, UtenAndre, 2, 0),
     F(Lesninger, UtenAndre, 2, 0), F(Lesninger, UtenAndre, 1, 1),
     F({Les(<<c3>>), Igjen(<<c3, c1>>)}, UtenAndre, 2, 1)}
=============================================================================
