--------------------------- MODULE MCDokumentflyt ---------------------------
(* Instances of Dokumentflyt for TLC. *)
EXTENDS Dokumentflyt

CONSTANTS o1, o2, o3, d1, d2, i, j

\* Two sessions under one id and one under another.
TreId == [o \in Opplastinger |-> IF o = o3 THEN j ELSE i]
DokRef == [d \in Dokumenter |-> IF d = d1 THEN i ELSE j]

Fil(token, n) == [slag |-> "fil", token |-> token, nr |-> n]

\* The template as the README asks for it; another file under the same id, which
\* a template function may refuse; a file that is sent as it is.
TreInnhold ==
    [o \in Opplastinger |-> CASE o = o1 -> Fil("stram", 1)
                              [] o = o2 -> Fil("ingen", 2)
                              [] OTHER  -> Fil("annet", 3)]

\* A template with one field, and bytes.
MalOgBytes == [d \in Dokumenter |-> IF d = d1 THEN <<"saksnummer">> ELSE Bytes]
=============================================================================
