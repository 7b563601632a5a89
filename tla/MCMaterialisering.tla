-------------------------- MODULE MCMaterialisering --------------------------
(* Instances of Materialisering for TLC. *)
EXTENDS Materialisering

CONSTANTS k1, k2, s, j1, j2, d1, d2, d3, f1, f2, f3, a1, a2, n1, n2, u, h

Person == [navn |-> n1, slag |-> "person"]
Virksomhet == [navn |-> n2, slag |-> "virksomhet"]
Unntatt == [kode |-> u, hjemmel |-> h]

Dok(r, f, form) == [ref |-> r, fil |-> f, form |-> form]
Jp(t, r, nummer, tilgang, parter, dok) ==
    [type |-> t, ref |-> r, sak |-> s, nummer |-> nummer, tilgang |-> tilgang,
     parter |-> parter, dok |-> dok, ansvarlig |-> Ingen]
Sak(t, nummer, tilgang, a) ==
    [type |-> t, ref |-> Ingen, sak |-> s, nummer |-> nummer, tilgang |-> tilgang,
     parter |-> <<>>, dok |-> <<>>, ansvarlig |-> a]

\* The documents of the first and of the second record of a client.
Forst == {<<Dok(d1, f1, "bytes"), Dok(d2, f2, "bytes")>>, <<Dok(d1, f1, "mal")>>,
          <<Dok(d1, f1, "mal"), Dok(d2, f2, "bytes")>>}
Sist == {<<Dok(d3, f3, "bytes")>>, <<Dok(d3, f3, "mal")>>}

Poster(r, dok, nummer) ==
    {Jp("inn", r, nummer, t, <<Person>>, x) : t \in {Ingen, Unntatt}, x \in dok}
    \cup {Jp("notat", r, nummer, t, <<>>, x) : t \in {Ingen, Unntatt}, x \in dok}
    \cup {Jp(t, r, nummer, Unntatt, <<Virksomhet, Person>>, x) :
              t \in {"ut", "ut_utsending"}, x \in dok}

Saken(nummer, a) ==
    {Sak("sett_saksansvarlig", nummer, Ingen, a), Sak("avslutt_sak", nummer, Ingen, Ingen)}
    \cup IF nummer THEN {} ELSE {Sak("opprett_sak", FALSE, t, a) : t \in {Ingen, Unntatt}}

Par(x, y) == [k \in Kommandoer |-> IF k = k1 THEN x ELSE y]

\* Two commands on one case, of any types and under references of their own.
Ulike ==
    UNION {{Par(x, y) : x \in Poster(j1, Forst, b) \cup Saken(b, a1),
                        y \in Poster(j2, Sist, b) \cup Saken(b, a2)} : b \in BOOLEAN}

\* A record sent twice under its reference: the same again, with fewer
\* documents, with a document named twice, or as another record of the same
\* documents.
Like == {Par(Jp("ut", j1, FALSE, Ingen, <<Person>>, x), y) :
            x \in Forst \cup {<<Dok(d1, f1, "bytes"), Dok(d2, f2, "bytes"), Dok(d2, f2, "bytes")>>},
            y \in {Jp("ut", j1, FALSE, Unntatt, <<Virksomhet>>, <<Dok(d1, f3, "bytes")>>),
                   Jp("inn", j2, FALSE, Ingen, <<Person>>, <<Dok(d2, f3, "bytes")>>),
                   Jp("inn", j2, FALSE, Ingen, <<Person>>, <<Dok(d3, f3, "bytes"), Dok(d2, f2, "bytes")>>)}}

\* Two requests for one record with different documents at one place of it: the
\* main one, an attachment, or the same documents in another order.
Uenige ==
    {Par(Jp("ut", j1, FALSE, Ingen, <<Person>>, x),
         Jp(t, j1, FALSE, Unntatt, IF t = "notat" THEN <<>> ELSE <<Virksomhet>>, y)) :
            t \in {"ut_utsending", "notat"},
            x \in Forst,
            y \in {<<Dok(d3, f3, "bytes")>>, <<Dok(d1, f3, "bytes"), Dok(d3, f3, "bytes")>>,
                   <<Dok(d2, f2, "bytes"), Dok(d1, f1, "bytes")>>, <<Dok(d2, f2, "bytes")>>}}

Alle == Ulike \cup Like \cup Uenige
=============================================================================
