--------------------------- MODULE MCTicketStream ---------------------------
(***************************************************************************)
(* Four documents, two words, a vector route and reranking, for TLC.      *)
(***************************************************************************)
EXTENDS TicketStream

CONSTANTS d1, d2, d3, d4, vpn, mail, it, other

Four_Doc     == {d1, d2, d3, d4}
MCStore      == <<d1, d2, d3, d4>>
Two_Term     == {vpn, mail}
MCTerms      == (d1 :> {vpn}) @@ (d2 :> {vpn, mail}) @@ (d3 :> {mail}) @@ (d4 :> {})
MCIdf        == [n \in 0 .. 4 |-> 25 - 5 * n]
MCDocLength  == (d1 :> 3) @@ (d2 :> 5) @@ (d3 :> 9) @@ (d4 :> 2)
MCQuery      == {[t \in Two_Term |-> 0], (vpn :> 1) @@ (mail :> 0), (vpn :> 1) @@ (mail :> 2)}
One_Category == {it}
=============================================================================
