---------------------------- MODULE MCHandshake -----------------------------
(***************************************************************************)
(* Upstream answers: good and bad status lines, blank lines at the start,  *)
(* in the middle and in the body, and headers that never end.              *)
(***************************************************************************)
EXTENDS Handshake

CRLF     == <<"CR", "LF">>
Statuses == {Prefix, <<"HTTP", "x">>, <<"x">> \o Prefix, <<>>}
Fields   == {<<>>, CRLF \o <<"x">>, <<"CR", "x">>}
Ends     == {HeadEnd, CRLF \o <<"CR">>, <<"CR">> \o HeadEnd}
Bodies   == {<<>>, <<"x">>, HeadEnd, <<"x", "x", "x", "x">>, <<"x">> \o HeadEnd}

MCReplies == {s \o f \o e \o b : s \in Statuses, f \in Fields, e \in Ends, b \in Bodies}
MCBlocks  == {<<>>, <<"x", "x">>}
=============================================================================
