--------------------------- MODULE MCAsyncEngine ---------------------------
(* A character is split over two tokens, tokA and tokB; tokEnd is a stop token. *)
EXTENDS AsyncEngine

CONSTANTS tokA, tokB, tokEnd, c1

MCTokens == {tokA, tokB, tokEnd}
MCBytes == (tokA :> [cont |-> FALSE, chars |-> <<"a">>, lead |-> TRUE])
           @@ (tokB :> [cont |-> TRUE, chars |-> <<>>, lead |-> FALSE])
           @@ (tokEnd :> [cont |-> FALSE, chars |-> <<"end">>, lead |-> FALSE])
OneToken == {tokA, tokEnd}
MCStops == {tokEnd}
MCMaxNew == {MaxNew}
OneCall == {c1}
NoCalls == {}
=============================================================================
