------------------------------ MODULE MCSearchCache ------------------------------
(* Two regions with a listing each, one keyword that holds another. *)
EXTENDS SearchCache

MCSiteOf(l)  == IF l = "near" THEN "karrot" ELSE "bungae"
MCPlaceOf(l) == IF l = "near" THEN "jeju" ELSE "seoul"
MCKeywords   == {<<"sofa">>, <<"sofa", "bed">>}
=============================================================================
