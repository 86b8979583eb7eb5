------------------------- MODULE MCServletDispatch -------------------------
(* Paths over the characters "/", "a", "b"; patterns that overlap on "/a"  *)
(* so that list order, re-registration and an empty "*" all decide.       *)
EXTENDS ServletDispatch

CONSTANTS s1, s2, c1

MCUris == {<<"/">>, <<"/", "a">>, <<"/", "a", "b">>, <<"/", "b">>}
MCExactUris == {<<"/", "a">>}
MCPatterns == {<<"/", "*">>, <<"/", "a", "*">>, <<"/", "?">>}
MCServlets == {s1, s2}
MCConns == {c1}
=============================================================================
