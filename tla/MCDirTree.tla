----------------------------- MODULE MCDirTree -----------------------------
(* Values of the constants of DirTree for TLC. *)
EXTENDS DirTree

(* "za" ends with "a".  Two levels, so that there are three after a move. *)
NombresMC == {"a", "za"}
SufijoMC  == {<<"a", "a">>, <<"za", "za">>, <<"za", "a">>}
RutasMC   == {<<"a">>, <<"za">>, <<"za", "a">>, <<"za", "za">>}
SubidasMC == {<<"za", "a", "za">>, <<"a">>}
=============================================================================
