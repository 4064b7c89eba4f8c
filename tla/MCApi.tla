------------------------------- MODULE MCApi -------------------------------
EXTENDS Api, TLC

CONSTANTS a, b, alice, bob

Owners == (a :> alice) @@ (b :> bob)

\* A console or a VNC session alone, and power requests of two subjects.
Pairs ==
  { (a :> p[1]) @@ (b :> p[2]) :
      p \in {<<"console", "none">>, <<"vnc", "none">>, <<"power", "power">>} }
=============================================================================
