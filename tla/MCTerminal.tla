----------------------------- MODULE MCTerminal -----------------------------
(* Terminal as TLC checks it. *)
EXTENDS Terminal, TLC

\* The entries are alike, and so are the websockets.
Symmetry == Permutations(Clients) \cup Permutations(Conns)
=============================================================================
