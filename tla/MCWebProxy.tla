----------------------------- MODULE MCWebProxy -----------------------------
(* TLC instance of WebProxy: connections are interchangeable.               *)
EXTENDS WebProxy, TLC

Interchangeable == Permutations(Client)
=============================================================================
