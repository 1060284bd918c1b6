----------------------------- MODULE MCContext ------------------------------
(* The user contexts of idle, init and up to two more processes, each with *)
(* at most two images and two calls in each; the bounds are in the cfg.    *)
EXTENDS Context
=============================================================================
