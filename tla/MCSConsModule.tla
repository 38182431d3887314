---- MODULE MCSConsModule ----
(* The SCons module tool for TLC: the constants are given in the cfg.    *)
EXTENDS SConsModule
====
