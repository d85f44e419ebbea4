---------------------------- MODULE MCWebPlugins ----------------------------
(* Two plugins and two versions. *)
EXTENDS WebPlugins

CONSTANTS p1, p2
=============================================================================
