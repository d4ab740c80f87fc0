---- MODULE MCHandles ----
(* Three handles of any class: a copy, its source, and a copy of the copy. *)
EXTENDS Handles, TLC
MCSymmetry == Permutations(Handle)
====
