-------------------------- MODULE MCClientRegistry --------------------------
(* Small registries whose slots and descriptors have numbers in common, so    *)
(* that the index of a slot can be taken for a descriptor.                     *)
EXTENDS ClientRegistry
=============================================================================
