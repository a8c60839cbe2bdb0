----------------------------- MODULE MCLifecycle -----------------------------
(***************************************************************************)
(* A resource of each class of the catalogue.                              *)
(***************************************************************************)
EXTENDS Lifecycle

AllClasses == {c.name : c \in Catalogue}
=============================================================================
