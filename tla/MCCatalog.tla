----------------------------- MODULE MCCatalog -----------------------------
(* A model-checking instance of Catalog: one source, a Service and a Pod that *)
(* refers to it, and one manual service. *)
EXTENDS Catalog

CONSTANTS Src, Svc, Pod

MCSourceOf == [c \in {Svc, Pod} |-> Src]
MCRefs == [c \in {Svc, Pod} |-> {Svc}]
=============================================================================
