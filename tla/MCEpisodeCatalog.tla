--------------------------- MODULE MCEpisodeCatalog ---------------------------
(* EpisodeCatalog on small instances. *)
EXTENDS EpisodeCatalog

\* Episodes and requests are interchangeable.
CatalogSymmetry == Permutations(Episodes) \cup Permutations(Requests)
=============================================================================
