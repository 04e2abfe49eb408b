---------------------------- MODULE MCEnrichment ----------------------------
(* One item with all its deliveries, and one request to enrich it on demand. *)
EXTENDS Enrichment
=============================================================================
