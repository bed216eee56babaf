----------------------------- MODULE MCScraping -----------------------------
(* Instances of Scraping for TLC.                                           *)
EXTENDS Scraping, TLC

Symmetry == UNION {Permutations(S) : S \in {User, Chat, Scraper, Job}}
=============================================================================
