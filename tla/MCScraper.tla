------------------------------ MODULE MCScraper -------------------------------
(* Scraper for TLC.                                                        *)
EXTENDS Scraper

=============================================================================
