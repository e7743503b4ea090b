------------------------------- MODULE MCErrors -------------------------------
(* A ring of two pages and answers of up to three packets, so that an answer  *)
(* has to wait for a page to come back.                                       *)
EXTENDS ErrorList
===============================================================================
