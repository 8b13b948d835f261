--------------------------- MODULE MCEuchreTable ---------------------------
(* EuchreTable for TLC.                                                    *)
EXTENDS EuchreTable
=============================================================================
