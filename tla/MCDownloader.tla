------------------------------ MODULE MCDownloader ------------------------------
(***************************************************************************)
(* The instance of Downloader for TLC.                                     *)
(***************************************************************************)
EXTENDS Downloader

CONSTANTS c1, c2, c3,   \* chunks
          g1, g2        \* goroutines
=============================================================================
