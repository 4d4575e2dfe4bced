------------------------------- MODULE MCSfmm -------------------------------
(* Pages of a few rows, three free lists and one short quick list, so that    *)
(* blocks of a list differ in size, quick lists overflow and the heap grows.  *)
EXTENDS Sfmm
=============================================================================
