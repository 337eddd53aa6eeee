---------------------------- MODULE MCSporbarhet ----------------------------
(* A small instance of Sporbarhet: a kommune and the Matrikkel, one problem, four files. *)
EXTENDS Sporbarhet
=============================================================================
