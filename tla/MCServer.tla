----------------------------- MODULE MCServer -----------------------------
(* Server on two versions of the file and two reload goroutines.           *)
EXTENDS Server

CallsFail == {"closeCore", "newCore", "startCore", "startNodes"}
============================================================================
