------------------------------- MODULE MCCert -------------------------------
(* Instances of Cert for TLC.                                              *)
EXTENDS Cert

CONSTANTS dom, ip, empty

(* A configuration file that names the files after the domain.             *)
LocalParams == [mode |-> "auto", target |-> ip, paths |-> "params",
                dns |-> FALSE, fallback |-> FALSE]

FromPanel(mode, target, fallback) ==
    [mode |-> mode, target |-> target, paths |-> "plain", dns |-> FALSE,
     fallback |-> fallback, fallbackSet |-> TRUE]

(* The certificate of an address, which fails over to a self-signed one;   *)
(* a self-signed one for a domain; files somebody else provides; a target  *)
(* that cannot have a certificate; and nothing, when the local one counts. *)
AutoSelfFile == {FromPanel("", empty, FALSE),
                 FromPanel("auto", ip, TRUE), FromPanel("self", dom, FALSE),
                 FromPanel("file", ip, FALSE), FromPanel("auto", empty, TRUE)}
=============================================================================
