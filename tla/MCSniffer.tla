----------------------------- MODULE MCSniffer -----------------------------
(* Instances of Sniffer for TLC.                                           *)
EXTENDS Sniffer

CONSTANTS tls, bittorrent

(* A pattern for the domain sniffed; one for the domain asked for, with    *)
(* bittorrent forbidden.                                                   *)
Rules == {[domain |-> {"sniffed"}, protocols |-> {}],
          [domain |-> {"name"}, protocols |-> {bittorrent}]}

(* Every verdict, when the content is sniffed at all; a domain is asked    *)
(* for through the pipe, with a payload that names one if it is sniffed.   *)
Kinds == {i \in AllInputs :
             /\ i.asked = "name" =>
                   i.mode = "pipe" /\ (i.named <=> i.request = "content")
             /\ i.request # "content" =>
                   i.verdict = [s \in Sniffers |-> [n \in 1..MaxChunks |-> "no"]]}
============================================================================
