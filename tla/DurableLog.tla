------------------------------ MODULE DurableLog ------------------------------
(***************************************************************************)
(* What a store that can be lost promises: a log that grows by one record  *)
(* at a time, and a part of it that is safe and only grows.  When the      *)
(* store is lost the log falls back to the safe part, and to nothing else. *)
(* DurableRecovery implements it for the stops of one process, and         *)
(* RegionFailover for the promotion of a recovery region.                  *)
(***************************************************************************)
EXTENDS Naturals, Sequences

VARIABLES log, safe

\* s is how t begins.
Begins(s, t) == Len(s) <= Len(t) /\ \A i \in 1..Len(s) : s[i] = t[i]

Init == log = <<>> /\ safe = <<>>

Take ==
    /\ Len(log') = Len(log) + 1
    /\ Begins(log, log')
    /\ safe' = safe

Secure ==
    /\ log' = log
    /\ Begins(safe, safe') /\ Begins(safe', log)

Fall == log' = safe /\ safe' = safe

Next == Take \/ Secure \/ Fall

Spec == Init /\ [][Next]_<<log, safe>>
=============================================================================
