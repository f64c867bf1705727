----------------------------- MODULE MCFirewall -----------------------------
(* Small instances of Firewall for TLC.                                    *)
EXTENDS Firewall, TLC

Symmetric == Permutations(Entries)

(* After that nothing is claimed.                                          *)
NoneStale == ~stale
=============================================================================
