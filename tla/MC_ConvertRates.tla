--------------------------- MODULE MC_ConvertRates ---------------------------
(***************************************************************************)
(* ConvertRates for TLC: two enabled queries and one disabled query (no    *)
(* token with a mainnet equivalent, or no network yet), five effects, so   *)
(* that a query can change four times, with fetches of superseded effects  *)
(* still in flight.  MC_ConvertRates.cfg uses the code's own ceiling: 19   *)
(* factors of 1.2 take the 2 s floor past 60 s.                            *)
(***************************************************************************)
EXTENDS ConvertRates, TLC

CONSTANTS q1, q2, qOff

=============================================================================
