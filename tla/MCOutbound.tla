----------------------------- MODULE MCOutbound -----------------------------
(***************************************************************************)
(* Outbound, and P2PHost with it, for TLC: a TCP and a QUIC address, enough *)
(* attempts for the redial delay to reach its cap, and one sender of each   *)
(* kind: a result, a PCS bid with a second attempt, and a bid with three.   *)
(***************************************************************************)
EXTENDS Outbound

CONSTANTS result, pcsBid, bid

MCAttempts == [s \in Sender |-> IF s = result THEN 1 ELSE IF s = pcsBid THEN 2 ELSE 3]

=============================================================================
