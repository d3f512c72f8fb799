---------------------------- MODULE MCRetention ----------------------------
(* Workers and family limits for TLC. *)
EXTENDS Retention, TLC

CONSTANTS w1, w2, w3
WorkerSymmetry == Permutations(Workers)

TwoLimits == <<0, 2>>
OneLimit == <<2>>
=============================================================================
