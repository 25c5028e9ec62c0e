---------------------------- MODULE KeyedCallsMC ----------------------------
(* Instances of KeyedCalls for TLC: two keys of the ledger, so that they    *)
(* share the lock of their account, and one of each other service.          *)
EXTENDS KeyedCalls

CONSTANTS kr, kl, km, kc, create, upload

MCService == [k \in Key |-> CASE k = kr -> "RECORD" [] k \in {kl, km} -> "LEDGER" [] k = kc -> "COMMAND"]

(* Records and entries compare purpose and body together, in one hash: one  *)
(* purpose is enough for them.                                              *)
MCOffered == [k \in Key |-> IF k = kc THEN Purpose ELSE {create}]
=============================================================================
