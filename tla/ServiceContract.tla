-------------------------- MODULE ServiceContract --------------------------
(***************************************************************************)
(* What the platform promises about one dispatch, whichever way it is      *)
(* executed: it is won by one actor at a time, nobody wins it twice, the   *)
(* winner pays in the very step in which it wins, it gets its credits back *)
(* in the very step in which it leaves, and what is delivered stays        *)
(* delivered and paid.                                                     *)
(***************************************************************************)
CONSTANTS Actor, None,
          Exempted       \* actors that owe nothing for this dispatch

VARIABLES phase,   \* "NONE", "OPEN", "CLAIMED", "DELIVERED" or "OVER"
          holder,  \* who executes it, or executed it
          past,    \* who gave it back
          paid     \* whose credits are kept for it

vars == <<phase, holder, past, paid>>

Init ==
  /\ past = {} /\ paid = {}
  /\ \/ phase = "NONE" /\ holder = None
     \/ phase = "CLAIMED" /\ holder \in Exempted

Publish ==
  /\ phase = "NONE" /\ phase' = "OPEN"
  /\ UNCHANGED <<holder, past, paid>>

Win(a) ==
  /\ phase = "OPEN" /\ a \notin past
  /\ phase' = "CLAIMED" /\ holder' = a
  /\ paid' = paid \cup ({a} \ Exempted)
  /\ past' = past

GiveBack ==
  /\ phase = "CLAIMED"
  /\ phase' \in {"OPEN", "OVER"}
  /\ holder' = None
  /\ past' = past \cup {holder}
  /\ paid' = paid \ {holder}

Deliver ==
  /\ phase = "CLAIMED" /\ phase' = "DELIVERED"
  /\ UNCHANGED <<holder, past, paid>>

(* The window lapses with nobody holding it, or the request is cancelled.   *)
Close ==
  /\ phase \in {"OPEN", "CLAIMED"} /\ phase' = "OVER"
  /\ holder' = None
  /\ paid' = paid \ {holder}
  /\ past' = past

Next == Publish \/ GiveBack \/ Deliver \/ Close \/ \E a \in Actor : Win(a)

Spec == Init /\ [][Next]_vars
-----------------------------------------------------------------------------
(* What the contract means for a reader of one state: who executes the      *)
(* dispatch never gave it back before and has paid for it, unless it owes   *)
(* nothing, and nobody else has; and nobody has paid for a dispatch that    *)
(* nobody executes.                                                         *)
Promises ==
  IF phase \in {"CLAIMED", "DELIVERED"}
  THEN holder \notin past /\ paid = {holder} \ Exempted
  ELSE holder = None /\ paid = {}
=============================================================================
