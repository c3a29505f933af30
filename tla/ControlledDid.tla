----------------------------- MODULE ControlledDid -----------------------------
(***************************************************************************)
(* What a did:hedera DID promises its readers, without messages, events or *)
(* encodings.  Anyone may post to the DID's topic.  A post has an effect   *)
(* only when its author is the key that controls the DID at that moment;   *)
(* control starts with the key embedded in the DID and moves only by a     *)
(* hand-over of an established DID; a deactivation is the last effect a    *)
(* DID ever has.                                                           *)
(***************************************************************************)
CONSTANTS Key, Anchor, Nil

VARIABLES
  holder,    \* the key that controls the DID
  stage,     \* "absent", "live", "ended" or, deactivated before it existed, "void"
  contents,  \* everything a reader is shown
  author     \* the key the last post verifies under

vars == <<holder, stage, contents, author>>

Init ==
  /\ holder = Anchor
  /\ stage = "absent"
  /\ author = Nil

Ignored ==
  UNCHANGED <<holder, stage, contents>>

Edit ==
  /\ stage \in {"absent", "live"}
  /\ author' = holder
  /\ UNCHANGED <<holder, stage>>

Establish ==
  /\ stage = "absent"
  /\ author' = holder
  /\ stage' = "live"
  /\ UNCHANGED holder

HandOver ==
  /\ stage = "live"
  /\ author' = holder
  /\ holder' \in Key
  /\ UNCHANGED stage

End ==
  /\ stage \in {"absent", "live"}
  /\ author' = holder
  /\ stage' = IF stage = "live" THEN "ended" ELSE "void"
  /\ UNCHANGED <<holder, contents>>

Next == Ignored \/ Edit \/ Establish \/ HandOver \/ End

Spec == Init /\ [][Next]_vars
================================================================================
