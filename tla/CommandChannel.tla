-------------------------- MODULE CommandChannel --------------------------
(***************************************************************************)
(* What a command buffer or invalidation queue promises: the IOMMU         *)
(* receives exactly the commands the driver sent, in that order.           *)
(***************************************************************************)
EXTENDS Sequences

VARIABLES
  chan,   \* commands sent and not yet received
  last,   \* the command sent last
  got     \* the command received last

vars == <<chan, last, got>>

Init == chan = << >>

(* Whatever is sent, `last', joins the end. *)
Send ==
  /\ chan' = Append(chan, last')
  /\ UNCHANGED got

Receive ==
  /\ chan # << >>
  /\ got' = Head(chan)
  /\ chan' = Tail(chan)
  /\ UNCHANGED last

Next == Send \/ Receive

Spec == Init /\ [][Next]_vars
===========================================================================
