---------------------------- MODULE MCPageWalk ----------------------------
(***************************************************************************)
(* PageWalk over a three-level tree with a spare table at each lower       *)
(* level, so that a linked table can be replaced while a walk is inside.   *)
(***************************************************************************)
EXTENDS PageWalk, TLC

MCLevels == 3

TRoot == {12}
TMid == {13}
TMid2 == {12, 13}
TLow == {14}
TLow2 == {12, 14}

MCTables == {TRoot, TMid, TMid2, TLow, TLow2}
MCLevelOf == TRoot :> 3 @@ TMid :> 2 @@ TMid2 :> 2 @@ TLow :> 1 @@ TLow2 :> 1

(* An address below and one above the 39 bits the tree translates, which   *)
(* select the same entries.                                                *)
VLow == {3, 12, 22}
VWide == {3, 12, 22, 39}
MCAddrs == {VLow, VWide}

MCFrames == <<{{16}}, {{24}}, {{32}}>>

(* TRoot -> TMid -> TLow -> a page for VLow; the spare tables are empty. *)
MCStartMem ==
  [f \in Formats |->
    [t \in MCTables |->
      [i \in {index_at(v, MCLevelOf[t]) : v \in MCAddrs} |->
        CASE t = TRoot -> Link(f, TMid)
          [] t = TMid /\ i = index_at(VLow, 2) -> Link(f, TLow)
          [] t = TLow /\ i = index_at(VLow, 1) -> Leaf(f, {16}, TRUE)
          [] OTHER -> EMPTY]]]

MCAmd == {"V1", "V2"}
===========================================================================
