---------------------------- MODULE MCSnapshotEvents ----------------------------
(* Two processes of one application, and Corivo. *)
EXTENDS SnapshotEvents, TLC

CONSTANTS a1, a2, us

MCProcess == {a1, a2, us}
MCBundle  == (a1 :> "app") @@ (a2 :> "app") @@ (us :> "Corivo")
MCAlike   == Permutations({a1, a2})
=============================================================================
