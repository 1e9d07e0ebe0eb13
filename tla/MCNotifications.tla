-------------------------- MODULE MCNotifications --------------------------
(***************************************************************************)
(* Small instances of the notifications command: two trees of two origins  *)
(* on one branch, one of them with a report that names paths.              *)
(***************************************************************************)
EXTENDS Notifications, TLC

MCKeyOf == ("a" :> "k1") @@ ("b" :> "k1") @@ ("c" :> "k2")
MCBranchOf == ("k1" :> "x") @@ ("k2" :> "x")
=============================================================================
