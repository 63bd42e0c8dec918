---------------------------- MODULE MCTargetSystem ----------------------------
(***************************************************************************)
(* Images as they are built, and with a defect each: an fstab of its own,  *)
(* a stray home directory, no wheel group, no GRUB theme, no installer     *)
(* package; accounts that are new, in the image, or liveuser itself.       *)
(***************************************************************************)
EXTENDS TargetSystem

CONSTANTS slash, home, efi, dotSnapshots, swap, live, ana, daemon, nopasswd, autologin,
          service, policy, nobody

MCConnections == {[name |-> "wifi", owner |-> live], [name |-> "lan", owner |-> nobody]}

LiveRoot ==
  [Empty EXCEPT !.files = {nopasswd, autologin, service, policy}, !.accounts = {live, daemon},
                !.wheel = {live}, !.zram = TRUE,
                !.connections = {[name |-> "lan", owner |-> nobody]}]

Built ==
  [root |-> LiveRoot, ownFstab |-> FALSE, homes |-> {live},
   groups |-> {"users", "wheel", "lp"}, theme |-> TRUE, package |-> TRUE]

MCImages ==
  {Built, [Built EXCEPT !.ownFstab = TRUE], [Built EXCEPT !.homes = {live, ana}],
   [Built EXCEPT !.groups = {"users"}], [Built EXCEPT !.theme = FALSE],
   [Built EXCEPT !.package = FALSE], [Built EXCEPT !.root.accounts = {daemon}, !.root.wheel = {}]}

MCConfigs == [name : {ana, daemon, live}, swap : {"none", "disk", "zram"}]
=============================================================================
