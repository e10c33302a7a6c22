----------------------------- MODULE MCVaultSync -----------------------------
(* Instances of VaultSync for TLC.  Entry n has route n; a further route is   *)
(* there for browser edits.                                                   *)
EXTENDS VaultSync, TLC

OwnRoute == [id \in Ids |-> id]

\* Devices only, or one device and the others with a password.
DeviceKind == [id \in Ids |-> "device"]
MixedKind == [id \in Ids |-> IF id = 1 THEN "device" ELSE "password"]

\* A vault after registration, and one in which a device was deleted while it
\* changed its own connection.
EmptyVault == {NewData}
DeviceConflict ==
    LET device == NewEntry(1, CHOOSE m \in Metas : TRUE, {CHOOSE a \in Aliases : TRUE})
    IN {[NewData EXCEPT !.deleted = {1}, !.conflicts[1] = [local |-> device, remote |-> NoEntry]]}

\* Devices and metadata are only ever compared for equality.
Symmetric == Permutations(Devices) \cup Permutations(Metas)
=============================================================================
