------------------------------- MODULE MCAzimuth -------------------------------
(***************************************************************************)
(* Instances of Azimuth for TLC.  Galaxies are the numbers below 2 and     *)
(* stars those below 4: star 2 is of galaxy 0, star 3 of galaxy 1, planets *)
(* 4 to 7 are of 0, 1, 2 and 3.                                            *)
(***************************************************************************)
EXTENDS Azimuth

(* Star 3 and the two galaxies it may be sponsored by. *)
SponsorShips   == {0, 1, 3}
SponsorSenders == {<<0, "owner">>, <<1, "owner">>, <<3, "owner">>}
SponsorTopics  == {"EscapeRequested", "EscapeCanceled", "EscapeAccepted",
                   "LostSponsor", "OwnerChanged", "ChangedDns"}
SponsorOpcodes == {"escape", "cancel-escape", "adopt", "reject", "detach"}

(* One galaxy, all its roles and its keys. *)
RoleShips   == {0}
RoleSenders == {0} \X Proxy
RoleTopics  == {"OwnerChanged", "ChangedSpawnProxy", "ChangedTransferProxy",
                "ChangedManagementProxy", "ChangedVotingProxy", "ChangedKeys",
                "BrokeContinuity"}
RoleOpcodes == {"transfer-point", "set-management-proxy", "set-spawn-proxy",
                "set-transfer-proxy", "configure-keys", "unknown-opcode",
                "malformed-signature"}

(* Galaxy 0 with star 2 and its planet 6, spawned on either layer. *)
SpawnShips   == {0, 2, 6}
SpawnSenders == {<<0, "owner">>, <<0, "spawn">>, <<2, "owner">>}
SpawnTopics  == {"Spawned", "Activated", "OwnerChanged", "ChangedSpawnProxy",
                 "LostSponsor"}
SpawnOpcodes == {"spawn", "unknown-source"}

(* Ship 0 as the sponsor that a column of 0 seems to name. *)
ZodShips     == {0, 1, 3, 4}
ZodSenders   == {<<0, "owner">>}
NoTopics     == {}
AdoptOpcodes == {"adopt", "reject"}
=============================================================================
