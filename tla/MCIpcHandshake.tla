-------------------------- MODULE MCIpcHandshake --------------------------
(* Command sets for the TLC runs of IpcHandshake. *)
EXTENDS IpcHandshake

NoCommands == {}
NoItlks == {}

\* Functions that write their payload after the busy test only.
PayloadCmds == {bsmp_turn_on, bsmp_unlock_udc, bsmp_set_slowref_fbp}

\* Function 6 passes whatever the interface; the others need Remote.
InterfaceCmds == {bsmp_set_command_interface}
UnlockCmds == {bsmp_unlock_udc, bsmp_set_command_interface}

TurnOn == {bsmp_turn_on}
===========================================================================
