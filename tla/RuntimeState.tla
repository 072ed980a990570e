---------------------------- MODULE RuntimeState ----------------------------
(***************************************************************************)
(* What every part of the runtime shares: the processes that have the      *)
(* SQLite file open, one connection each, and the runtime_state row of the *)
(* kill switch that each claim and each guard reads.                       *)
(***************************************************************************)
CONSTANT Conns        \* connections to the database, one per process

VARIABLE killSwitch   \* runtime_state.kill_switch is ON

(* set_kill_switch, by Sean only: anyone else's call raises.               *)
KillSwitchSet(on) == killSwitch' = on
=============================================================================
