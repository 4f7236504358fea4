--------------------------- MODULE MCTelegramBot ---------------------------
(* Instance of TelegramBot for TLC: one miner, a button or command of each kind that the handlers
   tell apart, and a chat that is empty or holds a screen of before the start. *)
EXTENDS TelegramBot

CONSTANTS rig1

MCMiners == {rig1}
MCAsked == {"start", "reboot", "whoami", "find", "details", "pools", "back", "confirm"}
MCLeft == {<<>>, <<Screen("pools", rig1, TRUE)>>, <<Screen("confirm", rig1, FALSE)>>}
=============================================================================
