---------------------------- MODULE MCBotManager ----------------------------
(* Instances of BotManager for TLC. *)
EXTENDS BotManager
=============================================================================
