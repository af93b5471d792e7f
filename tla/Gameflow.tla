------------------------------- MODULE Gameflow -------------------------------
(***************************************************************************)
(* The League client's gameflow, as the code in src/ sees it: an external  *)
(* service whose phase RiftOps polls and never controls.  Phases the code  *)
(* treats alike are merged: InProgress stands for GameStart, Loading,      *)
(* InProgress and Reconnect, PostStats for PreEndOfGame and                *)
(* WaitingForStats.                                                        *)
(***************************************************************************)

Queueing    == {"Matchmaking", "ReadyCheck", "ChampSelect"}
GamePhases  == {"InProgress", "PostStats", "EndOfGame"}
Phases      == {"None", "Lobby", "TerminatedInError"} \cup Queueing \cup GamePhases

(***************************************************************************)
(* The phases League, the match maker or the player at the League client   *)
(* can move to by themselves.                                              *)
(***************************************************************************)
Successors ==
  [p \in Phases |->
     CASE p = "None"        -> {"Lobby"}
       [] p = "Lobby"       -> {"None", "Matchmaking", "ChampSelect"}
       [] p = "Matchmaking" -> {"Lobby", "ReadyCheck"}
       [] p = "ReadyCheck"  -> {"Lobby", "Matchmaking", "ChampSelect"}
       [] p = "ChampSelect" -> {"Lobby", "Matchmaking", "InProgress"}
       [] p = "InProgress"  -> {"PostStats", "TerminatedInError"}
       [] p = "PostStats"   -> {"EndOfGame", "None"}
       [] p = "EndOfGame"   -> {"Lobby", "None"}
       [] OTHER             -> {"None"}]

(* A game begins when the client enters a game phase from outside.         *)
GameBegins(from, to) == from \notin GamePhases /\ to \in GamePhases
=============================================================================
