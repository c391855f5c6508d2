------------------------ MODULE MCRuntimeSupervisor ------------------------
(***************************************************************************)
(* RuntimeSupervisor on small instances: an ordinary game, the same window *)
(* after the user chose full sessions for it, and a League game; the       *)
(* default settings, and ones that skip a League queue category, with or   *)
(* without recording in one game only.                                     *)
(***************************************************************************)
EXTENDS RuntimeSupervisor

Plain     == [id |-> "plain", hwnd |-> 1, mode |-> "ReplaysOnly", league |-> FALSE]
PlainFull == [Plain EXCEPT !.mode = "FullSession"]
League    == [id |-> "league", hwnd |-> 2, mode |-> "ReplaysOnly", league |-> TRUE]

Defaults  == [auto |-> TRUE, pause |-> FALSE, games |-> {"plain", "league"}, denied |-> {}]
GamesOnly == [auto |-> TRUE, pause |-> TRUE, games |-> {"league"}, denied |-> {"ranked"}]

Gated     == [Defaults EXCEPT !.denied = {"ranked"}]

AllGames     == {Plain, PlainFull, League}
LeagueOnly   == {League}
MCCategories == {"ranked", "unknown"}
MCSettings   == {Defaults, GamesOnly}
GatedOnly    == {Gated}
=============================================================================
