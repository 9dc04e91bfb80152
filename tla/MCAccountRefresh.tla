--------------------------- MODULE MCAccountRefresh ---------------------------
(***************************************************************************)
(* AccountRefresh for TLC: a task of the server with one of the CLI, or    *)
(* two of the server.  An account of each kind meets the mishaps that      *)
(* matter most to it.                                                      *)
(***************************************************************************)
EXTENDS AccountRefresh, TLC

CONSTANTS t1, t2, server, cli

Across == t1 :> server @@ t2 :> cli
Within == t1 :> server @@ t2 :> server
EachProc == "codex" :> Across @@ "gemini" :> Across @@ "siwc" :> Within @@ "other" :> Within

EachMishap == "codex"  :> {"cancel", "crash", "lost", "foreign"}
           @@ "gemini" :> {"cancel", "stale"}
           @@ "siwc"   :> {"cancel", "lost"}
           @@ "other"  :> {"cancel"}
EachUser == "codex" :> {} @@ "gemini" :> {"out"} @@ "siwc" :> {"in", "out"} @@ "other" :> {"in"}
==============================================================================
