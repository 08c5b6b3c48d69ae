--------------------------- MODULE MCConfiguration ---------------------------
(***************************************************************************)
(* An instance of Configuration for TLC: the built-in options, an extension  *)
(* with one option of its own, and arguments among the commands, a number,   *)
(* a word, a space and nothing.                                               *)
(***************************************************************************)
EXTENDS Configuration

MCStrings ==
    {"--interval", "--app", "--nebu", "--ext", "60", "5", "-1", "w", "", " ", "http://localhost:8080"}

MCNumbers == "60" :> 60 @@ "5" :> 5 @@ "-1" :> -1

MCCommands ==
    "--interval" :> "app.interval" @@ "--app" :> "app.uuid" @@ "--nebu" :> "nebu.url"

MCDefaults ==
    "app.interval" :> "60" @@ "app.uuid" :> "" @@ "nebu.url" :> "http://localhost:8080"

MCGarbage == {-1, 60}
=============================================================================
