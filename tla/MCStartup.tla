------------------------------ MODULE MCStartup ------------------------------
(***************************************************************************)
(* Startup for TLC: a few settings from each source, in combinations.      *)
(***************************************************************************)
EXTENDS Startup

Nothing == <<>>

(* What is asked for on the command line.                                  *)
Wishes ==
  { Nothing,
    "upstream" :> "seestar.lan",
    ("upstream" :> "v6") @@ ("wireguard" :> TRUE),
    ("transparent" :> TRUE) @@ ("discovery" :> TRUE) @@ ("wireguard" :> TRUE),
    ("raw" :> TRUE) @@ ("transparent" :> TRUE),
    "raw" :> TRUE,
    ("control_port" :> "4700") @@ ("dashboard_port" :> "0"),
    ("control_port" :> "4701") @@ ("record" :> "session"),
    ("replay" :> "session") @@ ("discovery" :> TRUE) }

FileWishes ==
  { "upstream" :> "seestar.home",
    ("control_port" :> "4703") @@ ("discovery" :> TRUE),
    ("raw" :> FALSE) @@ ("record" :> "file session"),
    ("control_port" :> "4704") @@ ("transparent" :> TRUE) }

Environments ==
  { Nothing,
    ("control_port" :> "4702") @@ ("upstream" :> "v4"),
    ("tailscale" :> TRUE) @@ ("ntp_sync" :> TRUE) @@ ("record" :> "env session"),
    ("discovery" :> FALSE) @@ ("wireguard" :> TRUE) }

File(st, v, h, n) == [status |-> st, values |-> v, hooks |-> h, verbose |-> n]
Missing == File("missing", Nothing, <<>>, 0)
Broken  == File("invalid", Nothing, <<>>, 0)

FileLists ==
  { <<Missing, Missing>>, <<Broken, File("valid", "upstream" :> "v4", <<>>, 0)>> }
  \cup { <<File("valid", v, <<"b", "a", "b">>, 1), Missing>> : v \in FileWishes }

Setup(fs, c, e, h, v, f) ==
  [features |-> fs, cli |-> c, env |-> e, cli_hooks |-> h, cli_verbose |-> v,
   explicit |-> Len(f) = 1, files |-> f]

AllFeatures == {"ntp", "wireguard", "tailscale"}

(* The command line against the file, the environment against both, a      *)
(* build without features, and the files of --config.                      *)
MCSetups ==
  { Setup(AllFeatures, c, Nothing, <<"a">>, 0, f) : c \in Wishes, f \in FileLists }
  \cup { Setup(AllFeatures, Nothing, e, <<>>, 2, f) :
           e \in Environments, f \in FileLists }
  \cup { Setup({}, "control_port" :> "4701", e, <<>>, 0, <<Missing, Missing>>) :
           e \in Environments }
  \cup { Setup({"wireguard"}, Nothing, Nothing, <<>>, 2, <<f>>) :
           f \in {Broken, Missing, File("valid", "wireguard" :> TRUE, <<>>, 1)} }
=============================================================================
