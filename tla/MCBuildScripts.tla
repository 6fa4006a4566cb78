---------------------------- MODULE MCBuildScripts ----------------------------
(* An instance of BuildScripts: two crates. *)
EXTENDS BuildScripts, TLC

FragmentNames == {"a.json", "b.json"}
MCNames == OutputNames \union FragmentNames
MCDocs == SUBSET (Processes \X (1..MaxBuilds))

TwoFrag == ("a" :> "a.json") @@ ("b" :> "b.json")
=============================================================================
