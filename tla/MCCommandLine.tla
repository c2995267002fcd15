---------------------------- MODULE MCCommandLine ----------------------------
(***************************************************************************)
(* A grammar of five rules, and the command lines to run on it.  `both`    *)
(* matches two texts and `one` one of them, `dead` none, `high` another    *)
(* than the one drawn from it, and `prose` is refused, as `unknown` is,    *)
(* which is no rule at all.                                                *)
(***************************************************************************)
EXTENDS CommandLine, TLC

MCLang == ("both" :> {"x", "y"}) @@ ("one" :> {"y"}) @@ ("dead" :> {}) @@ ("prose" :> {"x"})
            @@ ("high" :> {"x"})

MCGenerated == [r \in DOMAIN MCLang |-> IF r = "high" THEN {"y"} ELSE MCLang[r]]

Names == {"both", "one", "dead", "prose", "high", "unknown"}

Sound == {"sound"}

MCCommands ==
  [name : {"check", "rules"}, grammar : {"sound", "unreadable", "unparsable", "unsound"}]
    \cup [name : {"match"}, grammar : Sound, rule : Names, source : {"none", "dir"}]
    \cup [name : {"match"}, grammar : {"unsound"}, rule : {"one"}, source : {"dir"}]
    \cup [name : {"match"}, grammar : Sound, rule : Names, source : {"literal"}, text : {"x", "y"}]
    \cup [name : {"match"}, grammar : Sound, rule : {"one"}, source : {"file"}, file : {0}]
    \cup [name : {"gen"}, grammar : Sound, rule : Names, count : 0 .. 2, out : {TRUE},
          max_output_len : {None, 0}, max_steps : {0}]
    \cup [name : {"gen"}, grammar : Sound, rule : {"both", "dead"}, count : {1}, out : {FALSE},
          max_output_len : {0}, max_steps : {7}]
=============================================================================
