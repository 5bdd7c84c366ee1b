----------------------------- MODULE MCCollector -----------------------------
(***************************************************************************)
(* Instances of Collector for TLC.                                         *)
(***************************************************************************)
EXTENDS Collector, TLC

\* The operator's shell holds a key, under its usual name and another one.
KeyedShell ==
    (Upper("APPDATA") :> "home") @@ (Upper("OPENAI_API_KEY") :> "key")
        @@ (Lower("ANTHROPIC_API_KEY") :> "key")
=============================================================================
