------------------------------ MODULE MCRuntime ------------------------------
(***************************************************************************)
(* Instances of Runtime for TLC.                                           *)
(***************************************************************************)
EXTENDS Runtime, TLC

\* A broker started from a shell with an API key under an unusual spelling and
\* the switch to bare mode.
PollutedShell ==
    (Upper("APPDATA") :> "home") @@ (Lower("OPENAI_API_KEY") :> "key")
        @@ (Upper("CLAUDE_CODE_SIMPLE") :> "1")

\* Another profile, where another sign-in is found.
OtherProfile == {Upper("APPDATA") :> "elsewhere"}

\* A test takes the controls away, or asks for bare mode.
TestArguments == {{}, {"--bare"}}
=============================================================================
