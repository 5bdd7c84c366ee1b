------------------------------ MODULE Preflight ------------------------------
(***************************************************************************)
(* What a preflight decides and in which environment it asks               *)
(* (whole_life/runtime/preflight.py, childenv.py and the version table of  *)
(* launch.py).  Operators only: an answer of a CLI goes in, a decision     *)
(* comes out, and nothing else of the answer is kept.                      *)
(***************************************************************************)

Providers == {"claude", "codex"}

-----------------------------------------------------------------------------
(* The child environment: a function from spelled names to values.  Windows *)
(* ignores the spelling of a name, a Python mapping does not.              *)

Upper(n) == <<n, "upper">>
Lower(n) == <<n, "lower">>

\* What upper-casing the name yields.
Uppercased(spelled) == spelled[1]

Forbidden ==
    {"ANTHROPIC_API_KEY", "ANTHROPIC_AUTH_TOKEN", "CLAUDE_CODE_OAUTH_TOKEN",
     "OPENAI_API_KEY", "CLAUDE_CODE_SIMPLE"}

\* Those of the inherited names that say where a sign-in is found.
Inherited == {"PATH", "USERPROFILE", "APPDATA"}

Overlaid(env, extra) ==
    [n \in DOMAIN env \cup DOMAIN extra |->
        IF n \in DOMAIN extra THEN extra[n] ELSE env[n]]

\* The names listed, spelled as listed, and what the adapter adds.
ChildEnv(parent, extra) ==
    Overlaid([n \in {Upper(i) : i \in Inherited} \cap DOMAIN parent |-> parent[n]], extra)

\* A name is forbidden however it is spelled.
NamesForbidden(env) == \E n \in DOMAIN env : Uppercased(n) \in Forbidden

NothingExtra == [n \in {} |-> ""]

\* The Codex adapter decides the directory of the sign-in itself.
Extra(provider) ==
    IF provider = "codex" THEN [n \in {Upper("CODEX_HOME")} |-> "decided"]
                          ELSE NothingExtra

-----------------------------------------------------------------------------
(* The version.  An answer is the exit status and the version its output   *)
(* names, "none" when the output has not the one shape that is read.       *)

Record(version) == [cliVersion |-> version, allowlisted |-> TRUE, bareDefault |-> FALSE]

NoRecord == [cliVersion |-> "none", allowlisted |-> FALSE, bareDefault |-> FALSE]

SupportedVersions ==
    [p \in Providers |->
        LET pinned == IF p = "claude" THEN "2.1.240" ELSE "0.149.0"
        IN [v \in {pinned} |-> Record(v)]]

\* The record of the table, or none: the launch is refused.
ConformanceFor(p, answer) ==
    IF answer.exit = 0 /\ answer.version \in DOMAIN SupportedVersions[p]
    THEN SupportedVersions[p][answer.version]
    ELSE NoRecord

-----------------------------------------------------------------------------
(* The sign-in.                                                            *)

\* `fields` compares the names in the answer with the pinned ones; a value is
\* the one looked for, a near miss of it, or another.
NamesSubscription(a) ==
    /\ a.loggedIn = "true"
    /\ a.authMethod = "claude.ai"
    /\ a.apiProvider = "firstParty"
    /\ a.subscriptionType = "named"

\* Mutant of DecideClaudeAuth: a repeated field keeps its last value.
DecideClaudeAuthLastWins(a) ==
    a.exit = 0 /\ a.fields \in {"pinned", "repeated"} /\ NamesSubscription(a)

DecideClaudeAuth(a) ==
    a.exit = 0 /\ a.fields = "pinned" /\ NamesSubscription(a)

\* The decision of codex is on stderr, and stdout is not even blank.
DecideCodexAuth(a) ==
    a.exit = 0 /\ a.stdout = "empty" /\ a.stderr = "Logged in using ChatGPT"

DecideAuth(p, a) == IF p = "claude" THEN DecideClaudeAuth(a) ELSE DecideCodexAuth(a)

-----------------------------------------------------------------------------
(* What the CLIs answer.  The pinned build says what is the case.  A build *)
(* whose answer has another shape may mean anything by the values in it.   *)

Accounts == {"subscription", "api key", "third party", "no plan", "signed out"}

PinnedClaudeStatus(account) ==
    [exit |-> 0,
     fields |-> "pinned",
     loggedIn |-> IF account = "signed out" THEN "false" ELSE "true",
     authMethod |-> IF account = "api key" THEN "api_key" ELSE "claude.ai",
     apiProvider |-> IF account = "third party" THEN "bedrock" ELSE "firstParty",
     subscriptionType |-> IF account = "no plan" THEN "empty" ELSE "named"]

ClaudeShapes(a) ==
    {[a EXCEPT !.fields = f] : f \in {"fewer", "more", "repeated", "not an object"}}
    \cup {[a EXCEPT !.exit = 1], [a EXCEPT !.loggedIn = "truthy"],
          [a EXCEPT !.subscriptionType = "not a string"]}

PinnedCodexStatus(account) ==
    [exit |-> IF account = "signed out" THEN 1 ELSE 0,
     stdout |-> "empty",
     stderr |-> IF account = "subscription" THEN "Logged in using ChatGPT"
                                            ELSE "something else"]

CodexShapes(a) ==
    {[a EXCEPT !.exit = 1]} \cup {[a EXCEPT !.stdout = s] : s \in {"blank", "text"}}

\* Every answer a CLI may give to an operator with this account.
StatusAnswers(p, account) ==
    IF p = "claude"
    THEN {PinnedClaudeStatus(account)}
            \cup UNION {ClaudeShapes(PinnedClaudeStatus(a)) : a \in Accounts}
    ELSE {PinnedCodexStatus(account)}
            \cup UNION {CodexShapes(PinnedCodexStatus(a)) : a \in Accounts}

\* The accounts a preflight may take for a subscription.
AcceptedAccounts(p) ==
    {account \in Accounts : \E a \in StatusAnswers(p, account) : DecideAuth(p, a)}

\* The credential a CLI really uses: a forbidden variable outranks the sign-in
\* and no status command tells.
UsesSubscription(env, account) == ~NamesForbidden(env) /\ account = "subscription"
=============================================================================
