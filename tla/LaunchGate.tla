------------------------------ MODULE LaunchGate ------------------------------
(***************************************************************************)
(* The plan of a launch: how an adapter assembles it, which plans          *)
(* enforce_launch_safety refuses, and what the journal says of it          *)
(* (whole_life/runtime/launch.py, assemble_launch_plan of the adapters and *)
(* the enforcement table of delegation.py).                                *)
(***************************************************************************)
EXTENDS Preflight, Integers

CONSTANTS
    Sessions,          \* identifiers a provider issues
    NoSession,         \* no identifier at all
    MalformedSession   \* what no provider issues: blank, quotes, a percent sign

ASSUME SessionAssumption == {NoSession, MalformedSession} \cap Sessions = {}

-----------------------------------------------------------------------------
(* Delegation.                                                             *)

DelegationAxes == {"concurrency", "total starts", "depth"}

\* Nothing Codex writes can be counted; Claude announces what it does.
ReportedEnforcement ==
    [p \in Providers |->
        [axis \in DelegationAxes |-> IF p = "claude" THEN "cooperative" ELSE "unsupported"]]

-----------------------------------------------------------------------------
(* Requests.                                                               *)

\* What a broker may ask for: a turn of its own or the continuation of a
\* session.
Requests ==
    [mode : {"new"}, session : {NoSession}, named : {TRUE}, budget : {0}, limit : {1}]
    \cup [mode : {"resume"}, session : Sessions, named : {TRUE}, budget : {0}, limit : {1}]

\* One of its fields gone wrong.
Spoiled(r) ==
    {[r EXCEPT !.session = s] : s \in Sessions \cup {NoSession, MalformedSession}}
    \cup {[r EXCEPT !.named = FALSE], [r EXCEPT !.budget = -1], [r EXCEPT !.limit = 0]}

AllRequests == UNION {{r} \cup Spoiled(r) : r \in Requests}

-----------------------------------------------------------------------------
(* Plans.                                                                  *)

\* What keeps a turn from writing: the arguments every turn is given.
ReadOnlyControls ==
    [p \in Providers |->
        IF p = "claude"
        THEN {"--safe-mode", "--strict-mcp-config", "--tools", "--permission-mode"}
        ELSE {"--sandbox", "--ignore-user-config", "--ignore-rules"}]

\* Mutant of TurnArgs: a resumed turn is the provider's resume and no more.
TurnArgsResumeBare(p, r) ==
    IF r.mode = "resume" THEN {"resume"} ELSE ReadOnlyControls[p]

\* Resuming adds to the controls and replaces none.
TurnArgs(p, r) ==
    ReadOnlyControls[p] \cup (IF r.mode = "resume" THEN {"resume"} ELSE {})

\* `adapter` holds what the constructor was given and the environment it built.
AssemblePlan(adapter, conformance, r) ==
    [provider |-> adapter.provider,
     args |-> TurnArgs(adapter.provider, r),
     env |-> adapter.env,
     directory |-> adapter.directory,
     conformance |-> conformance,
     enforcement |-> ReportedEnforcement[adapter.provider],
     request |-> r]

-----------------------------------------------------------------------------
(* enforce_launch_safety.                                                  *)

MeasuredEnforcement(plan) == ReportedEnforcement[plan.provider]

\* The row of the table is complete, holds every limit, and is the one the
\* plan reports.
DelegationUnsupported(plan) ==
    \/ DOMAIN MeasuredEnforcement(plan) # DelegationAxes
    \/ \E axis \in DelegationAxes : MeasuredEnforcement(plan)[axis] = "unsupported"
    \/ plan.enforcement # MeasuredEnforcement(plan)

BareMode(plan) == plan.conformance.bareDefault \/ "--bare" \in plan.args

Unmeasured(plan) ==
    LET table == SupportedVersions[plan.provider]
        version == plan.conformance.cliVersion
    IN version \notin DOMAIN table \/ table[version] # plan.conformance

SessionMismatch(r) ==
    \/ r.mode = "resume" /\ r.session \notin Sessions
    \/ r.mode = "new" /\ r.session # NoSession

RequestInvalid(r) == ~r.named \/ r.budget < 0 \/ r.limit <= 0

\* Any one of them refuses the plan.  Which of several is reported follows
\* their order in the code; nothing but the wording depends on it.
Refused(plan) ==
    \/ BareMode(plan)
    \/ \E n \in DOMAIN plan.env : Uppercased(n) = "CLAUDE_CODE_SIMPLE"
    \/ plan.directory # "absolute"
    \/ Unmeasured(plan)
    \/ DelegationUnsupported(plan)
    \/ SessionMismatch(plan.request)
    \/ RequestInvalid(plan.request)

-----------------------------------------------------------------------------
(* What is kept of a launch.                                               *)

DecideLaunch(plan) ==
    [provider |-> plan.provider,
     args |-> plan.args,
     directory |-> plan.directory,
     mode |-> plan.request.mode,
     session |-> plan.request.session,
     cliVersion |-> plan.conformance.cliVersion]

\* Mutant of Key: a turn that resumes nothing is registered as well.
KeyOfAny(plan) == {plan.request.session}

\* The pair that must have one run at a time; none for a turn that resumes
\* nothing.  A registry is one adapter's here, so the provider is not named.
Key(plan) == {plan.request.session} \cap Sessions
=============================================================================
