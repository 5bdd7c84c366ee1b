------------------------------ MODULE Collector ------------------------------
(***************************************************************************)
(* The conformance collector (scripts/collect-conformance-evidence.py): an *)
(* operator's script that runs the installed CLI several times and writes  *)
(* down what this version does.  While it runs the CLI may be updated, the *)
(* operator may sign in differently, a probe may hang and have started     *)
(* processes of its own, and the operator may interrupt the script.        *)
(***************************************************************************)
EXTENDS Preflight, Integers

CONSTANTS
    MaxBuild,    \* builds are released in this order, each with its version
    ParentEnv    \* the environment of the script

ASSUME CollectorAssumption == MaxBuild \in Nat \ {0}

Builds == 1..MaxBuild

VARIABLES
    provider,    \* which CLI is measured
    behaviour,   \* what each build of it does
    installed,   \* the build its name resolves to
    account,     \* how the operator is signed in
    step,        \* what the script does next
    met,         \* the builds this collection has looked at
    seen,        \* what it has measured
    tree,        \* the process of the probe and what that started
    docs         \* the evidence written for each version

worldVars == <<provider, behaviour, installed, account>>
vars == <<worldVars, step, met, seen, tree, docs>>

Ended == {"idle", "written", "failed", "untidy", "tidy", "interrupted"}

NoTree == [root |-> "none", helper |-> "none"]

NothingSeen ==
    [before |-> 0, version |-> 0, asked |-> "nobody", status |-> "none",
     keyed |-> "none", turn |-> 0, exit |-> "none"]

NoDoc == [kind |-> "none"]

\* A build whose print mode is bare by default; one whose status tells an API
\* key from a subscription; one that starts, refuses to start or fails to start
\* outside a trusted directory.
Behaviours ==
    IF provider = "claude"
    THEN [bareDefault : BOOLEAN]
    ELSE [distinguishes : BOOLEAN, trust : {"refuses", "accepts", "broken"}]

Init ==
    /\ provider \in Providers
    /\ behaviour \in [Builds -> Behaviours]
    /\ installed = 1 /\ account \in Accounts
    /\ step = "idle" /\ met = {} /\ seen = NothingSeen /\ tree = NoTree
    /\ docs = [b \in Builds |-> NoDoc]

-----------------------------------------------------------------------------
(* The world outside the script.                                           *)

Update ==
    /\ installed < MaxBuild
    /\ installed' = installed + 1
    /\ UNCHANGED <<provider, behaviour, account, step, met, seen, tree, docs>>

SignInDiffers ==
    /\ account' \in Accounts \ {account}
    /\ UNCHANGED <<provider, behaviour, installed, step, met, seen, tree, docs>>

\* What may become of a turn of the build that was started.  A bare one never
\* looks at the sign-in and completes only with a key in its environment; any
\* may fail for a reason of its own.
ProbeEnv == ChildEnv(ParentEnv, Extra(provider))

Exits(b) ==
    IF provider = "claude"
    THEN {"other"} \cup (IF ~b.bareDefault \/ NamesForbidden(ProbeEnv) THEN {"zero"} ELSE {})
    ELSE CASE b.trust = "refuses" -> {"refusal"}
           [] b.trust = "accepts" -> {"zero", "other"}
           [] b.trust = "broken" -> {"other"}

RootExits ==
    /\ tree.root = "live"
    /\ \E e \in Exits(behaviour[seen.turn]) : seen' = [seen EXCEPT !.exit = e]
    /\ tree' = [tree EXCEPT !.root = "gone"]
    /\ UNCHANGED <<worldVars, step, met, docs>>

\* A process that was killed, or the helper that has done its work, is gone.
ProcessEnds ==
    /\ \/ tree.root = "dying" /\ tree' = [tree EXCEPT !.root = "gone"]
       \/ tree.helper # "none" /\ tree' = [tree EXCEPT !.helper = "none"]
    /\ UNCHANGED <<worldVars, step, met, seen, docs>>

-----------------------------------------------------------------------------
(* What both collectors do.                                                *)

Goes(from, to) == step = from /\ step' = to

\* A command looks at the build its name resolves to when it is started.
Look == met' = met \cup {installed}

\* main() of a new collection; processes an earlier one left are not its own.
Begin ==
    /\ step \in Ended
    /\ step' = IF provider = "claude" THEN "hash" ELSE "version"
    /\ met' = {} /\ seen' = NothingSeen /\ tree' = NoTree
    /\ UNCHANGED <<worldVars, docs>>

\* The exit status of --version decides nothing; 0 is an output without a word.
AskVersion ==
    /\ Goes("version", "status")
    /\ Look
    /\ seen' \in {[seen EXCEPT !.version = v] : v \in {installed, 0}}
    /\ UNCHANGED <<worldVars, tree, docs>>

\* The turn that is measured, and whatever it starts itself.
StartProbe ==
    /\ Goes("probe", "probing")
    /\ Look
    /\ seen' = [seen EXCEPT !.turn = installed]
    /\ tree' \in [root : {"live"}, helper : {"none", "live"}]
    /\ UNCHANGED <<worldVars, docs>>

\* communicate() returns at the exit, and where stderr is read not before
\* everybody who holds it has ended.
Communicated ==
    tree.root = "gone" /\ (provider = "codex" => tree.helper = "none")

\* Codex: a failure that does not name the trusted directory is no evidence.
ProbeReturns ==
    /\ Communicated
    /\ IF provider = "claude" THEN Goes("probing", "hash again")
       ELSE Goes("probing", IF seen.exit = "other" THEN "failed" ELSE "describe")
    /\ UNCHANGED <<worldVars, met, seen, tree, docs>>

ProbeExpires ==
    /\ ~Communicated
    /\ Goes("probing", "killing")
    /\ UNCHANGED <<worldVars, met, seen, tree, docs>>

\* taskkill ended with zero: the process was there, and all of its tree is
\* going to end.
KillerEnds ==
    /\ Goes("killing", "reaping")
    /\ tree.root = "live"
    /\ tree' = [root |-> "dying", helper |-> IF tree.helper = "live" THEN "dying" ELSE "none"]
    /\ UNCHANGED <<worldVars, met, seen, docs>>

\* Mutant of KillerFails: the status of taskkill is not read.
KillerFailsUnread ==
    /\ Goes("killing", "reaping")
    /\ UNCHANGED <<worldVars, met, seen, tree, docs>>

\* It is not there, or ended with another status, as it does for a process that
\* has just exited: CollectionFailed.
KillerFails ==
    /\ Goes("killing", "untidy")
    /\ UNCHANGED <<worldVars, met, seen, tree, docs>>

\* The bounded wait after it.  Codex stops here, Claude goes on and records
\* nothing.
Reaped ==
    /\ tree.root = "gone"
    /\ Goes("reaping", IF provider = "claude" THEN "hash again" ELSE "tidy")
    /\ seen' = [seen EXCEPT !.exit = "timed out"]
    /\ UNCHANGED <<worldVars, met, tree, docs>>

ReapExpires ==
    /\ tree.root # "gone"
    /\ Goes("reaping", "untidy")
    /\ UNCHANGED <<worldVars, met, seen, tree, docs>>

Interrupt ==
    /\ step \notin Ended /\ step' = "interrupted"
    /\ UNCHANGED <<worldVars, met, seen, tree, docs>>

-----------------------------------------------------------------------------
(* collect_claude().                                                       *)

\* The executable is resolved and hashed, or it is not one that can be.
Hash ==
    /\ \/ Goes("hash", "failed") /\ UNCHANGED <<met, seen>>
       \/ Goes("hash", "version") /\ Look /\ seen' = [seen EXCEPT !.before = installed]
    /\ UNCHANGED <<worldVars, tree, docs>>

\* json.loads() keeps the last of a repeated field, so its name is no surprise.
Approved(a) ==
    a.exit = 0 /\ a.fields \in {"pinned", "repeated"} /\ NamesSubscription(a)

Asked(a) == [seen EXCEPT !.asked = account, !.status = a]

\* Mutant of AskStatus: the sign-in is asserted where it is written down.
AskStatusUnasserted ==
    /\ Goes("status", "probe")
    /\ \E a \in StatusAnswers("claude", account) : seen' = Asked(a)
    /\ Look
    /\ UNCHANGED <<worldVars, tree, docs>>

\* Before the turn: an account that is not approved ends the collection.
AskStatus ==
    /\ \/ /\ Goes("status", "probe")
          /\ \E a \in StatusAnswers("claude", account) : Approved(a) /\ seen' = Asked(a)
       \/ Goes("status", "failed") /\ seen' = seen
    /\ Look
    /\ UNCHANGED <<worldVars, tree, docs>>

\* Mutant of HashAgain: both digests are written down and not compared.
HashAgainUncompared ==
    /\ Goes("hash again", "describe")
    /\ Look
    /\ UNCHANGED <<worldVars, seen, tree, docs>>

HashAgain ==
    /\ Goes("hash again", IF installed = seen.before THEN "describe" ELSE "failed")
    /\ Look
    /\ UNCHANGED <<worldVars, seen, tree, docs>>

ClaudeDescribes == seen.exit = "zero" /\ Approved(seen.status)

CollectClaude == provider = "claude" /\ (Hash \/ AskStatus \/ HashAgain)

-----------------------------------------------------------------------------
(* collect_codex().                                                        *)

\* A build that tells the two apart says so when it finds a key.  A command may
\* also fail.
LoginStatus(key) ==
    LET told == key /\ behaviour[installed].distinguishes
        a == PinnedCodexStatus(IF told THEN "api key" ELSE account)
    IN {a, [a EXCEPT !.exit = 1]}

AskClean ==
    /\ Goes("status", "keyed")
    /\ \E a \in LoginStatus(FALSE) : seen' = [seen EXCEPT !.status = a]
    /\ Look
    /\ UNCHANGED <<worldVars, tree, docs>>

\* The same command with a key that is no key in its environment.
AskKeyed ==
    /\ Goes("keyed", "probe")
    /\ \E a \in LoginStatus(TRUE) : seen' = [seen EXCEPT !.keyed = a]
    /\ Look
    /\ UNCHANGED <<worldVars, tree, docs>>

CodexDescribes == seen.status = seen.keyed

CollectCodex == provider = "codex" /\ (AskClean \/ AskKeyed)

-----------------------------------------------------------------------------
(* The document.                                                           *)

Describe ==
    /\ step = "describe"
    /\ step' = IF provider = "claude"
               THEN IF ClaudeDescribes THEN "write"
                    ELSE IF seen.exit = "timed out" THEN "tidy" ELSE "failed"
               ELSE IF CodexDescribes THEN "write" ELSE "failed"
    /\ UNCHANGED <<worldVars, met, seen, tree, docs>>

\* What the document says: for Claude that a bare turn is not the default, for
\* Codex how it was signed in and whether it starts anywhere; that its status
\* cannot tell a key follows for every Codex document.  `met` is not written.
Document ==
    IF provider = "claude" THEN [kind |-> "complete", met |-> met]
    ELSE [kind |-> "complete", met |-> met,
          signedIn |-> DecideCodexAuth(seen.status),
          trust |-> IF seen.exit = "zero" THEN "accepts" ELSE "refuses"]

\* The file is named after the version and emptied before it is filled.
OpenDoc ==
    /\ IF seen.version = 0
       THEN Goes("write", "failed") /\ docs' = docs
       ELSE Goes("write", "writing") /\ docs' = [docs EXCEPT ![seen.version] = [kind |-> "empty"]]
    /\ UNCHANGED <<worldVars, met, seen, tree>>

CloseDoc ==
    /\ Goes("writing", "written")
    /\ docs' = [docs EXCEPT ![seen.version] = Document]
    /\ UNCHANGED <<worldVars, met, seen, tree>>

-----------------------------------------------------------------------------

World == Update \/ SignInDiffers \/ RootExits \/ ProcessEnds

Terminate == KillerEnds \/ KillerFails \/ Reaped \/ ReapExpires

Collect ==
    \/ Begin \/ AskVersion \/ CollectClaude \/ CollectCodex
    \/ StartProbe \/ ProbeReturns \/ ProbeExpires \/ Terminate
    \/ Describe \/ OpenDoc \/ CloseDoc

Next == World \/ Collect \/ Interrupt

Spec == Init /\ [][Next]_vars

-----------------------------------------------------------------------------
(* Properties.                                                             *)

\* What a Claude document says of bare mode is so of the build it names, also
\* when an update arrives at any moment of the collection (the two digests).  Of
\* a Codex document, where nothing is hashed, only if its collection met no other
\* build; and what it says of API keys follows only from a sign-in that was a
\* subscription.
EvidenceIsTrue ==
    \A b \in Builds : docs[b].kind = "complete" =>
        IF provider = "claude" THEN ~behaviour[b].bareDefault
        ELSE docs[b].met = {b} =>
                /\ docs[b].trust = behaviour[b].trust
                /\ docs[b].signedIn => ~behaviour[b].distinguishes

\* No turn is started before the sign-in was judged, on the account of that
\* moment, to be the subscription's, as long as its status names each field once
\* (assert_approved_subscription, called before the turn).  The account may be
\* another by the time of the turn: nothing holds the sign-in between the two.
TurnsFollowApproval ==
    provider = "claude" /\ seen.turn # 0 =>
        seen.asked = "subscription" \/ seen.status.fields = "repeated"

\* A probe is reported as timed out only when nothing it started goes on
\* (terminate_process_tree, issue #62).
TimeoutIsTidy ==
    seen.exit = "timed out" => tree.root = "gone" /\ tree.helper # "live"
=============================================================================
