------------------------------- MODULE Runtime -------------------------------
(***************************************************************************)
(* One provider adapter: preflight, start_turn through the launch gate and *)
(* the spawner, the runs it started, and close()                           *)
(* (whole_life/runtime/claude.py, codex.py, launch.py, spawn.py and        *)
(* close_all_runs in observe.py).                                          *)
(*                                                                         *)
(* What happens inside a run is RunObserver's.  Here a run is its child    *)
(* and its drain tasks; a shutdown of it takes one step, in the ways       *)
(* RunObserver says it may end.                                            *)
(***************************************************************************)
EXTENDS LaunchGate, FiniteSets

CONSTANTS
    FirstEnv,    \* the environment the broker's process was started in
    ParentEnvs,  \* what it may become
    Overrides,   \* the arguments a test may put in the place of a turn's own
    Turns,       \* the turns the caller may start, each once
    Closers      \* tasks that call close() once

ASSUME RuntimeAssumption == IsFiniteSet(Turns)

VARIABLES
    adapter,       \* what the constructor was given and built, for good
    parentEnv,     \* the environment of the broker's process
    preflight,     \* the latest preflight: "none", "version", "auth", or its end
    found,         \* the record a preflight under way has found
    conformance,   \* the record the adapter holds
    asked,         \* the environment and the account of the latest sign-in
                   \* that was accepted
    stage,         \* how far start_turn is with each turn
    plan,          \* what each turn's process is started with
    child,         \* the process of each turn
    sessions,      \* ActiveNativeSessions
    journal,       \* the launches recorded
    runs,          \* the turns whose handle was issued
    drains,        \* the drain tasks of each run
    closing,       \* how far each close() is
    snapshot,      \* the runs it shuts down
    liveAtClose,   \* those of them whose child was alive when it began
    waiting,       \* those whose shutdown has not returned
    report

adapterVars == <<adapter, parentEnv>>
preflightVars == <<adapterVars, preflight, found, conformance, asked>>
launchVars == <<stage, plan, sessions, journal, runs>>
closeVars == <<closing, snapshot, liveAtClose, waiting, report>>
vars == <<preflightVars, launchVars, child, drains, closeVars>>

NothingLeft == [children |-> 0, tasks |-> 0]

\* The plan of a turn that has none.
NoPlan == [request |-> [session |-> NoSession]]

Directories == {"undecided", "relative", "absolute"}

\* turn_args_override: left alone, or set by a test to one vector.
Seams == {{}} \cup {{args} : args \in Overrides}

\* The constructor builds the environment and refuses one with a forbidden
\* name in it.  A test sets its override before the first turn.
Constructed ==
    /\ \E p \in Providers, d \in Directories, seam \in Seams :
        adapter = [provider |-> p, directory |-> d, env |-> ChildEnv(parentEnv, Extra(p)),
                   override |-> seam]
    /\ ~NamesForbidden(adapter.env)

Init ==
    /\ parentEnv = FirstEnv
    /\ Constructed
    /\ preflight = "none" /\ found = NoRecord /\ conformance = NoRecord
    /\ asked = [env |-> adapter.env, account |-> "signed out"]
    /\ plan = [t \in Turns |-> NoPlan]
    /\ stage = [t \in Turns |-> "idle"]
    /\ child = [t \in Turns |-> "none"]
    /\ sessions = {} /\ journal = {} /\ runs = {}
    /\ drains = [t \in Turns |-> "none"]
    /\ closing = [k \in Closers |-> "idle"]
    /\ snapshot = [k \in Closers |-> {}]
    /\ liveAtClose = [k \in Closers |-> {}]
    /\ waiting = [k \in Closers |-> {}]
    /\ report = [k \in Closers |-> NothingLeft]

-----------------------------------------------------------------------------
(* The broker's process.                                                   *)

\* Somebody sets a variable; the adapter has built its environment already.
ParentChanges ==
    /\ parentEnv' \in ParentEnvs \ {parentEnv}
    /\ UNCHANGED <<adapter, preflight, found, conformance, asked, launchVars, child,
                   drains, closeVars>>

-----------------------------------------------------------------------------
(* preflight().                                                            *)

\* Mutant of Disarmed: the record is only overwritten on success.
DisarmedNever == conformance

\* The Claude adapter clears its record before it asks; Codex does not.
Disarmed == IF adapter.provider = "codex" THEN conformance ELSE NoRecord

BeginPreflight ==
    /\ preflight \in {"none", "passed", "refused"}
    /\ preflight' = "version"
    /\ conformance' = Disarmed
    /\ UNCHANGED <<adapterVars, found, asked, launchVars, child, drains, closeVars>>

\* The versions a CLI may name: one that was measured and one that was not.
VersionAnswers == [exit : {0, 1}, version : {"none", "2.1.240", "0.149.0", "9.9.9"}]

Conformances ==
    {ConformanceFor(adapter.provider, answer) : answer \in VersionAnswers} \ {NoRecord}

\* The version is on the pinned list; the sign-in is asked for next.
VersionFound ==
    /\ preflight = "version"
    /\ preflight' = "auth"
    /\ found' \in Conformances
    /\ UNCHANGED <<adapterVars, conformance, asked, launchVars, child, drains,
                   closeVars>>

\* The answer to the sign-in is accepted, whatever account it came from.
SignedIn ==
    /\ preflight = "auth"
    /\ preflight' = "passed"
    /\ conformance' = found
    /\ found' = NoRecord
    /\ \E account \in AcceptedAccounts(adapter.provider) :
        asked' = [env |-> adapter.env, account |-> account]
    /\ UNCHANGED <<adapterVars, launchVars, child, drains, closeVars>>

\* A version, a sign-in or the command itself that is not what was pinned.
PreflightRefused ==
    /\ preflight \in {"version", "auth"}
    /\ preflight' = "refused"
    /\ found' = NoRecord
    /\ UNCHANGED <<adapterVars, conformance, asked, launchVars, child, drains,
                   closeVars>>

-----------------------------------------------------------------------------
(* start_turn().                                                           *)

\* Mutant of PlanFor: the environment is built anew for every launch.
PlanForToday(r) ==
    [AssemblePlan(adapter, conformance, r)
        EXCEPT !.env = ChildEnv(parentEnv, Extra(adapter.provider))]

PlanFor(r) == AssemblePlan(adapter, conformance, r)

\* The plan start_turn hands to launch(): the assembled one, or the assembled
\* one with the arguments of the test seam.
HandedOver(r) ==
    IF adapter.override = {}
    THEN {PlanFor(r)}
    ELSE {[PlanFor(r) EXCEPT !.args = o] : o \in adapter.override}

Submitted == UNION {HandedOver(r) : r \in AllRequests}

Passing == IF conformance = NoRecord THEN {} ELSE {p \in Submitted : ~Refused(p)}

Advance(t, from, to) == stage[t] = from /\ stage' = [stage EXCEPT ![t] = to]

\* Assembly refuses without a record, the gate refuses an unsafe plan: nothing
\* is held.
GateRefuses(t) ==
    /\ Advance(t, "idle", "refused")
    /\ Passing # Submitted
    /\ UNCHANGED <<preflightVars, plan, child, sessions, journal, runs, drains,
                   closeVars>>

Taken(p) == Key(p) \cap sessions # {}

\* Mutant of SessionRefuses: the reservation is taken inside the block that
\* hands it back on any error.
SessionRefusesAndReleases(t) ==
    /\ Advance(t, "idle", "refused")
    /\ \E p \in Passing : Taken(p) /\ sessions' = sessions \ Key(p)
    /\ UNCHANGED <<preflightVars, plan, child, journal, runs, drains, closeVars>>

\* The pair already has a run: ConcurrentResumeRejected, before the spawner.
SessionRefuses(t) ==
    /\ Advance(t, "idle", "refused")
    /\ \E p \in Passing : Taken(p)
    /\ UNCHANGED <<preflightVars, plan, child, sessions, journal, runs, drains,
                   closeVars>>

\* Mutant of Reserve: the pair is looked up and not yet entered.
ReserveUnrecorded(t) ==
    /\ Advance(t, "idle", "creating")
    /\ \E p \in Passing : ~Taken(p) /\ plan' = [plan EXCEPT ![t] = p]
    /\ UNCHANGED <<preflightVars, child, sessions, journal, runs, drains,
                   closeVars>>

\* Assembly, gate, reservation and the call of the spawner are one step:
\* nothing is awaited between them.
Reserve(t) ==
    /\ Advance(t, "idle", "creating")
    /\ \E p \in Passing :
        /\ ~Taken(p)
        /\ plan' = [plan EXCEPT ![t] = p]
        /\ sessions' = sessions \cup Key(p)
    /\ UNCHANGED <<preflightVars, child, journal, runs, drains, closeVars>>

\* Whatever the spawner raised, the reservation is handed back.
Release(t) == sessions \ Key(plan[t])

\* The executable cannot be run, or the directory is not one.
CreateFails(t) ==
    /\ Advance(t, "creating", "failed")
    /\ sessions' = Release(t)
    /\ UNCHANGED <<preflightVars, plan, child, journal, runs, drains, closeVars>>

\* From here on a process exists, and only the spawner knows of it.
CreateChild(t) ==
    /\ Advance(t, "creating", "handing")
    /\ child' = [child EXCEPT ![t] = "live"]
    /\ UNCHANGED <<preflightVars, plan, sessions, journal, runs, drains, closeVars>>

Entry(t, p) == [turn |-> t, decision |-> DecideLaunch(p)]

\* Mutant of HandOver: what is recorded is assembled once more.
HandOverReassembled(t) ==
    /\ Advance(t, "handing", "started")
    /\ journal' = journal \cup {Entry(t, PlanFor(plan[t].request))}
    /\ runs' = runs \cup {t}
    /\ UNCHANGED <<preflightVars, plan, child, sessions, drains, closeVars>>

\* The prompt is written, or its reader has left: the handle goes through
\* launch and start_turn without another await.
HandOver(t) ==
    /\ Advance(t, "handing", "started")
    /\ journal' = journal \cup {Entry(t, plan[t])}
    /\ runs' = runs \cup {t}
    /\ UNCHANGED <<preflightVars, plan, child, sessions, drains, closeVars>>

\* Another I/O error, or the caller cancels start_turn while the child does
\* not read.
HandOverFails(t) ==
    /\ Advance(t, "handing", "cleaning")
    /\ UNCHANGED <<preflightVars, plan, child, sessions, journal, runs, drains,
                   closeVars>>

\* The spawner ends the tree and raises, whatever came of it: the result of
\* the bounded wait is not inspected, and taskkill itself may not start.
CleanupEnds(t) ==
    /\ Advance(t, "cleaning", "failed")
    /\ sessions' = Release(t)
    /\ UNCHANGED <<preflightVars, plan, child, journal, runs, drains, closeVars>>

-----------------------------------------------------------------------------
(* The runs.                                                               *)

HasChild(t) == child[t] = "live"

ChildExits(t) ==
    /\ child[t] = "live"
    /\ child' = [child EXCEPT ![t] = "reaped"]
    /\ UNCHANGED <<preflightVars, launchVars, drains, closeVars>>

StartEvents(t) ==
    /\ t \in runs /\ drains[t] = "none"
    /\ drains' = [drains EXCEPT ![t] = "pending"]
    /\ UNCHANGED <<preflightVars, launchVars, child, closeVars>>

\* The streams ended, or the caller of events() gave up.
DrainsEnd(t) ==
    /\ drains[t] = "pending"
    /\ drains' = [drains EXCEPT ![t] = "over"]
    /\ UNCHANGED <<preflightVars, launchVars, child, closeVars>>

-----------------------------------------------------------------------------
(* close().                                                                *)

\* The runs are copied before the first await: a run registered later is not
\* part of this close.
BeginClose(k) ==
    /\ closing[k] = "idle"
    /\ liveAtClose' = [liveAtClose EXCEPT ![k] = {t \in runs : HasChild(t)}]
    /\ closing' = [closing EXCEPT ![k] = IF runs = {} THEN "done" ELSE "closing"]
    /\ snapshot' = [snapshot EXCEPT ![k] = runs]
    /\ waiting' = [waiting EXCEPT ![k] = runs]
    /\ UNCHANGED <<preflightVars, launchVars, child, drains, report>>

\* shutdown() of one run returns: the child was reaped, or the bounded waits
\* are over and it was not.  No drain task survives it either way.
ShutdownReturns(k, t) ==
    /\ t \in waiting[k]
    /\ waiting' = [waiting EXCEPT ![k] = @ \ {t}]
    /\ drains' = [drains EXCEPT ![t] = IF @ = "pending" THEN "over" ELSE @]
    /\ UNCHANGED <<preflightVars, launchVars, child, closing, snapshot, liveAtClose,
                   report>>

\* It raises, because taskkill was found and could not be started; gather()
\* collects the exception, and child and tasks are as they were.  The child was
\* alive when the shutdown looked and may have ended since.
ShutdownRaises(k, t) ==
    /\ t \in waiting[k] \cap liveAtClose[k]
    /\ waiting' = [waiting EXCEPT ![k] = @ \ {t}]
    /\ UNCHANGED <<preflightVars, launchVars, child, drains, closing, snapshot,
                   liveAtClose, report>>

\* Mutant of CountLeft: zero is claimed instead of counted.
CountNothing(observers) == NothingLeft

\* What is left is counted once every shutdown has returned, of the runs this
\* close found and of no other.
CountLeft(observers) ==
    [children |-> Cardinality({t \in observers : HasChild(t)}),
     tasks |-> 2 * Cardinality({t \in observers : drains[t] = "pending"})]

\* Mutant of Report: close() returns once nothing is left.
ReportOnceEmpty(k) ==
    /\ closing[k] = "closing" /\ waiting[k] = {}
    /\ CountLeft(snapshot[k]).children = 0
    /\ closing' = [closing EXCEPT ![k] = "done"]
    /\ report' = [report EXCEPT ![k] = CountLeft(snapshot[k])]
    /\ UNCHANGED <<preflightVars, launchVars, child, drains, snapshot, liveAtClose,
                   waiting>>

Report(k) ==
    /\ closing[k] = "closing" /\ waiting[k] = {}
    /\ closing' = [closing EXCEPT ![k] = "done"]
    /\ report' = [report EXCEPT ![k] = CountLeft(snapshot[k])]
    /\ UNCHANGED <<preflightVars, launchVars, child, drains, snapshot, liveAtClose,
                   waiting>>

-----------------------------------------------------------------------------

PreflightProceeds == BeginPreflight \/ VersionFound \/ SignedIn \/ PreflightRefused

StartTurn(t) ==
    \/ GateRefuses(t) \/ SessionRefuses(t) \/ Reserve(t)
    \/ CreateFails(t) \/ CreateChild(t)
    \/ HandOver(t) \/ HandOverFails(t) \/ CleanupEnds(t)

Run(t) ==
    ChildExits(t) \/ StartEvents(t) \/ DrainsEnd(t)

CloseProceeds(k) ==
    \/ \E t \in Turns : ShutdownReturns(k, t) \/ ShutdownRaises(k, t)
    \/ Report(k)

Next ==
    \/ ParentChanges
    \/ PreflightProceeds
    \/ \E t \in Turns : StartTurn(t) \/ Run(t)
    \/ \E k \in Closers : BeginClose(k) \/ CloseProceeds(k)

Spec == Init /\ [][Next]_vars

\* Every shutdown returns (RunObserver, StopReturns).  Nothing makes a child
\* read its prompt or end.
Fairness == \A k \in Closers : WF_vars(CloseProceeds(k))

FairSpec == Spec /\ Fairness

-----------------------------------------------------------------------------
(* Properties.                                                             *)

Records == {Record("2.1.240"), Record("0.149.0")}
ChildEnvs == {ChildEnv(FirstEnv, Extra(p)) : p \in Providers}
Arguments ==
    {"resume"} \cup (UNION {ReadOnlyControls[p] : p \in Providers}) \cup (UNION Overrides)

\* What a plan of this adapter is, and what the journal keeps of one.
Plans ==
    [provider : Providers, args : SUBSET Arguments, env : ChildEnvs,
     directory : Directories, conformance : Records,
     enforcement : {ReportedEnforcement[p] : p \in Providers}, request : AllRequests]
Decisions ==
    [provider : Providers, args : SUBSET Arguments, directory : Directories,
     mode : {"new", "resume"}, session : Sessions \cup {NoSession, MalformedSession},
     cliVersion : {"2.1.240", "0.149.0"}]

\* The types of the variables: what is reserved is a session of the provider, a
\* turn past the gate has a complete plan, and a close shuts down runs it found
\* registered.
TypeOK ==
    /\ adapter \in [provider : Providers, directory : Directories, env : ChildEnvs,
                    override : Seams]
    /\ parentEnv \in {FirstEnv} \cup ParentEnvs
    /\ preflight \in {"none", "version", "auth", "passed", "refused"}
    /\ found \in {NoRecord} \cup Records
    /\ conformance \in {NoRecord} \cup Records
    /\ asked \in [env : ChildEnvs, account : Accounts]
    /\ stage \in [Turns -> {"idle", "refused", "creating", "handing", "cleaning",
                            "failed", "started"}]
    /\ plan \in [Turns -> {NoPlan} \cup Plans]
    /\ \A t \in Turns : stage[t] \in {"idle", "refused"} \/ plan[t] \in Plans
    /\ child \in [Turns -> {"none", "live", "reaped"}]
    /\ sessions \subseteq Sessions
    /\ journal \subseteq [turn : Turns, decision : Decisions]
    /\ runs \subseteq Turns
    /\ drains \in [Turns -> {"none", "pending", "over"}]
    /\ closing \in [Closers -> {"idle", "closing", "done"}]
    /\ snapshot \in [Closers -> SUBSET runs]
    /\ liveAtClose \in [Closers -> SUBSET runs]
    /\ waiting \in [Closers -> SUBSET runs]
    /\ report \in [Closers -> [children : Nat, tasks : Nat]]

\* A turn whose start_turn holds its reservation.
InFlight == {t \in Turns : stage[t] \in {"creating", "handing", "cleaning", "started"}}

\* The registry holds exactly the sessions of the turns that passed the gate
\* and whose launch did not fail, also when one launch fails or is refused
\* while another holds the same session (launch(), reserve and release).
RegistryIsExact == sessions = UNION {Key(plan[t]) : t \in InFlight}

\* The same native session is never resumed by two launches at once (spec
\* line 107).
OneLaunchPerSession ==
    \A t, u \in InFlight : t # u => Key(plan[t]) \cap Key(plan[u]) = {}

\* Of every start the journal says what that process was started with, also
\* when a preflight begins or fails while its prompt is handed over
\* (LaunchDecision: what was checked and what ran are one statement).
JournalTellsWhatRan == \A e \in journal : e.decision = DecideLaunch(plan[e.turn])

Started == {t \in Turns : child[t] # "none"}

\* A process reads the credentials its sign-in was judged by: the environment
\* of the status command and of the turn are one, although the broker's own
\* changes in between (childenv.py, first lines).
SameEnvironment == \A t \in Started : plan[t].env = asked.env

\* Only the operator's subscription is ever used: the sign-in a record rests
\* on was one, and nothing in the environment or the arguments of a process
\* outranks it (spec section 5).
SubscriptionOnly ==
    /\ conformance # NoRecord => UsesSubscription(asked.env, asked.account)
    /\ \A t \in Started :
        UsesSubscription(plan[t].env, asked.account) /\ ~BareMode(plan[t])

\* A process has the boundary around it: a directory somebody decided, a version
\* that was measured and workers that can be counted (spec lines 122-124), so no
\* turn of the Codex adapter ever starts; and, new or resumed, every control that
\* keeps it from writing, unless a test put its own arguments in their place: the
\* gate does not look for the controls.
ChildRunsGuarded ==
    \A t \in Started :
        /\ adapter.override = {} => ReadOnlyControls[adapter.provider] \subseteq plan[t].args
        /\ plan[t].directory = "absolute"
        /\ plan[t].conformance.cliVersion \in DOMAIN SupportedVersions[adapter.provider]
        /\ \A axis \in DelegationAxes :
            ReportedEnforcement[adapter.provider][axis] # "unsupported"

\* A turn is not launched on the record of an earlier preflight once a later
\* one was refused (the first lines of ClaudeRuntime.preflight).
NoLaunchAfterRefusal ==
    [][(\E t \in Turns : stage[t] = "idle" /\ stage'[t] = "creating")
        => preflight # "refused"]_vars

\* What a close reported stays an upper bound: of the runs it shut down, no
\* more children than it counted are ever alive again.
ReportBoundsTheResidue ==
    \A k \in Closers : closing[k] = "done" =>
        Cardinality({t \in snapshot[k] : HasChild(t)}) <= report[k].children

\* close() returns, however stubborn the children are.
CloseReturns == \A k \in Closers : closing[k] = "closing" ~> closing[k] = "done"

-----------------------------------------------------------------------------
(* Statements of the repository that the code does not keep.               *)

\* Spec line 111: the counts tell the real residue, and a report of zero is
\* valid only when it is zero.  A child that is in no report is one whose
\* start_turn is still under way when close() begins, or whose launch failed and
\* left it behind.
ZeroReportMeansNoChild ==
    [][\A k \in Closers :
        (closing[k] # "done" /\ closing'[k] = "done" /\ report'[k].children = 0)
            => \A t \in Turns : child'[t] # "live"]_vars

\* launch.py line 322: the registry holds the pairs that currently have a run
\* in flight.
RegistryMeansInFlight ==
    \A s \in sessions : \E t \in InFlight :
        s \in Key(plan[t]) /\ ~(child[t] = "reaped" /\ drains[t] = "over")
=============================================================================
