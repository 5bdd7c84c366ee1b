----------------------------- MODULE RuntimeProofs -----------------------------
(***************************************************************************)
(* What holds of an adapter for any turns, sessions and closers: the       *)
(* registry is exact, a session is in one launch at a time, and a close    *)
(* that counted bounds what is left.                                       *)
(***************************************************************************)
EXTENDS Runtime, FiniteSetTheorems, TLAPS

\* A record that is found is one of the table's.
LEMMA RecordsOfTheTable ==
    ASSUME adapter.provider \in Providers
    PROVE Conformances \subseteq {Record("2.1.240"), Record("0.149.0")}
<1>1. ASSUME NEW c \in Conformances PROVE c \in {Record("2.1.240"), Record("0.149.0")}
  <2>1. PICK answer \in VersionAnswers :
            c = ConformanceFor(adapter.provider, answer) /\ c # NoRecord
    BY DEF Conformances
  <2>2. /\ answer.version \in DOMAIN SupportedVersions[adapter.provider]
        /\ c = SupportedVersions[adapter.provider][answer.version]
    BY <2>1 DEF ConformanceFor
  <2> DEFINE pinned == IF adapter.provider = "claude" THEN "2.1.240" ELSE "0.149.0"
  <2>3. SupportedVersions[adapter.provider] = [v \in {pinned} |-> Record(v)]
    BY DEF SupportedVersions
  <2> QED
    BY <2>2, <2>3
<1> QED
  BY <1>1

\* What the gate lets through is a plan of this adapter, and its key a session.
LEMMA PassingIsTyped ==
    ASSUME TypeOK, NEW p \in Passing
    PROVE p \in Plans /\ Key(p) \subseteq Sessions
<1>1. p \in Submitted /\ conformance \in Records
  BY DEF Passing, TypeOK
<1>2. PICK r \in AllRequests : p \in HandedOver(r)
  BY <1>1 DEF Submitted
<1>3. /\ adapter.provider \in Providers /\ adapter.directory \in Directories
      /\ adapter.env \in ChildEnvs /\ adapter.override \in Seams
  BY DEF TypeOK
<1>4. TurnArgs(adapter.provider, r) \in SUBSET Arguments
  BY <1>3 DEF TurnArgs, Arguments
<1>5. \A o \in adapter.override : o \in SUBSET Arguments
  BY <1>3 DEF Seams, Arguments
<1>6. ReportedEnforcement[adapter.provider] \in {ReportedEnforcement[q] : q \in Providers}
  BY <1>3
<1>7. /\ PlanFor(r) \in Plans
      /\ \A o \in SUBSET Arguments : [PlanFor(r) EXCEPT !.args = o] \in Plans
  <2>1. DEFINE e == ReportedEnforcement[adapter.provider]
               a == TurnArgs(adapter.provider, r)
               E == {ReportedEnforcement[q] : q \in Providers}
  <2>2. e \in E /\ a \in SUBSET Arguments
    BY <1>4, <1>6
  <2>3. PlanFor(r) = [provider |-> adapter.provider, args |-> a, env |-> adapter.env,
                      directory |-> adapter.directory, conformance |-> conformance,
                      enforcement |-> e, request |-> r]
    BY DEF PlanFor, AssemblePlan
  <2>4. Plans = [provider : Providers, args : SUBSET Arguments, env : ChildEnvs,
                 directory : Directories, conformance : Records, enforcement : E,
                 request : AllRequests]
    BY DEF Plans
  <2> HIDE DEF e, a, E
  <2> QED
    BY <1>1, <1>2, <1>3, <2>2, <2>3, <2>4
<1>8. p \in Plans
  BY <1>2, <1>5, <1>7 DEF HandedOver
<1> QED
  BY <1>8 DEF Key

\* The journal's entry for a plan of this adapter.
LEMMA DecisionsAreTyped ==
    ASSUME NEW p \in Plans
    PROVE DecideLaunch(p) \in Decisions
<1>1. p.conformance.cliVersion \in {"2.1.240", "0.149.0"}
  BY DEF Plans, Records, Record
<1>2. ASSUME NEW r \in AllRequests
      PROVE r.mode \in {"new", "resume"} /\ r.session \in Sessions \cup {NoSession, MalformedSession}
  <2>1. PICK q \in Requests : r \in {q} \cup Spoiled(q)
    BY DEF AllRequests
  <2>2. /\ q.mode \in {"new", "resume"} /\ q.session \in Sessions \cup {NoSession}
        /\ {"mode", "session"} \subseteq DOMAIN q
    BY DEF Requests
  <2> QED
    BY <2>1, <2>2 DEF Spoiled
<1>3. p.request \in AllRequests /\ p.provider \in Providers /\ p.args \in SUBSET Arguments
      /\ p.directory \in Directories
  BY DEF Plans
<1> QED
  BY <1>1, <1>2, <1>3 DEF DecideLaunch, Decisions

\* What a close counts are natural numbers.
LEMMA CountsAreNatural ==
    ASSUME NEW S \in SUBSET Turns
    PROVE CountLeft(S) \in [children : Nat, tasks : Nat]
<1> DEFINE C == {t \in S : HasChild(t)}
           D == {t \in S : drains[t] = "pending"}
<1>1. IsFiniteSet(C) /\ IsFiniteSet(D)
  BY FS_Subset, RuntimeAssumption
<1>2. Cardinality(C) \in Nat /\ Cardinality(D) \in Nat
  BY <1>1, FS_CardinalityType
<1>3. CountLeft(S) = [children |-> Cardinality(C), tasks |-> 2 * Cardinality(D)]
  BY DEF CountLeft
<1> HIDE DEF C, D
<1> QED
  BY <1>2, <1>3

\* Every variable keeps its type; what is registered are sessions, a turn past
\* the gate has a complete plan, the journal holds decisions about such plans,
\* and a close only ever shuts down runs it found.
THEOREM TypeCorrect == Spec => []TypeOK
<1>1. Init => TypeOK
  <2> SUFFICES ASSUME Init PROVE TypeOK
    OBVIOUS
  <2>1. PICK p \in Providers, d \in Directories, seam \in Seams :
            adapter = [provider |-> p, directory |-> d, env |-> ChildEnv(FirstEnv, Extra(p)),
                       override |-> seam]
    BY DEF Init, Constructed
  <2>2. ChildEnv(FirstEnv, Extra(p)) \in ChildEnvs
    BY DEF ChildEnvs
  <2>3. /\ adapter \in [provider : Providers, directory : Directories, env : ChildEnvs,
                        override : Seams]
        /\ adapter.env \in ChildEnvs
    BY <2>1, <2>2
  <2>4. asked \in [env : ChildEnvs, account : Accounts]
    BY <2>3 DEF Init, Accounts
  <2>5. /\ plan \in [Turns -> {NoPlan} \cup Plans]
        /\ stage = [t \in Turns |-> "idle"]
    BY DEF Init
  <2>6. /\ closing \in [Closers -> {"idle", "closing", "done"}]
        /\ snapshot \in [Closers -> SUBSET runs]
        /\ liveAtClose \in [Closers -> SUBSET runs]
        /\ waiting \in [Closers -> SUBSET runs]
        /\ report \in [Closers -> [children : Nat, tasks : Nat]]
    BY DEF Init, NothingLeft
  <2>7. /\ child \in [Turns -> {"none", "live", "reaped"}]
        /\ drains \in [Turns -> {"none", "pending", "over"}]
        /\ sessions = {} /\ journal = {} /\ runs = {}
        /\ parentEnv = FirstEnv /\ preflight = "none" /\ found = NoRecord
        /\ conformance = NoRecord
    BY DEF Init
  <2> QED
    BY <2>3, <2>4, <2>5, <2>6, <2>7 DEF TypeOK
<1>2. TypeOK /\ [Next]_vars => TypeOK'
  <2>1. SUFFICES ASSUME TypeOK, [Next]_vars PROVE TypeOK'
    OBVIOUS
  <2>2. CASE ParentChanges
    BY <2>1, <2>2 DEF ParentChanges, TypeOK, launchVars, closeVars
  <2>3. CASE PreflightProceeds
    <3>1. Conformances \subseteq Records
      BY <2>1, RecordsOfTheTable DEF TypeOK, Records
    <3>2. CASE BeginPreflight \/ VersionFound \/ PreflightRefused
      BY <2>1, <3>1, <3>2 DEF BeginPreflight, VersionFound, PreflightRefused, Disarmed,
         TypeOK, adapterVars, launchVars, closeVars
    <3>3. CASE SignedIn
      <4>1. asked' \in [env : ChildEnvs, account : Accounts]
        BY <2>1, <3>3 DEF SignedIn, AcceptedAccounts, TypeOK
      <4> QED
        BY <2>1, <3>3, <4>1 DEF SignedIn, TypeOK, adapterVars, launchVars, closeVars
    <3> QED
      BY <2>3, <3>2, <3>3 DEF PreflightProceeds
  <2>4. ASSUME NEW t \in Turns, StartTurn(t) PROVE TypeOK'
    <3>1. CASE GateRefuses(t) \/ SessionRefuses(t)
      BY <2>1, <3>1 DEF GateRefuses, SessionRefuses, Advance, TypeOK, adapterVars,
         preflightVars, closeVars
    <3>2. CASE Reserve(t)
      <4>1. PICK p \in Passing : plan' = [plan EXCEPT ![t] = p] /\ sessions' = sessions \cup Key(p)
        BY <3>2 DEF Reserve
      <4>2. p \in Plans /\ Key(p) \subseteq Sessions
        BY <2>1, PassingIsTyped
      <4>3. /\ plan' \in [Turns -> {NoPlan} \cup Plans]
            /\ sessions' \subseteq Sessions
            /\ stage' = [stage EXCEPT ![t] = "creating"]
        BY <2>1, <3>2, <4>1, <4>2 DEF TypeOK, Reserve, Advance
      <4>4. \A u \in Turns : stage'[u] \in {"idle", "refused"} \/ plan'[u] \in Plans
        BY <2>1, <4>1, <4>2, <4>3 DEF TypeOK
      <4> QED
        BY <2>1, <3>2, <4>3, <4>4 DEF Reserve, TypeOK, adapterVars, preflightVars, closeVars
    <3>3. CASE CreateFails(t) \/ CleanupEnds(t) \/ CreateChild(t) \/ HandOverFails(t)
      BY <2>1, <3>3 DEF CreateFails, CleanupEnds, CreateChild, HandOverFails, Release,
         Advance, TypeOK, adapterVars, preflightVars, closeVars
    <3>4. CASE HandOver(t)
      <4>1. plan[t] \in Plans
        BY <2>1, <3>4 DEF HandOver, Advance, TypeOK
      <4>2. Entry(t, plan[t]) \in [turn : Turns, decision : Decisions]
        BY <4>1, DecisionsAreTyped DEF Entry
      <4> QED
        BY <2>1, <3>4, <4>2 DEF HandOver, Advance, TypeOK, adapterVars, preflightVars,
           closeVars
    <3> QED
      BY <2>4, <3>1, <3>2, <3>3, <3>4 DEF StartTurn
  <2>5. ASSUME NEW t \in Turns, Run(t) PROVE TypeOK'
    BY <2>1, <2>5 DEF Run, ChildExits, StartEvents, DrainsEnd,
       TypeOK, adapterVars, preflightVars, launchVars, closeVars
  <2>6. ASSUME NEW k \in Closers, BeginClose(k) PROVE TypeOK'
    BY <2>1, <2>6 DEF BeginClose, TypeOK, adapterVars, preflightVars, launchVars
  <2>7. ASSUME NEW k \in Closers, CloseProceeds(k) PROVE TypeOK'
    <3>1. CASE \E t \in Turns : ShutdownReturns(k, t) \/ ShutdownRaises(k, t)
      <4>1. PICK t \in Turns : ShutdownReturns(k, t) \/ ShutdownRaises(k, t)
        BY <3>1
      <4>2. /\ waiting' = [waiting EXCEPT ![k] = @ \ {t}]
            /\ UNCHANGED <<preflightVars, launchVars, child, closing, snapshot, liveAtClose,
                           report>>
            /\ \/ drains' = drains
               \/ drains' = [drains EXCEPT ![t] = IF @ = "pending" THEN "over" ELSE @]
        BY <4>1 DEF ShutdownReturns, ShutdownRaises
      <4>3. waiting' \in [Closers -> SUBSET runs]
        BY <2>1, <4>2 DEF TypeOK
      <4>4. drains' \in [Turns -> {"none", "pending", "over"}]
        BY <2>1, <4>2 DEF TypeOK
      <4> QED
        BY <2>1, <4>2, <4>3, <4>4 DEF TypeOK, adapterVars, preflightVars, launchVars
    <3>2. CASE Report(k)
      <4>1. snapshot[k] \in SUBSET Turns
        BY <2>1 DEF TypeOK
      <4>2. CountLeft(snapshot[k]) \in [children : Nat, tasks : Nat]
        BY <4>1, CountsAreNatural
      <4> QED
        BY <2>1, <3>2, <4>2 DEF Report, TypeOK, adapterVars, preflightVars, launchVars
    <3> QED
      BY <2>7, <3>1, <3>2 DEF CloseProceeds
  <2>8. CASE UNCHANGED vars
    BY <2>1, <2>8 DEF vars, adapterVars, preflightVars, launchVars, closeVars, TypeOK
  <2> QED
    BY <2>1, <2>2, <2>3, <2>4, <2>5, <2>6, <2>7, <2>8 DEF Next
<1> QED
  BY <1>1, <1>2, PTL DEF Spec

-----------------------------------------------------------------------------
(* The session registry.                                                   *)

\* Neither a preflight, nor a run, nor a close touches what a launch holds.
LEMMA OnlyLaunchesReserve ==
    ASSUME ParentChanges \/ PreflightProceeds \/ (\E t \in Turns : Run(t))
            \/ (\E k \in Closers : BeginClose(k) \/ CloseProceeds(k))
            \/ UNCHANGED vars
    PROVE UNCHANGED launchVars
  BY DEF ParentChanges, PreflightProceeds, BeginPreflight, VersionFound, SignedIn,
     PreflightRefused, Run, ChildExits, StartEvents, DrainsEnd, 
     CloseProceeds, BeginClose, ShutdownReturns, ShutdownRaises, Report,
     launchVars, vars

\* Two launches that hold different sessions: releasing one leaves the other's.
Exclusive == RegistryIsExact /\ OneLaunchPerSession

LEMMA ExclusiveStep ==
    ASSUME TypeOK, Exclusive, [Next]_vars
    PROVE Exclusive'
<1> USE DEF Exclusive, RegistryIsExact, OneLaunchPerSession, InFlight
<1>1. CASE UNCHANGED launchVars
  BY <1>1 DEF launchVars
<1>2. ASSUME NEW t \in Turns, StartTurn(t) PROVE Exclusive'
  <2>1. CASE GateRefuses(t) \/ SessionRefuses(t)
    <3>1. InFlight' = InFlight /\ sessions' = sessions /\ plan' = plan
      BY <2>1 DEF GateRefuses, SessionRefuses, Advance, TypeOK
    <3> QED
      BY <3>1
  <2>2. CASE Reserve(t)
    <3>1. PICK p \in Passing : /\ Key(p) \cap sessions = {}
                               /\ plan' = [plan EXCEPT ![t] = p]
                               /\ sessions' = sessions \cup Key(p)
      BY <2>2 DEF Reserve, Taken
    <3>2. InFlight' = InFlight \cup {t} /\ t \notin InFlight
      BY <2>2 DEF Reserve, Advance, TypeOK
    <3>3. plan'[t] = p /\ \A u \in InFlight : plan'[u] = plan[u]
      BY <3>1, <3>2 DEF TypeOK
    <3>4. RegistryIsExact'
      BY <3>1, <3>2, <3>3
    <3>5. \A u \in InFlight : Key(plan[u]) \cap Key(p) = {}
      BY <3>1
    <3>6. OneLaunchPerSession'
      BY <3>2, <3>3, <3>5
    <3> QED
      BY <3>4, <3>6
  <2>3. CASE CreateFails(t) \/ CleanupEnds(t)
    <3>1. /\ InFlight' = InFlight \ {t} /\ t \in InFlight
          /\ sessions' = sessions \ Key(plan[t]) /\ plan' = plan
      BY <2>3 DEF CreateFails, CleanupEnds, Release, Advance, TypeOK
    <3>2. \A u \in InFlight \ {t} : Key(plan[u]) \cap Key(plan[t]) = {}
      BY <3>1
    <3>3. RegistryIsExact'
      BY <3>1, <3>2
    <3> QED
      BY <3>1, <3>3
  <2>4. CASE CreateChild(t) \/ HandOver(t) \/ HandOverFails(t)
    <3>1. InFlight' = InFlight /\ sessions' = sessions /\ plan' = plan
      BY <2>4 DEF CreateChild, HandOver, HandOverFails, Advance, TypeOK
    <3> QED
      BY <3>1
  <2> QED
    BY <1>2, <2>1, <2>2, <2>3, <2>4 DEF StartTurn
<1> QED
  BY <1>1, <1>2, OnlyLaunchesReserve DEF Next

LEMMA ExclusiveAlways == Spec => []Exclusive
<1>1. Init => Exclusive
  <2> SUFFICES ASSUME Init PROVE Exclusive
    OBVIOUS
  <2>1. InFlight = {} /\ sessions = {}
    BY DEF Init, InFlight
  <2> QED
    BY <2>1 DEF Exclusive, RegistryIsExact, OneLaunchPerSession
<1>2. TypeOK /\ Exclusive /\ [Next]_vars => Exclusive'
  BY ExclusiveStep
<1> QED
  BY <1>1, <1>2, TypeCorrect, PTL DEF Spec

\* The registry holds the sessions of the turns that passed the gate and whose
\* launch did not fail, and no other: a launch that is refused or fails leaves
\* no reservation behind and takes nobody else's (ActiveNativeSessions, launch()).
THEOREM RegistryStaysExact == Spec => []RegistryIsExact
<1>1. Exclusive => RegistryIsExact
  BY DEF Exclusive
<1> QED
  BY <1>1, ExclusiveAlways, PTL

\* No session is in two launches at once, whatever is refused, fails or is
\* closed in between.
THEOREM SessionsAreExclusive == Spec => []OneLaunchPerSession
<1>1. Exclusive => OneLaunchPerSession
  BY DEF Exclusive
<1> QED
  BY <1>1, ExclusiveAlways, PTL

-----------------------------------------------------------------------------
(* What a close reported.                                                  *)

\* The journal, the runs and the turns that were started agree.
Accounting ==
    /\ {e.turn : e \in journal} = runs
    /\ runs = {t \in Turns : stage[t] = "started"}

LEMMA AccountedStep ==
    ASSUME TypeOK, Accounting, [Next]_vars
    PROVE Accounting'
<1> USE DEF Accounting
<1>1. CASE UNCHANGED <<launchVars, child>>
  BY <1>1 DEF launchVars
<1>2. ASSUME NEW t \in Turns, StartTurn(t) PROVE Accounting'
  <2>1. stage \in [Turns -> {"idle", "refused", "creating", "handing", "cleaning",
                            "failed", "started"}]
    BY DEF TypeOK
  <2>2. CASE GateRefuses(t) \/ SessionRefuses(t) \/ Reserve(t) \/ CreateFails(t)
    BY <2>1, <2>2 DEF GateRefuses, SessionRefuses, Reserve, CreateFails, Advance
  <2>3. CASE CreateChild(t)
    BY <2>1, <2>3 DEF CreateChild, Advance, TypeOK
  <2>4. CASE HandOver(t)
    <3>1. /\ journal' = journal \cup {Entry(t, plan[t])} /\ runs' = runs \cup {t}
          /\ stage' = [stage EXCEPT ![t] = "started"] /\ child' = child
      BY <2>4 DEF HandOver, Advance
    <3>2. Entry(t, plan[t]).turn = t
      BY DEF Entry
    <3>3. {e.turn : e \in journal'} = {e.turn : e \in journal} \cup {t}
      BY <3>1, <3>2
    <3> QED
      BY <2>1, <3>1, <3>3
  <2>5. CASE HandOverFails(t) \/ CleanupEnds(t)
    BY <2>1, <2>5 DEF HandOverFails, CleanupEnds, Advance
  <2> QED
    BY <1>2, <2>2, <2>3, <2>4, <2>5 DEF StartTurn
<1>3. ASSUME NEW t \in Turns, Run(t) PROVE Accounting'
  BY <1>3 DEF Run, ChildExits, StartEvents, DrainsEnd, 
     TypeOK, launchVars
<1>4. CASE ParentChanges \/ PreflightProceeds \/ (\E k \in Closers : BeginClose(k) \/ CloseProceeds(k))
            \/ UNCHANGED vars
  <2>1. UNCHANGED <<launchVars, child>>
    BY <1>4 DEF ParentChanges, PreflightProceeds, BeginPreflight, VersionFound, SignedIn,
       PreflightRefused, CloseProceeds, BeginClose, ShutdownReturns, ShutdownRaises, Report,
       launchVars, vars
  <2> QED
    BY <1>1, <2>1
<1> QED
  BY <1>2, <1>3, <1>4 DEF Next

LEMMA AccountingAlways == Spec => []Accounting
<1>1. Init => Accounting
  <2>1. Init => journal = {} /\ runs = {} /\ stage = [t \in Turns |-> "idle"]
    BY DEF Init
  <2> QED
    BY <2>1 DEF Accounting
<1>2. TypeOK /\ Accounting /\ [Next]_vars => Accounting'
  BY AccountedStep
<1> QED
  BY <1>1, <1>2, TypeCorrect, PTL DEF Spec

\* The children a close still has to count.
Alive(k) == {t \in snapshot[k] : HasChild(t)}

\* A report that was not made says nothing, and one that was is a bound.
Bounded ==
    /\ report = [k \in Closers |-> report[k]]
    /\ \A k \in Closers : report[k].children \in Nat
    /\ \A k \in Closers : closing[k] # "done" => report[k] = NothingLeft
    /\ ReportBoundsTheResidue

\* Fewer children alive stay within the same bound.
LEMMA FewerAlive ==
    ASSUME NEW S \in SUBSET Turns, NEW T \in SUBSET S, NEW n \in Nat,
           Cardinality(S) <= n
    PROVE Cardinality(T) <= n
<1>1. IsFiniteSet(S)
  BY FS_Subset, RuntimeAssumption
<1>2. IsFiniteSet(T) /\ Cardinality(T) <= Cardinality(S)
  BY <1>1, FS_Subset
<1>3. Cardinality(S) \in Nat /\ Cardinality(T) \in Nat
  BY <1>1, <1>2, FS_CardinalityType
<1> QED
  BY <1>2, <1>3

\* A step that makes no report and revives no child of a snapshot.
LEMMA NothingRevived ==
    ASSUME TypeOK, Bounded, UNCHANGED <<closing, snapshot, report>>,
           \A k \in Closers : Alive(k)' \subseteq Alive(k)
    PROVE Bounded'
<1>1. ASSUME NEW k \in Closers, closing[k] = "done"
      PROVE Cardinality(Alive(k)') <= report[k].children
  <2>1. Alive(k) \in SUBSET Turns
    BY DEF Alive, TypeOK
  <2>2. Cardinality(Alive(k)) <= report[k].children /\ report[k].children \in Nat
    BY <1>1 DEF Bounded, ReportBoundsTheResidue, Alive
  <2> QED
    BY <2>1, <2>2, FewerAlive
<1> QED
  BY <1>1 DEF Bounded, ReportBoundsTheResidue, Alive, HasChild, NothingLeft

LEMMA BoundedStep ==
    ASSUME TypeOK, Accounting, Bounded, [Next]_vars
    PROVE Bounded'
<1>1. CASE UNCHANGED <<child, closing, snapshot, report>>
  BY <1>1, NothingRevived DEF Alive, HasChild
<1>2. CASE ParentChanges \/ PreflightProceeds
  BY <1>1, <1>2 DEF ParentChanges, PreflightProceeds, BeginPreflight, VersionFound, SignedIn,
     PreflightRefused, closeVars
<1>3. ASSUME NEW t \in Turns, StartTurn(t) PROVE Bounded'
  <2>1. UNCHANGED <<closing, snapshot, report>>
    BY <1>3 DEF StartTurn, GateRefuses, SessionRefuses, Reserve, CreateFails,
       CreateChild, HandOver, HandOverFails, CleanupEnds, closeVars
  <2>2. CASE UNCHANGED child
    BY <1>1, <2>1, <2>2
  <2>3. CASE CreateChild(t)
    <3>1. \A k \in Closers : t \notin snapshot[k]
      BY <2>3 DEF CreateChild, Advance, TypeOK, Accounting
    <3>2. \A k \in Closers : Alive(k)' \subseteq Alive(k)
      BY <2>1, <2>3, <3>1 DEF CreateChild, Alive, HasChild, TypeOK
    <3> QED
      BY <2>1, <3>2, NothingRevived
  <2> QED
    BY <1>3, <2>2, <2>3 DEF StartTurn, GateRefuses, SessionRefuses, Reserve,
       CreateFails, HandOver, HandOverFails, CleanupEnds
<1>4. ASSUME NEW t \in Turns, Run(t) PROVE Bounded'
  <2>1. UNCHANGED <<closing, snapshot, report>>
    BY <1>4 DEF Run, ChildExits, StartEvents, DrainsEnd, closeVars
  <2>2. CASE ChildExits(t)
    <3>1. \A k \in Closers : Alive(k)' \subseteq Alive(k)
      BY <2>1, <2>2 DEF ChildExits, Alive, HasChild, TypeOK
    <3> QED
      BY <2>1, <3>1, NothingRevived
  <2> QED
    BY <1>1, <1>4, <2>1, <2>2 DEF Run, StartEvents, DrainsEnd
<1>5. ASSUME NEW k \in Closers, BeginClose(k) PROVE Bounded'
  <2>1. /\ UNCHANGED <<child, report>> /\ closing[k] = "idle"
        /\ snapshot' = [snapshot EXCEPT ![k] = runs]
        /\ closing' = [closing EXCEPT ![k] = IF runs = {} THEN "done" ELSE "closing"]
    BY <1>5 DEF BeginClose
  <2>2. report[k].children = 0
    BY <2>1 DEF Bounded, NothingLeft
  <2>3. CASE runs = {}
    <3>1. Alive(k)' = {} /\ Cardinality({}) = 0
      BY <2>1, <2>3, FS_EmptySet DEF Alive, TypeOK
    <3>2. \A j \in Closers \ {k} : Alive(j)' = Alive(j) /\ closing'[j] = closing[j]
      BY <2>1 DEF Alive, HasChild, TypeOK
    <3>3. \A j \in Closers : closing'[j] = "done"
              => Cardinality(Alive(j)') <= report'[j].children
      <4>1. ASSUME NEW j \in Closers \ {k}, closing'[j] = "done"
            PROVE Cardinality(Alive(j)') <= report'[j].children
        BY <2>1, <3>2, <4>1 DEF Bounded, ReportBoundsTheResidue, Alive
      <4>2. Cardinality(Alive(k)') <= report'[k].children
        BY <2>1, <2>2, <3>1
      <4> QED
        BY <4>1, <4>2
    <3>4. \A j \in Closers : closing'[j] # "done" => closing[j] # "done"
      BY <2>1, <2>3, <3>2
    <3> QED
      BY <2>1, <3>3, <3>4 DEF Bounded, ReportBoundsTheResidue, Alive, NothingLeft
  <2>4. CASE runs # {}
    BY <2>1, <2>4 DEF Bounded, ReportBoundsTheResidue, HasChild, TypeOK, NothingLeft
  <2> QED
    BY <2>3, <2>4
<1>6. ASSUME NEW k \in Closers, CloseProceeds(k) PROVE Bounded'
  <2>1. CASE Report(k)
    <3>1. /\ UNCHANGED <<child, snapshot>>
          /\ closing' = [closing EXCEPT ![k] = "done"]
          /\ report' = [report EXCEPT ![k] = CountLeft(snapshot[k])]
      BY <2>1 DEF Report
    <3>2. CountLeft(snapshot[k]).children = Cardinality(Alive(k))
      BY DEF CountLeft, Alive
    <3>3. IsFiniteSet(Alive(k))
      BY FS_Subset, RuntimeAssumption DEF Alive, TypeOK
    <3>4. Cardinality(Alive(k)) \in Nat
      BY <3>3, FS_CardinalityType
    <3>5. \A j \in Closers : Alive(j)' = Alive(j)
      BY <3>1 DEF Alive, HasChild
    <3>6. /\ closing'[k] = "done" /\ report'[k].children = Cardinality(Alive(k))
          /\ \A j \in Closers \ {k} : closing'[j] = closing[j] /\ report'[j] = report[j]
      BY <3>1, <3>2 DEF Bounded, TypeOK
    <3>7. \A j \in Closers : closing'[j] = "done"
              => Cardinality(Alive(j)') <= report'[j].children
      <4>1. ASSUME NEW j \in Closers \ {k}, closing'[j] = "done"
            PROVE Cardinality(Alive(j)') <= report'[j].children
        BY <3>5, <3>6, <4>1 DEF Bounded, ReportBoundsTheResidue, Alive
      <4>2. Cardinality(Alive(k)') <= report'[k].children
        BY <3>4, <3>5, <3>6
      <4> QED
        BY <4>1, <4>2
    <3>8. ReportBoundsTheResidue'
      BY <3>7 DEF ReportBoundsTheResidue, Alive
    <3>9. \A j \in Closers : /\ report'[j].children \in Nat
                             /\ closing'[j] # "done" => report'[j] = NothingLeft
      BY <3>4, <3>6 DEF Bounded
    <3> QED
      BY <3>1, <3>8, <3>9 DEF Bounded, NothingLeft
  <2>2. CASE \E t \in Turns : ShutdownReturns(k, t) \/ ShutdownRaises(k, t)
    BY <1>1, <2>2 DEF ShutdownReturns, ShutdownRaises
  <2> QED
    BY <1>6, <2>1, <2>2 DEF CloseProceeds
<1>7. CASE UNCHANGED vars
  BY <1>1, <1>7 DEF vars, closeVars
<1> QED
  BY <1>2, <1>3, <1>4, <1>5, <1>6, <1>7 DEF Next

\* The children a close counted bound those that are ever alive again among
\* the runs it shut down, however many closes overlap.
THEOREM ReportIsABound == Spec => []ReportBoundsTheResidue
<1>1. Init => Bounded
  <2> SUFFICES ASSUME Init PROVE Bounded
    OBVIOUS
  <2>1. report = [k \in Closers |-> NothingLeft] /\ closing = [k \in Closers |-> "idle"]
    BY DEF Init
  <2> QED
    BY <2>1 DEF Bounded, ReportBoundsTheResidue, NothingLeft
<1>2. TypeOK /\ Accounting /\ Bounded /\ [Next]_vars => Bounded'
  BY BoundedStep
<1>3. Bounded => ReportBoundsTheResidue
  BY DEF Bounded
<1> QED
  BY <1>1, <1>2, <1>3, TypeCorrect, AccountingAlways, PTL DEF Spec

-----------------------------------------------------------------------------
(* The adapter and what it plans.                                          *)

\* What a constructor builds stays, and a sign-in is asked for in nothing else.
AdapterSound ==
    /\ adapter.provider \in Providers
    /\ ~NamesForbidden(adapter.env)
    /\ asked.env = adapter.env

\* A plan that was launched is one the adapter assembled and the gate passed.
Cleared(p) ==
    /\ p.provider = adapter.provider
    /\ p.env = adapter.env
    /\ adapter.override = {} => ReadOnlyControls[adapter.provider] \subseteq p.args
    /\ ~Refused(p)

\* No process is there before its plan was cleared.
PlansSound ==
    \A t \in Turns : Cleared(plan[t]) \/ (child[t] = "none" /\ stage[t] \in {"idle", "refused"})

\* The gate lets through what the adapter assembled, and of Codex nothing.
LEMMA PassingIsCleared ==
    ASSUME AdapterSound, NEW p \in Passing
    PROVE Cleared(p) /\ adapter.provider = "claude" /\ conformance # NoRecord
<1>1. p \in Submitted /\ ~Refused(p) /\ conformance # NoRecord
  BY DEF Passing
<1>2. PICK r \in AllRequests : p \in HandedOver(r)
  BY <1>1 DEF Submitted
<1>3. p.provider = adapter.provider /\ p.env = adapter.env
  BY <1>2 DEF HandedOver, PlanFor, AssemblePlan
<1>4. adapter.override = {} => ReadOnlyControls[adapter.provider] \subseteq p.args
  BY <1>2 DEF HandedOver, PlanFor, AssemblePlan, TurnArgs
<1>6. adapter.provider # "codex"
  BY <1>1, <1>3 DEF Refused, DelegationUnsupported, MeasuredEnforcement,
     ReportedEnforcement, DelegationAxes, Providers
<1> QED
  BY <1>1, <1>3, <1>4, <1>6 DEF Cleared, AdapterSound, Providers

LEMMA AdapterStep ==
    ASSUME AdapterSound, [Next]_vars
    PROVE AdapterSound' /\ adapter' = adapter
<1>1. adapter' = adapter /\ asked'.env = asked.env
  <2>1. CASE ParentChanges \/ PreflightProceeds
    BY <2>1 DEF ParentChanges, PreflightProceeds, BeginPreflight, VersionFound,
       SignedIn, PreflightRefused, adapterVars, AdapterSound
  <2>2. ASSUME NEW t \in Turns, StartTurn(t) \/ Run(t) PROVE UNCHANGED preflightVars
    BY <2>2 DEF StartTurn, GateRefuses, SessionRefuses, Reserve, CreateFails,
       CreateChild, HandOver, HandOverFails, CleanupEnds, Run, ChildExits,
       StartEvents, DrainsEnd
  <2>3. ASSUME NEW k \in Closers, BeginClose(k) \/ CloseProceeds(k)
        PROVE UNCHANGED preflightVars
    BY <2>3 DEF BeginClose, CloseProceeds, ShutdownReturns, ShutdownRaises, Report
  <2> QED
    BY <2>1, <2>2, <2>3 DEF Next, vars, preflightVars, adapterVars
<1> QED
  BY <1>1 DEF AdapterSound

\* The environment an adapter was built with holds no forbidden name, and is the
\* one its accepted sign-in was asked for in (the constructors, preflight).
THEOREM AdapterIsSound == Spec => []AdapterSound
<1>1. Init => AdapterSound
  <2> SUFFICES ASSUME Init PROVE AdapterSound
    OBVIOUS
  <2>1. Constructed /\ asked = [env |-> adapter.env, account |-> "signed out"]
    BY DEF Init
  <2>2. adapter.provider \in Providers
    <3>1. Constructed
      BY <2>1
    <3> QED
      BY <3>1 DEF Constructed
  <2>3. ~NamesForbidden(adapter.env)
    BY <2>1 DEF Constructed
  <2>4. asked.env = adapter.env
    BY <2>1
  <2> QED
    BY <2>2, <2>3, <2>4 DEF AdapterSound
<1> QED
  BY <1>1, AdapterStep, PTL DEF Spec

LEMMA PlansStep ==
    ASSUME TypeOK, AdapterSound, PlansSound, [Next]_vars
    PROVE PlansSound'
<1>1. adapter' = adapter
  BY AdapterStep
<1>2. \A p : Cleared(p) <=> Cleared(p)'
  BY <1>1 DEF Cleared
<1>3. CASE UNCHANGED <<plan, child, stage>>
  BY <1>2, <1>3 DEF PlansSound
<1>4. ASSUME NEW t \in Turns, StartTurn(t) PROVE PlansSound'
  <2>1. CASE Reserve(t)
    <3>1. PICK p \in Passing : plan' = [plan EXCEPT ![t] = p]
      BY <2>1 DEF Reserve
    <3>2. Cleared(p)
      BY <3>1, PassingIsCleared
    <3>3. plan'[t] = p /\ \A u \in Turns \ {t} : plan'[u] = plan[u] /\ stage'[u] = stage[u]
      BY <2>1, <3>1 DEF Reserve, Advance, TypeOK
    <3> QED
      BY <1>2, <2>1, <3>2, <3>3 DEF PlansSound, Reserve
  <2>2. CASE GateRefuses(t) \/ SessionRefuses(t)
    <3>1. /\ plan' = plan /\ child' = child /\ stage[t] = "idle"
          /\ stage' = [stage EXCEPT ![t] = "refused"]
      BY <2>2 DEF GateRefuses, SessionRefuses, Advance
    <3> QED
      BY <1>2, <3>1 DEF PlansSound, TypeOK
  <2>3. CASE CreateFails(t) \/ CreateChild(t) \/ HandOver(t) \/ HandOverFails(t)
                \/ CleanupEnds(t)
    <3>1. /\ plan' = plan /\ stage[t] \notin {"idle", "refused"}
          /\ \A u \in Turns \ {t} : child'[u] = child[u] /\ stage'[u] = stage[u]
      BY <2>3 DEF CreateFails, CreateChild, HandOver, HandOverFails, CleanupEnds,
         Advance, TypeOK
    <3>2. Cleared(plan[t])
      BY <3>1 DEF PlansSound
    <3> QED
      BY <1>2, <3>1, <3>2 DEF PlansSound
  <2> QED
    BY <1>4, <2>1, <2>2, <2>3 DEF StartTurn
<1>5. ASSUME NEW t \in Turns, Run(t) PROVE PlansSound'
  BY <1>2, <1>5 DEF Run, ChildExits, StartEvents, DrainsEnd, launchVars, PlansSound, TypeOK
<1>6. CASE ParentChanges \/ PreflightProceeds
            \/ (\E k \in Closers : BeginClose(k) \/ CloseProceeds(k)) \/ UNCHANGED vars
  <2>1. UNCHANGED <<plan, child, stage>>
    BY <1>6 DEF ParentChanges, PreflightProceeds, BeginPreflight, VersionFound, SignedIn,
       PreflightRefused, CloseProceeds, BeginClose, ShutdownReturns, ShutdownRaises,
       Report, launchVars, vars
  <2> QED
    BY <1>3, <2>1
<1> QED
  BY <1>4, <1>5, <1>6 DEF Next

\* What a turn holds from its reservation on has passed the gate, with the
\* adapter's own provider and environment (start_turn, enforce_launch_safety).
THEOREM PlansAreSound == Spec => []PlansSound
<1>1. Init => PlansSound
  <2> SUFFICES ASSUME Init PROVE PlansSound
    OBVIOUS
  <2>1. child = [t \in Turns |-> "none"] /\ stage = [t \in Turns |-> "idle"]
    BY DEF Init
  <2> QED
    BY <2>1 DEF PlansSound
<1>2. TypeOK /\ AdapterSound /\ PlansSound /\ [Next]_vars => PlansSound'
  BY PlansStep
<1> QED
  BY <1>1, <1>2, TypeCorrect, AdapterIsSound, PTL DEF Spec

\* Whatever the broker's own environment becomes, a process runs in the one its
\* sign-in was asked for in.
THEOREM OneEnvironment == Spec => []SameEnvironment
<1>1. AdapterSound /\ PlansSound => SameEnvironment
  BY DEF AdapterSound, PlansSound, SameEnvironment, Started, Cleared
<1> QED
  BY <1>1, AdapterIsSound, PlansAreSound, PTL

\* Every process has the boundary around it, and it is Claude's: it runs in a
\* directory somebody decided, on a measured version and with countable workers,
\* whatever arguments a test put into its plan, and with every read-only control
\* if none did.
THEOREM Guarded == Spec => []ChildRunsGuarded
<1>1. AdapterSound /\ PlansSound => ChildRunsGuarded
  <2> SUFFICES ASSUME AdapterSound, PlansSound, NEW t \in Started
               PROVE /\ adapter.override = {} =>
                          ReadOnlyControls[adapter.provider] \subseteq plan[t].args
                     /\ plan[t].directory = "absolute"
                     /\ plan[t].conformance.cliVersion
                            \in DOMAIN SupportedVersions[adapter.provider]
                     /\ \A axis \in DelegationAxes :
                          ReportedEnforcement[adapter.provider][axis] # "unsupported"
    BY DEF ChildRunsGuarded
  <2>1. Cleared(plan[t])
    BY DEF PlansSound, Started
  <2> QED
    BY <2>1 DEF Cleared, Refused, Unmeasured, DelegationUnsupported, MeasuredEnforcement
<1> QED
  BY <1>1, AdapterIsSound, PlansAreSound, PTL

-----------------------------------------------------------------------------
(* The journal.                                                            *)

\* What the journal says of a start stays true: no plan changes once its turn
\* has left the gate.
THEOREM JournalIsTrue == Spec => []JournalTellsWhatRan
<1>1. Init => JournalTellsWhatRan
  <2>1. Init => journal = {}
    BY DEF Init
  <2> QED
    BY <2>1 DEF JournalTellsWhatRan
<1>2. TypeOK /\ Accounting /\ JournalTellsWhatRan /\ [Next]_vars
        => JournalTellsWhatRan'
  <2> SUFFICES ASSUME TypeOK, Accounting, JournalTellsWhatRan, [Next]_vars
               PROVE JournalTellsWhatRan'
    OBVIOUS
  <2>1. CASE UNCHANGED <<plan, journal>>
    BY <2>1 DEF JournalTellsWhatRan
  <2>2. ASSUME NEW t \in Turns, StartTurn(t) PROVE JournalTellsWhatRan'
    <3>1. CASE Reserve(t)
      <4>1. PICK p \in Passing : plan' = [plan EXCEPT ![t] = p]
        BY <3>1 DEF Reserve
      <4>2. journal' = journal /\ stage[t] = "idle"
        BY <3>1 DEF Reserve, Advance
      <4>3. ASSUME NEW e \in journal PROVE plan'[e.turn] = plan[e.turn]
        <5>1. e.turn \in Turns /\ stage[e.turn] = "started"
          BY DEF Accounting
        <5> QED
          BY <4>1, <4>2, <5>1 DEF TypeOK
      <4> QED
        BY <4>2, <4>3 DEF JournalTellsWhatRan
    <3>2. CASE HandOver(t)
      <4>1. journal' = journal \cup {Entry(t, plan[t])} /\ plan' = plan
        BY <3>2 DEF HandOver
      <4>2. Entry(t, plan[t]).turn = t /\ Entry(t, plan[t]).decision = DecideLaunch(plan[t])
        BY DEF Entry
      <4> QED
        BY <4>1, <4>2 DEF JournalTellsWhatRan
    <3>3. CASE GateRefuses(t) \/ SessionRefuses(t) \/ CreateFails(t) \/ CreateChild(t)
                  \/ HandOverFails(t) \/ CleanupEnds(t)
      BY <2>1, <3>3 DEF GateRefuses, SessionRefuses, CreateFails, CreateChild,
         HandOverFails, CleanupEnds
    <3> QED
      BY <2>2, <3>1, <3>2, <3>3 DEF StartTurn
  <2>3. CASE UNCHANGED launchVars
    BY <2>1, <2>3 DEF launchVars
  <2> QED
    BY <2>2, <2>3, OnlyLaunchesReserve DEF Next
<1> QED
  BY <1>1, <1>2, TypeCorrect, AccountingAlways, PTL DEF Spec

-----------------------------------------------------------------------------
(* The sign-in.                                                            *)

\* Of the answers the pinned builds and others give, only that of a
\* subscription is accepted.
LEMMA OnlySubscriptionsAccepted ==
    ASSUME NEW p \in Providers
    PROVE AcceptedAccounts(p) \subseteq {"subscription"}
<1> SUFFICES ASSUME NEW account \in Accounts, NEW a \in StatusAnswers(p, account),
                    DecideAuth(p, a)
             PROVE account = "subscription"
  BY DEF AcceptedAccounts
<1>1. CASE p = "claude"
  <2>1. DecideClaudeAuth(a)
    BY <1>1 DEF DecideAuth
  <2>2. ASSUME NEW b \in Accounts, a \in ClaudeShapes(PinnedClaudeStatus(b)) PROVE FALSE
    <3> DEFINE q == PinnedClaudeStatus(b)
    <3>1. {"exit", "fields", "loggedIn", "subscriptionType"} \subseteq DOMAIN q
      BY DEF PinnedClaudeStatus
    <3> HIDE DEF q
    <3>2. a \in ClaudeShapes(q)
      BY <2>2 DEF q
    <3>3. \/ a.fields # "pinned" \/ a.exit = 1 \/ a.loggedIn = "truthy"
          \/ a.subscriptionType = "not a string"
      BY <3>1, <3>2 DEF ClaudeShapes
    <3> QED
      BY <2>1, <3>3 DEF DecideClaudeAuth, NamesSubscription
  <2>3. a = PinnedClaudeStatus(account)
    BY <1>1, <2>2 DEF StatusAnswers
  <2>4. /\ a.loggedIn = IF account = "signed out" THEN "false" ELSE "true"
        /\ a.authMethod = IF account = "api key" THEN "api_key" ELSE "claude.ai"
        /\ a.apiProvider = IF account = "third party" THEN "bedrock" ELSE "firstParty"
        /\ a.subscriptionType = IF account = "no plan" THEN "empty" ELSE "named"
    BY <2>3 DEF PinnedClaudeStatus
  <2> QED
    BY <2>1, <2>4 DEF DecideClaudeAuth, NamesSubscription, Accounts
<1>2. CASE p = "codex"
  <2>1. DecideCodexAuth(a)
    BY <1>2 DEF DecideAuth
  <2>2. ASSUME NEW b \in Accounts, a \in CodexShapes(PinnedCodexStatus(b)) PROVE FALSE
    <3> DEFINE q == PinnedCodexStatus(b)
    <3>1. {"exit", "stdout"} \subseteq DOMAIN q
      BY DEF PinnedCodexStatus
    <3> HIDE DEF q
    <3>2. a \in CodexShapes(q)
      BY <2>2 DEF q
    <3>3. a.exit = 1 \/ a.stdout \in {"blank", "text"}
      BY <3>1, <3>2 DEF CodexShapes
    <3>4. a.exit = 0 /\ a.stdout = "empty"
      BY <2>1 DEF DecideCodexAuth
    <3> QED
      BY <3>3, <3>4
  <2>3. a = PinnedCodexStatus(account)
    BY <1>2, <2>2 DEF StatusAnswers
  <2>4. a.stderr = IF account = "subscription" THEN "Logged in using ChatGPT"
                                               ELSE "something else"
    BY <2>3 DEF PinnedCodexStatus
  <2> QED
    BY <2>1, <2>4 DEF DecideCodexAuth
<1> QED
  BY <1>1, <1>2 DEF Providers

\* Once a process exists, or a record that lets one start, the sign-in last
\* accepted was a subscription's.
Subscribed ==
    \/ asked.account = "subscription"
    \/ /\ conformance = NoRecord
       /\ \A t \in Turns : child[t] = "none" /\ stage[t] \in {"idle", "refused"}

LEMMA SubscribedStep ==
    ASSUME TypeOK, AdapterSound, Subscribed, [Next]_vars
    PROVE Subscribed'
<1>1. CASE SignedIn
  BY <1>1, OnlySubscriptionsAccepted DEF SignedIn, Subscribed, AdapterSound
<1>2. CASE asked.account = "subscription" /\ asked' = asked
  BY <1>2 DEF Subscribed
<1>3. CASE /\ conformance = NoRecord /\ conformance' = NoRecord
           /\ \A t \in Turns : child[t] = "none" /\ stage[t] \in {"idle", "refused"}
           /\ UNCHANGED <<child, stage>>
  BY <1>3 DEF Subscribed
<1>4. ASSUME NEW t \in Turns, StartTurn(t) PROVE Subscribed'
  <2>1. asked' = asked /\ conformance' = conformance
    BY <1>4 DEF StartTurn, GateRefuses, SessionRefuses, Reserve, CreateFails,
       CreateChild, HandOver, HandOverFails, CleanupEnds, preflightVars
  <2>2. CASE asked.account # "subscription"
    <3>1. stage[t] \in {"idle", "refused"} /\ conformance = NoRecord /\ child[t] = "none"
      BY <2>2 DEF Subscribed
    <3>2. ~Reserve(t)
      BY <3>1, PassingIsCleared DEF Reserve
    <3>3. GateRefuses(t) \/ SessionRefuses(t)
      BY <1>4, <3>1, <3>2 DEF StartTurn, CreateFails, CreateChild, HandOver,
         HandOverFails, CleanupEnds, Advance
    <3>4. child' = child /\ stage' = [stage EXCEPT ![t] = "refused"]
      BY <3>3 DEF GateRefuses, SessionRefuses, Advance
    <3> QED
      BY <2>1, <2>2, <3>4 DEF Subscribed, TypeOK
  <2> QED
    BY <1>2, <2>1, <2>2
<1>5. CASE ParentChanges \/ BeginPreflight \/ VersionFound \/ PreflightRefused
  BY <1>2, <1>3, <1>5 DEF ParentChanges, BeginPreflight, VersionFound, PreflightRefused,
     Disarmed, Subscribed, launchVars
<1>6. ASSUME NEW t \in Turns, Run(t) PROVE Subscribed'
  <2>1. UNCHANGED <<preflightVars, launchVars>>
    BY <1>6 DEF Run, ChildExits, StartEvents, DrainsEnd
  <2>2. child[t] = "none" => child' = child
    BY <1>6 DEF Run, ChildExits, StartEvents, DrainsEnd
  <2>3. CASE asked.account # "subscription"
    BY <1>3, <2>1, <2>2, <2>3 DEF Subscribed, preflightVars, launchVars
  <2> QED
    BY <1>2, <2>1, <2>3 DEF preflightVars
<1>7. CASE (\E k \in Closers : BeginClose(k) \/ CloseProceeds(k)) \/ UNCHANGED vars
  <2>1. UNCHANGED <<preflightVars, launchVars, child>>
    BY <1>7 DEF CloseProceeds, BeginClose, ShutdownReturns, ShutdownRaises, Report, vars
  <2> QED
    BY <1>2, <1>3, <2>1 DEF Subscribed, preflightVars, launchVars
<1> QED
  BY <1>1, <1>4, <1>5, <1>6, <1>7 DEF Next, PreflightProceeds

\* Only the operator's subscription is ever used, by either adapter.
THEOREM OnlyTheSubscription == Spec => []SubscriptionOnly
<1>1. Init => Subscribed
  <2> SUFFICES ASSUME Init PROVE Subscribed
    OBVIOUS
  <2>1. /\ child = [t \in Turns |-> "none"] /\ stage = [t \in Turns |-> "idle"]
        /\ conformance = NoRecord
    BY DEF Init
  <2> QED
    BY <2>1 DEF Subscribed
<1>2. TypeOK /\ AdapterSound /\ Subscribed /\ [Next]_vars => Subscribed'
  BY SubscribedStep
<1>3. AdapterSound /\ PlansSound /\ Subscribed => SubscriptionOnly
  <2> SUFFICES ASSUME AdapterSound, PlansSound, Subscribed PROVE SubscriptionOnly
    OBVIOUS
  <2>1. conformance # NoRecord => UsesSubscription(asked.env, asked.account)
    BY DEF AdapterSound, Subscribed, UsesSubscription
  <2>2. ASSUME NEW t \in Started
        PROVE UsesSubscription(plan[t].env, asked.account) /\ ~BareMode(plan[t])
    <3>1. Cleared(plan[t]) /\ asked.account = "subscription"
      BY DEF PlansSound, Subscribed, Started
    <3> QED
      BY <3>1 DEF Cleared, Refused, AdapterSound, UsesSubscription
  <2> QED
    BY <2>1, <2>2 DEF SubscriptionOnly
<1> QED
  BY <1>1, <1>2, <1>3, TypeCorrect, AdapterIsSound, PlansAreSound, PTL DEF Spec

-----------------------------------------------------------------------------
(* A refused preflight.                                                    *)

\* Claude's record exists only while the latest preflight is one that passed.
RecordIsLatest ==
    adapter.provider = "claude" /\ conformance # NoRecord => preflight = "passed"

\* No turn is launched after the latest preflight was refused: the Claude
\* adapter clears its record first, and the Codex adapter, which does not,
\* launches none.
THEOREM RefusedNeverLaunches == Spec => NoLaunchAfterRefusal
<1>1. Init => RecordIsLatest
  <2>1. Init => conformance = NoRecord
    BY DEF Init
  <2> QED
    BY <2>1 DEF RecordIsLatest
<1>2. AdapterSound /\ RecordIsLatest /\ [Next]_vars => RecordIsLatest'
  <2> SUFFICES ASSUME AdapterSound, RecordIsLatest, [Next]_vars PROVE RecordIsLatest'
    OBVIOUS
  <2>1. adapter' = adapter
    BY AdapterStep
  <2>2. CASE UNCHANGED <<preflight, conformance>>
    BY <2>1, <2>2 DEF RecordIsLatest
  <2>3. CASE BeginPreflight \/ VersionFound \/ SignedIn \/ PreflightRefused
    BY <2>1, <2>3 DEF BeginPreflight, VersionFound, SignedIn, PreflightRefused,
       Disarmed, RecordIsLatest
  <2>4. CASE ParentChanges \/ (\E t \in Turns : StartTurn(t) \/ Run(t))
               \/ (\E k \in Closers : BeginClose(k) \/ CloseProceeds(k)) \/ UNCHANGED vars
    BY <2>2, <2>4 DEF ParentChanges, StartTurn, GateRefuses, SessionRefuses, Reserve,
       CreateFails, CreateChild, HandOver, HandOverFails, CleanupEnds, Run, ChildExits,
       StartEvents, DrainsEnd, BeginClose, CloseProceeds, ShutdownReturns,
       ShutdownRaises, Report, vars, preflightVars
  <2> QED
    BY <2>3, <2>4 DEF Next, PreflightProceeds
<1>3. TypeOK /\ AdapterSound /\ RecordIsLatest /\ [Next]_vars =>
        ((\E t \in Turns : stage[t] = "idle" /\ stage'[t] = "creating")
            => preflight # "refused")
  <2> SUFFICES ASSUME TypeOK, AdapterSound, RecordIsLatest, [Next]_vars, NEW t \in Turns,
                      stage[t] = "idle", stage'[t] = "creating"
               PROVE preflight # "refused"
    OBVIOUS
  <2>1. ~UNCHANGED launchVars
    BY DEF launchVars
  <2>2. PICK u \in Turns : StartTurn(u)
    BY <2>1, OnlyLaunchesReserve DEF Next
  <2>3. Reserve(u)
    BY <2>2 DEF StartTurn, GateRefuses, SessionRefuses, CreateFails, CreateChild,
       HandOver, HandOverFails, CleanupEnds, Advance, TypeOK
  <2> QED
    BY <2>3, PassingIsCleared DEF Reserve, RecordIsLatest
<1> QED
  BY <1>1, <1>2, <1>3, TypeCorrect, AdapterIsSound, PTL DEF Spec, NoLaunchAfterRefusal
=============================================================================
