--------------------------- MODULE CollectorProofs ---------------------------
(***************************************************************************)
(* The evidence is true for any number of builds, whenever they arrive,    *)
(* and whatever environment the script was started in.                     *)
(***************************************************************************)
EXTENDS Collector, TLAPS

\* The environment of a child holds no credential, whatever its parent's does.
LEMMA ChildEnvIsClean ==
    ASSUME NEW parent, NEW p \in Providers
    PROVE ~NamesForbidden(ChildEnv(parent, Extra(p)))
<1> DEFINE names == {Upper(i) : i \in Inherited} \cup {Upper("CODEX_HOME")}
<1>1. DOMAIN Extra(p) \subseteq {Upper("CODEX_HOME")}
  BY DEF Extra, NothingExtra
<1>2. DOMAIN ChildEnv(parent, Extra(p)) \subseteq names
  BY <1>1 DEF ChildEnv, Overlaid
<1>3. ASSUME NEW n \in names PROVE Uppercased(n) \notin Forbidden
  <2>1. PICK i \in Inherited \cup {"CODEX_HOME"} : n = Upper(i)
    BY <1>3
  <2>2. Uppercased(n) = i
    BY <2>1 DEF Upper, Uppercased
  <2> QED
    BY <2>1, <2>2 DEF Inherited, Forbidden
<1> QED
  BY <1>2, <1>3 DEF NamesForbidden

-----------------------------------------------------------------------------
(* The invariant.                                                          *)

Steps ==
    Ended \cup {"hash", "version", "status", "keyed", "probe", "probing", "killing",
                "reaping", "hash again", "describe", "write", "writing"}

Probed == {"hash again", "describe", "write", "writing"}
Turned == Probed \cup {"probing", "killing", "reaping"}

Types ==
    /\ provider \in Providers /\ installed \in Builds
    /\ behaviour \in [Builds -> Behaviours]
    /\ step \in Steps
    /\ seen = [before |-> seen.before, version |-> seen.version, asked |-> seen.asked,
               status |-> seen.status, keyed |-> seen.keyed, turn |-> seen.turn,
               exit |-> seen.exit]
    /\ seen.before \in Builds \cup {0} /\ seen.version \in Builds \cup {0}
    /\ seen.turn \in Builds \cup {0}
    /\ seen.exit \in {"none", "zero", "other", "refusal", "timed out"}
    /\ tree = [root |-> tree.root, helper |-> tree.helper]
    /\ tree.root \in {"none", "live", "dying", "gone"}
    /\ tree.root # "none" => seen.turn \in Builds
    /\ docs = [b \in Builds |-> docs[b]]

\* What a turn may exit with, by the kind of its build.
LEMMA ExitsOfABuild ==
    ASSUME Types, NEW b \in Builds, NEW e \in Exits(behaviour[b])
    PROVE /\ e \in {"zero", "other", "refusal"}
          /\ provider = "claude" /\ e = "zero" => ~behaviour[b].bareDefault
          /\ provider = "codex" /\ e = "zero" => behaviour[b].trust = "accepts"
          /\ provider = "codex" /\ e = "refusal" => behaviour[b].trust = "refuses"
<1>1. CASE provider = "claude"
  BY <1>1, ChildEnvIsClean DEF Exits, ProbeEnv, Types
<1>2. CASE provider = "codex"
  <2>1. behaviour[b].trust \in {"refuses", "accepts", "broken"}
    BY <1>2 DEF Types, Behaviours
  <2> QED
    BY <1>2, <2>1 DEF Exits
<1> QED
  BY <1>1, <1>2 DEF Types, Providers

LEMMA BuildsAreIntegers == Builds \cup {0} \subseteq Int
  BY DEF Builds

LEMMA BuildsArePositive == \A b \in Builds : 0 < b
  BY DEF Builds

LEMMA BuildsAreOrdered ==
    /\ Builds \subseteq Nat
    /\ \A b \in Builds : b < MaxBuild => b + 1 \in Builds
<1>1. ASSUME NEW b \in Builds, b < MaxBuild PROVE b + 1 \in Builds
  <2>1. MaxBuild \in Int /\ b \in Int /\ 1 <= b
    BY CollectorAssumption DEF Builds
  <2> QED
    BY <1>1, <2>1 DEF Builds
<1> QED
  BY <1>1 DEF Builds

LEMMA TypesStep ==
    ASSUME Types, [Next]_vars
    PROVE Types'
<1> USE DEF Types
<1>2. CASE World
  <2>1. CASE Update
    <3>1. installed' = installed + 1 /\ installed < MaxBuild /\ installed \in Builds
      BY <2>1 DEF Update
    <3>2. installed' \in Builds
      BY <3>1, BuildsAreOrdered
    <3> QED
      BY <2>1, <3>2 DEF Update, Behaviours
  <2>2. CASE SignInDiffers
    BY <2>2 DEF SignInDiffers, Behaviours
  <2>3. CASE RootExits
    <3>1. PICK e \in Exits(behaviour[seen.turn]) : seen' = [seen EXCEPT !.exit = e]
      BY <2>3 DEF RootExits
    <3>2. e \in {"zero", "other", "refusal"}
      BY <2>3, <3>1, ExitsOfABuild DEF RootExits
    <3> QED
      BY <2>3, <3>1, <3>2 DEF RootExits, worldVars, Behaviours
  <2>4. CASE ProcessEnds
    BY <2>4 DEF ProcessEnds, worldVars, Behaviours
  <2> QED
    BY <1>2, <2>1, <2>2, <2>3, <2>4 DEF World
<1>3. CASE Begin \/ AskVersion
  <2>1. CASE Begin
    <3>1. seen' = NothingSeen /\ tree' = NoTree /\ step' \in {"hash", "version"}
      BY <2>1 DEF Begin
    <3>2. UNCHANGED <<provider, behaviour, installed, docs>>
      BY <2>1 DEF Begin, worldVars
    <3> QED
      BY <3>1, <3>2 DEF NothingSeen, NoTree, Steps, Behaviours
  <2>2. CASE AskVersion
    BY <2>2 DEF AskVersion, Goes, Steps, worldVars, Behaviours
  <2> QED
    BY <1>3, <2>1, <2>2
<1>4. CASE StartProbe
  BY <1>4 DEF StartProbe, Goes, Steps, worldVars, Behaviours
<1>5. CASE ProbeReturns \/ ProbeExpires \/ Terminate \/ Interrupt
  <2>1. CASE KillerEnds
    BY <2>1 DEF KillerEnds, Goes, Steps, worldVars, Behaviours
  <2>2. CASE Reaped
    BY <2>2 DEF Reaped, Goes, Steps, Ended, worldVars, Behaviours
  <2>3. CASE ProbeReturns \/ ProbeExpires \/ KillerFails \/ ReapExpires \/ Interrupt
    BY <2>3 DEF ProbeReturns, ProbeExpires, KillerFails, ReapExpires, Interrupt, Goes,
       Steps, Ended, worldVars, Behaviours
  <2> QED
    BY <1>5, <2>1, <2>2, <2>3 DEF Terminate
<1>6. CASE CollectClaude
  BY <1>6 DEF CollectClaude, Hash, AskStatus, HashAgain, Asked, Goes, Steps, Ended,
     worldVars, Behaviours
<1>7. CASE CollectCodex
  BY <1>7 DEF CollectCodex, AskClean, AskKeyed, Goes, Steps, worldVars, Behaviours
<1>8. CASE Describe \/ OpenDoc \/ CloseDoc
  BY <1>8 DEF Describe, OpenDoc, CloseDoc, Goes, Steps, Ended, worldVars, Behaviours
<1>9. CASE UNCHANGED vars
  BY <1>9 DEF vars, worldVars, Behaviours
<1> QED
  BY <1>2, <1>3, <1>4, <1>5, <1>6, <1>7, <1>8, <1>9 DEF Next, Collect

-----------------------------------------------------------------------------
(* The probe.                                                              *)

\* How far the processes of the probe are at each step, and that an exit is
\* one the build that ran has.
ProbeSound ==
    /\ step \in {"hash", "version", "status", "keyed", "probe"} =>
         tree.root = "none" /\ seen.exit = "none"
    /\ step = "probing" =>
         /\ tree.root \in {"live", "gone"} /\ seen.exit # "timed out"
         /\ tree.root = "gone" => seen.exit # "none"
    /\ step = "reaping" => tree.root # "live" /\ tree.helper # "live"
    /\ step \in Probed => tree.root = "gone"
    /\ seen.exit \in {"zero", "other", "refusal"} =>
         seen.turn \in Builds /\ seen.exit \in Exits(behaviour[seen.turn])
    /\ TimeoutIsTidy

LEMMA ProbeStep ==
    ASSUME Types, ProbeSound, [Next]_vars
    PROVE ProbeSound'
<1> USE DEF Types, ProbeSound, TimeoutIsTidy, Probed
<1>2. CASE Update \/ SignInDiffers
  BY <1>2 DEF Update, SignInDiffers, Exits, ProbeEnv
<1>3. CASE RootExits
  <2>1. PICK e \in Exits(behaviour[seen.turn]) : seen' = [seen EXCEPT !.exit = e]
    BY <1>3 DEF RootExits
  <2>2. e \in {"zero", "other", "refusal"}
    BY <1>3, <2>1, ExitsOfABuild DEF RootExits
  <2>3. /\ tree.root = "live" /\ step' = step /\ UNCHANGED worldVars
        /\ tree' = [tree EXCEPT !.root = "gone"]
    BY <1>3 DEF RootExits
  <2>4. seen'.exit = e /\ seen'.turn = seen.turn /\ tree'.root = "gone"
    BY <2>1, <2>3
  <2>5. seen.turn \in Builds /\ e \in Exits(behaviour[seen.turn])'
    BY <2>1, <2>3 DEF worldVars, Exits, ProbeEnv
  <2> QED
    BY <2>2, <2>3, <2>4, <2>5 DEF worldVars
<1>4. CASE ProcessEnds
  BY <1>4 DEF ProcessEnds, worldVars, Exits, ProbeEnv
<1>5. CASE Begin
  BY <1>5 DEF Begin, NothingSeen, NoTree
<1>6. CASE StartProbe
  BY <1>6 DEF StartProbe, Goes, worldVars
<1>7. CASE AskVersion \/ CollectClaude \/ CollectCodex
  BY <1>7 DEF AskVersion, CollectClaude, Hash, AskStatus, HashAgain, Asked, CollectCodex,
     AskClean, AskKeyed, Goes, worldVars, Exits, ProbeEnv
<1>8. CASE ProbeReturns \/ ProbeExpires
  BY <1>8 DEF ProbeReturns, ProbeExpires, Communicated, Goes, worldVars, Exits, ProbeEnv
<1>9. CASE Terminate
  <2>1. CASE KillerEnds
    BY <2>1 DEF KillerEnds, Goes, worldVars, Exits, ProbeEnv
  <2>2. CASE KillerFails \/ ReapExpires
    BY <2>2 DEF KillerFails, ReapExpires, Goes, worldVars, Exits, ProbeEnv
  <2>3. CASE Reaped
    BY <2>3 DEF Reaped, Goes, worldVars
  <2> QED
    BY <1>9, <2>1, <2>2, <2>3 DEF Terminate
<1>10. CASE Interrupt \/ Describe \/ OpenDoc \/ CloseDoc
  BY <1>10 DEF Interrupt, Describe, OpenDoc, CloseDoc, Goes, Ended, worldVars, Exits, ProbeEnv
<1>11. CASE UNCHANGED vars
  BY <1>11 DEF vars, worldVars, Exits, ProbeEnv
<1> QED
  BY <1>2, <1>3, <1>4, <1>5, <1>6, <1>7, <1>8, <1>9, <1>10, <1>11 DEF Next, World, Collect

\* Nobody changes which CLI is measured, or what a build does.
LEMMA ConstantWorld ==
    ASSUME [Next]_vars
    PROVE provider' = provider /\ behaviour' = behaviour
  BY DEF Next, World, Update, SignInDiffers, RootExits, ProcessEnds, Collect, Begin,
     AskVersion, CollectClaude, Hash, AskStatus, HashAgain, CollectCodex, AskClean,
     AskKeyed, StartProbe, ProbeReturns, ProbeExpires, Terminate, KillerEnds, KillerFails,
     Reaped, ReapExpires, Describe, OpenDoc, CloseDoc, Interrupt, worldVars, vars

-----------------------------------------------------------------------------
(* What has been measured.                                                 *)

\* Builds only get newer, so equal digests leave room for no other build.
ClaudeSound ==
    provider = "claude" =>
        /\ step \in {"version", "status", "probe"} \cup Turned =>
             0 < seen.before /\ seen.before <= installed
        /\ step \in {"status", "probe"} \cup Turned =>
             seen.version = 0 \/ (seen.before <= seen.version /\ seen.version <= installed)
        /\ step \in Turned =>
             /\ seen.turn <= installed
             /\ seen.before <= seen.turn /\ seen.version <= seen.turn
        /\ step \in {"describe", "write", "writing"} => seen.turn = seen.before
        /\ step \in {"write", "writing"} => seen.exit = "zero"
        /\ step = "writing" => seen.version # 0

\* Both statuses agree in the end, and the turn was evidence.
CodexSound ==
    provider = "codex" =>
        /\ step \in {"describe", "write", "writing"} => seen.exit \in {"zero", "refusal"}
        /\ step \in {"write", "writing"} => seen.status = seen.keyed
        /\ step = "writing" => seen.version # 0

\* The order of integers, for leaves that need nothing else of it.
LEMMA Order ==
    /\ \A x \in Int : x <= x
    /\ \A x, y \in Int : x <= y => x <= y + 1
    /\ \A x, y \in Int : x <= y /\ y <= x => x = y
  OBVIOUS

LEMMA ClaudeStep ==
    ASSUME Types, ProbeSound, ClaudeSound, [Next]_vars
    PROVE ClaudeSound'
<1> SUFFICES ASSUME provider' = "claude" PROVE ClaudeSound'
  BY DEF ClaudeSound
<1>1. provider' = provider
  BY ConstantWorld
<1>2. installed \in Int /\ seen.before \in Int /\ seen.version \in Int /\ seen.turn \in Int
  <2>1. /\ installed \in Builds /\ seen.before \in Builds \cup {0}
        /\ seen.version \in Builds \cup {0} /\ seen.turn \in Builds \cup {0}
    BY DEF Types
  <2> QED
    BY <2>1, BuildsAreIntegers
<1> USE <1>1, <1>2 DEF ClaudeSound, Turned, Probed
<1>3. CASE Update
  <2>1. /\ installed' = installed + 1 /\ step' = step /\ seen' = seen
    BY <1>3 DEF Update
  <2>2. \A x \in Int : x <= installed => x <= installed'
    BY <2>1, Order, Zenon
  <2> QED
    BY <2>1, <2>2, Zenon
<1>4. CASE SignInDiffers \/ ProcessEnds
  BY <1>4 DEF Types, SignInDiffers, ProcessEnds, worldVars
<1>5. CASE RootExits
  BY <1>5 DEF Types, RootExits, ProbeSound, worldVars
<1>6. CASE Begin
  BY <1>6 DEF Begin, worldVars
<1>7. CASE AskVersion
  <2>1. PICK v \in {installed, 0} : seen' = [seen EXCEPT !.version = v]
    BY <1>7 DEF AskVersion
  <2>2. seen'.before = seen.before /\ seen'.version = v
    BY <2>1 DEF Types
  <2>3. step = "version" /\ step' = "status" /\ installed' = installed
    BY <1>7 DEF AskVersion, Goes, worldVars
  <2> QED
    BY <2>2, <2>3
<1>8. CASE CollectClaude
  <2>1. CASE Hash
    <3>1. step' = "failed" \/ (step' = "version" /\ seen' = [seen EXCEPT !.before = installed])
      BY <2>1 DEF Hash, Goes
    <3>2. step' = "version" => seen'.before = installed
      BY <3>1 DEF Types
    <3>3. installed' = installed /\ 0 < installed
      BY <2>1, BuildsArePositive DEF Hash, worldVars, Types
    <3>4. step' = "version" => 0 < seen'.before /\ seen'.before <= installed'
      BY <3>2, <3>3, Order, Zenon
    <3> QED
      BY <3>1, <3>4, Zenon
  <2>2. CASE AskStatus
    BY <2>2 DEF Types, AskStatus, Asked, Goes, worldVars
  <2>3. CASE HashAgain
    <3>1. /\ step = "hash again" /\ seen' = seen /\ installed' = installed
          /\ step' = IF installed = seen.before THEN "describe" ELSE "failed"
      BY <2>3 DEF HashAgain, Goes, worldVars
    <3>2. seen.before <= seen.turn /\ seen.turn <= installed
      BY <3>1, Zenon
    <3>3. ASSUME installed = seen.before PROVE seen.turn = seen.before
      <4>1. seen.turn <= seen.before
        BY <3>2, <3>3, Zenon
      <4> QED
        BY <3>2, <4>1, Order, Zenon
    <3> QED
      BY <3>1, <3>3, Zenon
  <2> QED
    BY <1>8, <2>1, <2>2, <2>3 DEF CollectClaude
<1>9. CASE StartProbe
  <2>1. /\ step = "probe" /\ step' = "probing" /\ installed' = installed
        /\ seen' = [seen EXCEPT !.turn = installed] /\ installed \in Builds
    BY <1>9 DEF StartProbe, Goes, worldVars, Types
  <2>2. /\ seen'.before = seen.before /\ seen'.version = seen.version
        /\ seen'.turn = installed
    BY <2>1 DEF Types
  <2>3. 0 < installed
    BY <2>1, BuildsArePositive
  <2> QED
    BY <2>1, <2>2, <2>3
<1>10. CASE ProbeReturns \/ ProbeExpires \/ Interrupt
  BY <1>10 DEF ProbeReturns, ProbeExpires, Interrupt, Goes, Ended, worldVars, Types
<1>11. CASE Terminate
  BY <1>11 DEF Terminate, KillerEnds, KillerFails, Reaped, ReapExpires, Goes, worldVars, Types
<1>12. CASE Describe
  BY <1>12 DEF Describe, ClaudeDescribes, worldVars, Types
<1>13. CASE OpenDoc \/ CloseDoc
  BY <1>13 DEF Types, OpenDoc, CloseDoc, Goes, worldVars
<1>14. CASE CollectCodex \/ UNCHANGED vars
  BY <1>14 DEF CollectCodex, vars, worldVars
<1> QED
  BY <1>3, <1>4, <1>5, <1>6, <1>7, <1>8, <1>9, <1>10, <1>11, <1>12, <1>13, <1>14
     DEF Next, World, Collect

\* A build that tells a key from a subscription does not call it one.
LEMMA KeyedNeverDecides ==
    ASSUME behaviour[installed].distinguishes, NEW a \in LoginStatus(TRUE)
    PROVE ~DecideCodexAuth(a)
<1> DEFINE q == PinnedCodexStatus("api key")
<1>1. a \in {q, [q EXCEPT !.exit = 1]}
  BY DEF LoginStatus
<1>2. q.stderr = "something else" /\ DOMAIN q = {"exit", "stdout", "stderr"}
  BY DEF PinnedCodexStatus
<1> HIDE DEF q
<1>3. a.stderr = "something else"
  BY <1>1, <1>2
<1> QED
  BY <1>3 DEF DecideCodexAuth

LEMMA CodexStep ==
    ASSUME Types, ProbeSound, CodexSound, [Next]_vars
    PROVE CodexSound'
<1> SUFFICES ASSUME provider' = "codex" PROVE CodexSound'
  BY DEF CodexSound
<1>1. provider = "codex"
  BY ConstantWorld
<1> USE <1>1 DEF CodexSound, Types
<1>2. CASE Update \/ SignInDiffers \/ ProcessEnds
  BY <1>2 DEF Update, SignInDiffers, ProcessEnds
<1>3. CASE RootExits
  BY <1>3 DEF RootExits, ProbeSound, Probed
<1>4. CASE Begin \/ AskVersion \/ StartProbe
  BY <1>4 DEF Begin, AskVersion, StartProbe, Goes
<1>5. CASE CollectCodex
  BY <1>5 DEF CollectCodex, AskClean, AskKeyed, Goes
<1>6. CASE ProbeReturns
  <2>1. seen.exit \in {"zero", "other", "refusal"}
    BY <1>6 DEF ProbeReturns, Communicated, Goes, ProbeSound
  <2> QED
    BY <1>6, <2>1 DEF ProbeReturns, Goes
<1>7. CASE ProbeExpires \/ Interrupt
  BY <1>7 DEF ProbeExpires, Interrupt, Goes, Ended
<1>8. CASE Terminate
  BY <1>8 DEF Terminate, KillerEnds, KillerFails, Reaped, ReapExpires, Goes
<1>9. CASE Describe \/ OpenDoc \/ CloseDoc
  BY <1>9 DEF Describe, CodexDescribes, OpenDoc, CloseDoc, Goes
<1>10. CASE CollectClaude \/ UNCHANGED vars
  BY <1>10 DEF CollectClaude, vars
<1> QED
  BY <1>2, <1>3, <1>4, <1>5, <1>6, <1>7, <1>8, <1>9, <1>10 DEF Next, World, Collect

-----------------------------------------------------------------------------
(* The status with a key.                                                  *)

Keyed == {"probe"} \cup Turned

\* It was a build's that was met, and tells if that build does.
KeyIsTold == \E b \in met : behaviour[b].distinguishes => ~DecideCodexAuth(seen.keyed)

KeySound == provider = "codex" /\ step \in Keyed => KeyIsTold

\* It is asked for once.
LEMMA KeyedOnce ==
    ASSUME Types, [Next]_vars, provider' = "codex", step' \in Keyed, ~AskKeyed
    PROVE step \in Keyed /\ met \subseteq met' /\ seen'.keyed = seen.keyed
<1> USE DEF Keyed, Turned, Probed, Types
<1>1. provider = "codex"
  BY ConstantWorld
<1>2. CASE World
  BY <1>2 DEF World, Update, SignInDiffers, ProcessEnds, RootExits
<1>3. CASE Begin \/ AskVersion \/ CollectCodex
  BY <1>3 DEF Begin, AskVersion, CollectCodex, AskClean, Goes
<1>4. CASE StartProbe
  BY <1>4 DEF StartProbe, Goes, Look
<1>5. CASE ProbeReturns \/ ProbeExpires \/ Interrupt
  BY <1>5 DEF ProbeReturns, ProbeExpires, Interrupt, Goes, Ended
<1>6. CASE Terminate
  BY <1>6 DEF Terminate, KillerEnds, KillerFails, Reaped, ReapExpires, Goes
<1>7. CASE Describe \/ OpenDoc \/ CloseDoc
  BY <1>7 DEF Describe, OpenDoc, CloseDoc, Goes
<1>8. CASE CollectClaude \/ UNCHANGED vars
  BY <1>1, <1>8 DEF CollectClaude, vars
<1> QED
  BY <1>2, <1>3, <1>4, <1>5, <1>6, <1>7, <1>8 DEF Next, Collect

LEMMA KeyStep ==
    ASSUME Types, KeySound, [Next]_vars
    PROVE KeySound'
<1> SUFFICES ASSUME provider' = "codex", step' \in Keyed PROVE KeyIsTold'
  BY DEF KeySound, Keyed, Turned, Probed
<1>1. provider = "codex" /\ behaviour' = behaviour
  BY ConstantWorld
<1>2. CASE AskKeyed
  <2>1. PICK a \in LoginStatus(TRUE) : seen' = [seen EXCEPT !.keyed = a]
    BY <1>2 DEF AskKeyed
  <2>2. seen'.keyed = a /\ installed \in met'
    BY <1>2, <2>1 DEF AskKeyed, Look, Types
  <2>3. behaviour[installed].distinguishes => ~DecideCodexAuth(a)
    BY KeyedNeverDecides
  <2>4. behaviour[installed].distinguishes => ~DecideCodexAuth(seen'.keyed)
    BY <2>2, <2>3
  <2> QED
    BY <1>1, <2>2, <2>4 DEF KeyIsTold
<1>3. CASE ~AskKeyed
  <2>1. step \in Keyed /\ met \subseteq met' /\ seen'.keyed = seen.keyed
    BY <1>3, KeyedOnce
  <2>2. KeyIsTold
    BY <1>1, <2>1 DEF KeySound
  <2> QED
    BY <1>1, <2>1, <2>2 DEF KeyIsTold
<1> QED
  BY <1>2, <1>3

-----------------------------------------------------------------------------
(* The turn.                                                               *)

TurnMet == provider = "codex" /\ step \in Turned => seen.turn \in met

\* It is started once.
LEMMA TurnOnce ==
    ASSUME Types, [Next]_vars, provider' = "codex", step' \in Turned, ~StartProbe
    PROVE step \in Turned /\ met \subseteq met' /\ seen'.turn = seen.turn
<1> USE DEF Turned, Probed, Types
<1>1. provider = "codex"
  BY ConstantWorld
<1>2. CASE World
  BY <1>2 DEF World, Update, SignInDiffers, ProcessEnds, RootExits
<1>3. CASE Begin \/ AskVersion \/ CollectCodex
  BY <1>3 DEF Begin, AskVersion, CollectCodex, AskClean, AskKeyed, Goes
<1>4. CASE ProbeReturns \/ ProbeExpires \/ Interrupt
  BY <1>4 DEF ProbeReturns, ProbeExpires, Interrupt, Goes, Ended
<1>5. CASE Terminate
  BY <1>5 DEF Terminate, KillerEnds, KillerFails, Reaped, ReapExpires, Goes
<1>6. CASE Describe \/ OpenDoc \/ CloseDoc
  BY <1>6 DEF Describe, OpenDoc, CloseDoc, Goes
<1>7. CASE CollectClaude \/ UNCHANGED vars
  BY <1>1, <1>7 DEF CollectClaude, vars
<1> QED
  BY <1>2, <1>3, <1>4, <1>5, <1>6, <1>7 DEF Next, Collect

LEMMA TurnStep ==
    ASSUME Types, TurnMet, [Next]_vars
    PROVE TurnMet'
<1> SUFFICES ASSUME provider' = "codex", step' \in Turned PROVE (seen.turn \in met)'
  BY DEF TurnMet, Turned, Probed
<1>1. CASE StartProbe
  <2>1. seen' = [seen EXCEPT !.turn = installed] /\ installed \in met'
    BY <1>1 DEF StartProbe, Look
  <2>2. seen'.turn = installed
    BY <2>1 DEF Types
  <2> QED
    BY <2>1, <2>2
<1>2. CASE ~StartProbe
  <2>1. step \in Turned /\ met \subseteq met' /\ seen'.turn = seen.turn
    BY <1>2, TurnOnce
  <2>2. provider = "codex"
    BY ConstantWorld
  <2> QED
    BY <2>1, <2>2 DEF TurnMet
<1> QED
  BY <1>1, <1>2

-----------------------------------------------------------------------------
(* The approval.                                                           *)

\* Of the answers to this account that pass, only those with a repeated field
\* may be of another sign-in.
LEMMA ApprovedMeansSubscription ==
    ASSUME NEW who \in Accounts, NEW a \in StatusAnswers("claude", who), Approved(a)
    PROVE who = "subscription" \/ a.fields = "repeated"
<1>1. CASE a = PinnedClaudeStatus(who)
  <2>1. /\ a.loggedIn = IF who = "signed out" THEN "false" ELSE "true"
        /\ a.authMethod = IF who = "api key" THEN "api_key" ELSE "claude.ai"
        /\ a.apiProvider = IF who = "third party" THEN "bedrock" ELSE "firstParty"
        /\ a.subscriptionType = IF who = "no plan" THEN "empty" ELSE "named"
    BY <1>1 DEF PinnedClaudeStatus
  <2> QED
    BY <2>1 DEF Approved, NamesSubscription, Accounts
<1>2. ASSUME NEW b \in Accounts, a \in ClaudeShapes(PinnedClaudeStatus(b))
      PROVE a.fields = "repeated"
  <2> DEFINE q == PinnedClaudeStatus(b)
  <2>1. {"exit", "fields", "loggedIn", "subscriptionType"} \subseteq DOMAIN q
    BY DEF PinnedClaudeStatus
  <2> HIDE DEF q
  <2>2. a \in ClaudeShapes(q)
    BY <1>2 DEF q
  <2>3. \/ a.fields \in {"fewer", "more", "repeated", "not an object"} \/ a.exit = 1
        \/ a.loggedIn = "truthy" \/ a.subscriptionType = "not a string"
    BY <2>1, <2>2 DEF ClaudeShapes
  <2>4. a.exit # 1 /\ a.loggedIn # "truthy" /\ a.subscriptionType # "not a string"
    BY DEF Approved, NamesSubscription
  <2>5. a.fields \in {"fewer", "more", "repeated", "not an object"}
    BY <2>3, <2>4, Zenon
  <2>6. a.fields \in {"pinned", "repeated"}
    BY DEF Approved
  <2> QED
    BY <2>5, <2>6
<1>3. \/ a = PinnedClaudeStatus(who)
      \/ \E b \in Accounts : a \in ClaudeShapes(PinnedClaudeStatus(b))
  BY DEF StatusAnswers
<1> QED
  BY <1>1, <1>2, <1>3

\* A turn starts only behind an approval, and each collection starts anew.
ApprovalSound ==
    /\ account \in Accounts
    /\ provider = "claude" =>
        /\ step \in {"hash", "version", "status", "keyed"} => seen.turn = 0
        /\ step = "probe" \/ seen.turn # 0 =>
             seen.asked = "subscription" \/ seen.status.fields = "repeated"

LEMMA ApprovalStep ==
    ASSUME Types, ApprovalSound, [Next]_vars
    PROVE ApprovalSound'
<1> USE DEF ApprovalSound, Types
<1>1. provider' = provider
  BY ConstantWorld
<1>2. CASE World
  BY <1>2 DEF World, Update, SignInDiffers, RootExits, ProcessEnds, worldVars
<1>3. CASE Begin \/ AskVersion \/ StartProbe
  <2>1. CASE Begin
    BY <2>1 DEF Begin, NothingSeen, worldVars
  <2>2. CASE AskVersion
    BY <2>2 DEF AskVersion, Goes, worldVars
  <2>3. CASE StartProbe
    BY <1>1, <2>3 DEF StartProbe, Goes, worldVars
  <2> QED
    BY <1>3, <2>1, <2>2, <2>3
<1>4. CASE CollectClaude
  <2>1. CASE Hash \/ HashAgain
    BY <2>1 DEF Hash, HashAgain, Goes, worldVars
  <2>2. CASE AskStatus
    <3>1. account' = account /\ step = "status"
      BY <2>2 DEF AskStatus, Goes, worldVars
    <3>2. CASE step' = "failed" /\ seen' = seen
      BY <1>1, <3>1, <3>2
    <3>3. CASE \E a \in StatusAnswers("claude", account) : Approved(a) /\ seen' = Asked(a)
      <4>1. PICK a \in StatusAnswers("claude", account) : Approved(a) /\ seen' = Asked(a)
        BY <3>3
      <4>2. seen'.asked = account /\ seen'.status = a /\ seen'.turn = seen.turn
        BY <4>1 DEF Asked
      <4>3. account = "subscription" \/ a.fields = "repeated"
        BY <4>1, ApprovedMeansSubscription
      <4>4. step' \in {"probe", "failed"}
        BY <2>2 DEF AskStatus, Goes
      <4> QED
        BY <1>1, <3>1, <4>2, <4>3, <4>4
    <3> QED
      BY <2>2, <3>2, <3>3 DEF AskStatus, Goes
  <2> QED
    BY <1>4, <2>1, <2>2 DEF CollectClaude
<1>5. CASE CollectCodex
  BY <1>5 DEF CollectCodex, AskClean, AskKeyed, Goes, worldVars
<1>6. CASE ProbeReturns \/ ProbeExpires \/ Interrupt \/ Terminate
  BY <1>6 DEF ProbeReturns, ProbeExpires, Interrupt, Ended, Terminate, KillerEnds,
     KillerFails, Reaped, ReapExpires, Goes, worldVars
<1>7. CASE Describe \/ OpenDoc \/ CloseDoc
  BY <1>7 DEF Describe, OpenDoc, CloseDoc, Goes, worldVars
<1>8. CASE UNCHANGED vars
  BY <1>8 DEF vars, worldVars
<1> QED
  BY <1>2, <1>3, <1>4, <1>5, <1>6, <1>7, <1>8 DEF Next, Collect

-----------------------------------------------------------------------------
(* The document.                                                           *)

\* What one document says.
TrueOf(b) ==
    docs[b].kind = "complete" =>
        IF provider = "claude" THEN ~behaviour[b].bareDefault
        ELSE docs[b].met = {b} =>
                /\ docs[b].trust = behaviour[b].trust
                /\ docs[b].signedIn => ~behaviour[b].distinguishes

\* What a Claude document is about to say is so of its version.
LEMMA ClaudeDocument ==
    ASSUME Types, ProbeSound, ClaudeSound, provider = "claude", step = "writing"
    PROVE ~behaviour[seen.version].bareDefault
<1>1. /\ seen.before \in Int /\ seen.version \in Int /\ seen.turn \in Int
  <2>1. /\ seen.before \in Builds \cup {0} /\ seen.version \in Builds \cup {0}
        /\ seen.turn \in Builds \cup {0}
    BY DEF Types
  <2> QED
    BY <2>1, BuildsAreIntegers
<1>2. /\ seen.version # 0 /\ seen.turn = seen.before /\ seen.exit = "zero"
      /\ seen.version = 0 \/ seen.before <= seen.version
      /\ seen.version <= seen.turn
  BY DEF ClaudeSound, Turned, Probed
<1>3. seen.before <= seen.version /\ seen.version <= seen.before
  BY <1>2, Zenon
<1>4. seen.version = seen.before
  BY <1>1, <1>3, Order, Zenon
<1>5. seen.turn \in Builds /\ seen.exit \in Exits(behaviour[seen.turn])
  BY <1>2 DEF ProbeSound
<1>6. ~behaviour[seen.turn].bareDefault
  BY <1>2, <1>5, ExitsOfABuild
<1> QED
  BY <1>2, <1>4, <1>6, Zenon

\* What a Codex document is about to say is so of the only build it met.
LEMMA CodexDocument ==
    ASSUME Types, ProbeSound, CodexSound, TurnMet, KeySound,
           provider = "codex", step = "writing", NEW b \in Builds, met = {b}
    PROVE /\ Document.trust = behaviour[b].trust
          /\ Document.signedIn => ~behaviour[b].distinguishes
<1>1. seen.turn = b
  BY DEF TurnMet, Turned, Probed
<1>2. seen.exit \in {"zero", "refusal"} /\ seen.status = seen.keyed
  BY DEF CodexSound
<1>3. seen.exit \in Exits(behaviour[b])
  BY <1>1, <1>2 DEF ProbeSound
<1>4. IF seen.exit = "zero" THEN behaviour[b].trust = "accepts" ELSE behaviour[b].trust = "refuses"
  BY <1>2, <1>3, ExitsOfABuild
<1>5. Document.trust = IF seen.exit = "zero" THEN "accepts" ELSE "refuses"
  BY DEF Document
<1>6. Document.signedIn = DecideCodexAuth(seen.status)
  BY DEF Document
<1>7. KeyIsTold
  BY DEF KeySound, Keyed, Turned, Probed
<1>8. behaviour[b].distinguishes => ~DecideCodexAuth(seen.keyed)
  BY <1>7, Zenon DEF KeyIsTold
<1> QED
  BY <1>2, <1>4, <1>5, <1>6, <1>8, Zenon

LEMMA EvidenceStep ==
    ASSUME Types, ProbeSound, ClaudeSound, CodexSound, TurnMet, KeySound,
           EvidenceIsTrue, [Next]_vars
    PROVE EvidenceIsTrue'
<1>1. provider' = provider /\ behaviour' = behaviour /\ provider \in Providers
  BY ConstantWorld DEF Types
<1> SUFFICES ASSUME NEW b \in Builds PROVE TrueOf(b)'
  BY DEF EvidenceIsTrue, TrueOf
<1>2. TrueOf(b)
  BY DEF EvidenceIsTrue, TrueOf
<1>3. CASE docs'[b] = docs[b]
  BY <1>1, <1>2, <1>3 DEF TrueOf
<1>4. CASE docs'[b] # docs[b] /\ OpenDoc
  <2>1. docs' = [docs EXCEPT ![seen.version] = [kind |-> "empty"]]
    BY <1>4 DEF OpenDoc
  <2>2. docs'[b] = [kind |-> "empty"]
    BY <1>4, <2>1 DEF Types
  <2> QED
    BY <2>2 DEF TrueOf
<1>5. CASE docs'[b] # docs[b] /\ CloseDoc
  <2>1. docs' = [docs EXCEPT ![seen.version] = Document] /\ step = "writing"
    BY <1>5 DEF CloseDoc, Goes
  <2>2. b = seen.version /\ docs'[b] = Document
    BY <1>5, <2>1 DEF Types
  <2>3. CASE provider = "claude"
    <3>1. ~behaviour[b].bareDefault
      BY <2>1, <2>2, <2>3, ClaudeDocument
    <3> QED
      BY <1>1, <2>3, <3>1 DEF TrueOf
  <2>4. CASE provider = "codex"
    <3>1. Document.met = met
      BY <2>4 DEF Document
    <3>2. met = {b} => /\ Document.trust = behaviour[b].trust
                       /\ Document.signedIn => ~behaviour[b].distinguishes
      BY <2>1, <2>4, CodexDocument
    <3>3. docs'[b].met = {b} => /\ docs'[b].trust = behaviour'[b].trust
                                /\ docs'[b].signedIn => ~behaviour'[b].distinguishes
      BY <1>1, <2>2, <3>1, <3>2, Zenon
    <3> QED
      BY <1>1, <2>4, <3>3 DEF TrueOf
  <2> QED
    BY <1>1, <2>3, <2>4 DEF Providers
<1>6. docs' = docs \/ OpenDoc \/ CloseDoc
  BY DEF Next, World, Update, SignInDiffers, RootExits, ProcessEnds, Collect, Begin,
     AskVersion, CollectClaude, Hash, AskStatus, HashAgain, CollectCodex, AskClean,
     AskKeyed, StartProbe, ProbeReturns, ProbeExpires, Terminate, KillerEnds, KillerFails,
     Reaped, ReapExpires, Describe, Interrupt, vars
<1> QED
  BY <1>3, <1>4, <1>5, <1>6

-----------------------------------------------------------------------------
(* The theorems.                                                           *)

IInv ==
    /\ Types /\ ProbeSound /\ ClaudeSound /\ CodexSound /\ TurnMet /\ KeySound
    /\ ApprovalSound /\ EvidenceIsTrue

LEMMA Initially ==
    ASSUME Init
    PROVE IInv
<1> USE DEF Init, NothingSeen, NoTree, NoDoc, Ended
<1>1. Types
  <2>1. 1 \in Builds
    BY CollectorAssumption DEF Builds
  <2> QED
    BY <2>1 DEF Types, Steps
<1>2. ProbeSound
  BY DEF ProbeSound, TimeoutIsTidy, Probed
<1>3. ClaudeSound /\ CodexSound /\ TurnMet /\ KeySound
  BY DEF ClaudeSound, CodexSound, TurnMet, KeySound, Turned, Probed, Keyed
<1>4. ApprovalSound /\ EvidenceIsTrue
  BY DEF ApprovalSound, EvidenceIsTrue
<1> QED
  BY <1>1, <1>2, <1>3, <1>4 DEF IInv

LEMMA Inductive ==
    ASSUME IInv, [Next]_vars
    PROVE IInv'
  BY TypesStep, ProbeStep, ClaudeStep, CodexStep, TurnStep, KeyStep,
     ApprovalStep, EvidenceStep DEF IInv

LEMMA Invariant == Spec => []IInv
  BY Initially, Inductive, PTL DEF Spec

\* EvidenceIsTrue: what a Claude document says of bare mode is so of the build it
\* names, wherever updates arrive while it is collected (the two digests).  Of a
\* Codex document, where nothing is hashed, only if its collection met no other
\* build: then the trusted directory is as it says, and that an API key cannot be
\* told from a subscription is so if the sign-in it names was a subscription.
THEOREM EvidenceHolds == Spec => []EvidenceIsTrue
<1>1. IInv => EvidenceIsTrue
  BY DEF IInv
<1> QED
  BY <1>1, Invariant, PTL

\* TurnsFollowApproval: no turn is started unless the account the sign-in was
\* asked of was the subscription, or its status repeats a field
\* (assert_approved_subscription).  It says nothing of an account that changed
\* between the status and the turn.
THEOREM TurnsHaveApproval == Spec => []TurnsFollowApproval
<1>1. IInv => TurnsFollowApproval
  BY DEF IInv, ApprovalSound, TurnsFollowApproval
<1> QED
  BY <1>1, Invariant, PTL

\* TimeoutIsTidy: nothing the probe started goes on once its timeout is
\* reported (terminate_process_tree).
THEOREM TimeoutsAreTidy == Spec => []TimeoutIsTidy
<1>1. IInv => TimeoutIsTidy
  BY DEF IInv, ProbeSound
<1> QED
  BY <1>1, Invariant, PTL
=============================================================================
