--------------------------- MODULE ProviderTurnProofs ---------------------------
(***************************************************************************)
(* What becomes of a provider's turn, for any workers and any budget: what *)
(* was pinned is read, what has drifted is refused, the ledger counts the  *)
(* workers there are and every message is committed.                       *)
(***************************************************************************)
EXTENDS ProviderTurn, SequenceTheorems, FiniteSetTheorems, TLAPS

-----------------------------------------------------------------------------
(* The records a pinned version writes.                                    *)

\* A record by its parts.
Made(k, s, m, y, b, w, d, f) ==
    [kind |-> k, sub |-> s, missing |-> m, mistyped |-> y, blocks |-> b,
     worker |-> w, depth |-> d, failed |-> f]

\* It has these parts and no other.
Formed(record) ==
    record = Made(record.kind, record.sub, record.missing, {}, record.blocks,
                  record.worker, record.depth, record.failed)

\* The fields are there and hold what they should.
Intact(record) ==
    /\ Formed(record)
    /\ record.missing \subseteq {"spawn_depth"}
    /\ record.depth \in Nat
    /\ record.sub = "task_started" => record.missing = {}
    /\ record.sub = "task_notification" => record.missing = {"spawn_depth"}
    /\ \A i \in DOMAIN record.blocks :
            record.blocks[i] = [type |-> record.blocks[i].type, fits |-> TRUE]

FromClaude(record) ==
    /\ \/ record.kind = "rate_limit_event" /\ record.sub = "none" /\ record.blocks = <<>>
       \/ record.kind = "system" /\ record.sub \in SystemSubtypes /\ record.blocks = <<>>
       \/ /\ record.kind = "assistant" /\ record.sub = "none"
          /\ BlockTypes(record) \subseteq AssistantBlocks
       \/ /\ record.kind = "user" /\ record.sub = "none"
          /\ BlockTypes(record) \subseteq UserBlocks
       \/ record.kind = "result" /\ record.sub \in ResultSubtypes /\ record.blocks = <<>>
    /\ record.sub \in {"task_started", "task_notification"} => record.worker \in Workers
    /\ record.sub = "task_started" => record.worker \notin running

ItemKinds == {"item.started", "item.updated", "item.completed"}

FromCodex(record) ==
    /\ \/ /\ record.kind \in {"thread.started", "turn.started", "turn.completed",
                              "turn.failed", "error"}
          /\ record.sub = "none"
       \/ record.kind \in ItemKinds /\ record.sub \in CodexItems
    /\ record.blocks = <<>> /\ record.missing = {} /\ record.worker = NoWorker

LEMMA BlocksFit ==
    ASSUME NEW T, NEW b \in Blocks(T)
    PROVE \A i \in DOMAIN b : b[i].type \in T /\ b[i] = [type |-> b[i].type, fits |-> TRUE]
<1>1. PICK s \in BoundedSeq(T, 2) : b = [i \in DOMAIN s |-> Block(s[i])]
  BY DEF Blocks
<1>2. PICK m \in 0 .. 2 : s \in [1 .. m -> T]
  BY DEF BoundedSeq, SeqOf
<1> QED
  BY <1>1, <1>2 DEF Block

LEMMA NoBlocks == DOMAIN <<>> = {}
  OBVIOUS

LEMMA ClaudeIsKnown ==
    ASSUME NEW record \in ClaudeRecords, running \subseteq Workers
    PROVE Intact(record) /\ FromClaude(record)
<1>1. CASE record \in {Record("rate_limit_event", "none"), Record("system", "init"),
                       Record("system", "thinking_tokens")}
  <2>1. \/ record = Made("rate_limit_event", "none", {}, {}, <<>>, NoWorker, 0, FALSE)
        \/ record = Made("system", "init", {}, {}, <<>>, NoWorker, 0, FALSE)
        \/ record = Made("system", "thinking_tokens", {}, {}, <<>>, NoWorker, 0, FALSE)
    BY <1>1 DEF Record, NoDepth, Made
  <2>2. /\ Formed(record) /\ record.missing = {} /\ record.blocks = <<>>
        /\ record.depth \in Nat
        /\ \/ record.kind = "rate_limit_event" /\ record.sub = "none"
           \/ record.kind = "system" /\ record.sub \in {"init", "thinking_tokens"}
    BY <2>1 DEF Made, Formed
  <2> QED
    BY <2>2, NoBlocks DEF Intact, FromClaude, SystemSubtypes
<1>2. CASE record \in UNION {TaskStarted(w) : w \in Workers \ running}
  <2>1. PICK w \in Workers \ running, d \in {1, 2} :
            record = [Record("system", "task_started") EXCEPT !.worker = w, !.depth = d]
    BY <1>2 DEF TaskStarted
  <2>2. record = Made("system", "task_started", {}, {}, <<>>, w, d, FALSE)
    BY <2>1 DEF Record, NoDepth, Made
  <2>3. /\ Formed(record)
        /\ record.kind = "system" /\ record.sub = "task_started" /\ record.missing = {}
        /\ record.blocks = <<>> /\ record.worker = w /\ record.depth \in Nat
    BY <2>2 DEF Made, Formed
  <2> QED
    BY <2>3, NoBlocks DEF Intact, FromClaude, SystemSubtypes
<1>3. CASE record \in {TaskRecord(sub, w) : sub \in {"task_updated", "task_progress"},
                                            w \in running}
  <2>1. PICK sub \in {"task_updated", "task_progress"}, w \in running :
            record = TaskRecord(sub, w)
    BY <1>3
  <2>2. record = Made("system", sub, {"spawn_depth"}, {}, <<>>, w, 0, FALSE)
    BY <2>1 DEF TaskRecord, Record, NoDepth, Made
  <2>3. /\ Formed(record)
        /\ record.kind = "system" /\ record.sub = sub /\ record.missing = {"spawn_depth"}
        /\ record.blocks = <<>> /\ record.depth \in Nat
    BY <2>2 DEF Made, Formed
  <2> QED
    BY <2>3, NoBlocks DEF Intact, FromClaude, SystemSubtypes
<1>4. CASE record \in {TaskRecord("task_notification", w) : w \in Workers}
  <2>1. PICK w \in Workers : record = TaskRecord("task_notification", w)
    BY <1>4
  <2>2. record = Made("system", "task_notification", {"spawn_depth"}, {}, <<>>, w, 0, FALSE)
    BY <2>1 DEF TaskRecord, Record, NoDepth, Made
  <2>3. /\ Formed(record)
        /\ record.kind = "system" /\ record.sub = "task_notification"
        /\ record.missing = {"spawn_depth"}
        /\ record.blocks = <<>> /\ record.worker = w /\ record.depth \in Nat
    BY <2>2 DEF Made, Formed
  <2> QED
    BY <2>3, NoBlocks DEF Intact, FromClaude, SystemSubtypes
<1>5. CASE record \in {[Record("assistant", "none") EXCEPT !.blocks = b] :
              b \in Blocks({"text", "thinking", "redacted_thinking", "tool_use"})}
  <2>1. PICK b \in Blocks(AssistantBlocks) :
            record = [Record("assistant", "none") EXCEPT !.blocks = b]
    BY <1>5 DEF AssistantBlocks
  <2>2. \A i \in DOMAIN b : /\ b[i].type \in AssistantBlocks
                            /\ b[i] = [type |-> b[i].type, fits |-> TRUE]
    BY BlocksFit
  <2>3. record = Made("assistant", "none", {}, {}, b, NoWorker, 0, FALSE)
    BY <2>1 DEF Record, NoDepth, Made
  <2>4. /\ Formed(record)
        /\ record.kind = "assistant" /\ record.sub = "none" /\ record.missing = {}
        /\ record.blocks = b /\ record.depth \in Nat
    BY <2>2, <2>3 DEF Made, Formed
  <2> QED
    BY <2>2, <2>4 DEF Intact, FromClaude, BlockTypes
<1>6. CASE record \in {[Record("user", "none") EXCEPT !.blocks = b] :
              b \in Blocks({"text", "tool_result"})}
  <2>1. PICK b \in Blocks(UserBlocks) :
            record = [Record("user", "none") EXCEPT !.blocks = b]
    BY <1>6 DEF UserBlocks
  <2>2. \A i \in DOMAIN b : /\ b[i].type \in UserBlocks
                            /\ b[i] = [type |-> b[i].type, fits |-> TRUE]
    BY BlocksFit
  <2>3. record = Made("user", "none", {}, {}, b, NoWorker, 0, FALSE)
    BY <2>1 DEF Record, NoDepth, Made
  <2>4. /\ Formed(record)
        /\ record.kind = "user" /\ record.sub = "none" /\ record.missing = {}
        /\ record.blocks = b /\ record.depth \in Nat
    BY <2>2, <2>3 DEF Made, Formed
  <2> QED
    BY <2>2, <2>4 DEF Intact, FromClaude, BlockTypes
<1>7. CASE record \in {[Record("result", sub) EXCEPT !.failed = f] :
              sub \in {"success", "error_max_turns", "error_during_execution"}, f \in BOOLEAN}
  <2>1. PICK sub \in ResultSubtypes, f \in BOOLEAN :
            record = [Record("result", sub) EXCEPT !.failed = f]
    BY <1>7 DEF ResultSubtypes
  <2>2. \/ record = Made("result", sub, {}, {}, <<>>, NoWorker, 0, TRUE)
        \/ record = Made("result", sub, {}, {}, <<>>, NoWorker, 0, FALSE)
    BY <2>1 DEF Record, NoDepth, Made
  <2>3. /\ Formed(record)
        /\ record.kind = "result" /\ record.sub = sub /\ record.missing = {}
        /\ record.blocks = <<>> /\ record.depth = 0
    BY <2>1, <2>2 DEF Made, Formed, ResultSubtypes
  <2> QED
    BY <2>1, <2>3, NoBlocks DEF Intact, FromClaude, ResultSubtypes
<1> QED
  BY <1>1, <1>2, <1>3, <1>4, <1>5, <1>6, <1>7 DEF ClaudeRecords

LEMMA CodexIsKnown ==
    ASSUME NEW record \in CodexRecords
    PROVE Intact(record) /\ FromCodex(record)
<1> DEFINE TurnKinds == {"thread.started", "turn.started", "turn.completed",
                         "turn.failed", "error"}
<1>1. PICK kind, sub :
          /\ record = Record(kind, sub)
          /\ \/ kind \in TurnKinds /\ sub = "none"
             \/ kind \in ItemKinds /\ sub \in CodexItems
  BY DEF CodexRecords, CodexItems, ItemKinds
<1>2. record = Made(kind, sub, {}, {}, <<>>, NoWorker, 0, FALSE)
  BY <1>1 DEF Record, NoDepth, Made
<1>3. /\ Formed(record)
      /\ record.kind = kind /\ record.sub = sub /\ record.missing = {}
      /\ record.blocks = <<>> /\ record.worker = NoWorker /\ record.depth \in Nat
  BY <1>1, <1>2 DEF Made, Formed
<1> QED
  BY <1>1, <1>3, NoBlocks DEF Intact, FromCodex, CodexItems

-----------------------------------------------------------------------------
(* What is made of them.                                                   *)

Message == Plain("message.committed")
ToolStart == ToolUse("runtime.activity.started")
ToolFinish == ToolUse("runtime.activity.finished")

Start(record) == Canonical("runtime.activity.started", "native_worker", record.worker,
                           record.depth)
Finish(record) == Canonical("runtime.activity.finished", "native_worker", record.worker,
                            NoDepth)

Finishes(record) == record.sub = "task_notification"

\* The events of a record are what it does, and nothing else.
Told(record, events) ==
    \/ /\ Spawns(record) /\ ~Finishes(record) /\ ~Speaks(record) /\ ~Ends(record)
       /\ events = <<Start(record)>>
    \/ /\ ~Spawns(record) /\ Finishes(record) /\ ~Speaks(record) /\ ~Ends(record)
       /\ events = <<Finish(record)>>
    \/ /\ ~Spawns(record) /\ ~Finishes(record) /\ ~Speaks(record) /\ Ends(record)
       /\ events = <<Plain("turn.completed")>> \/ events = <<Plain("turn.failed")>>
    \/ /\ ~Spawns(record) /\ ~Finishes(record) /\ Speaks(record) /\ ~Ends(record)
       /\ events = <<Message>> \/ events = <<Message, ToolStart>>
    \/ /\ ~Spawns(record) /\ ~Finishes(record) /\ ~Speaks(record) /\ ~Ends(record)
       /\ \/ events = <<>> \/ events = <<Plain("turn.started")>>
          \/ events = <<ToolStart>> \/ events = <<ToolFinish>>

\* What a line that is read gives.
Reads(record, line) == line.refusal = "none" /\ Told(record, line.events)

LEMMA Joined ==
    ASSUME NEW a, NEW b
    PROVE /\ <<a>> \o <<b>> = <<a, b>>
          /\ <<a>> \o <<>> = <<a>> /\ <<>> \o <<b>> = <<b>> /\ <<>> \o <<>> = <<>>
<1>1. <<a>> \in Seq({a, b}) /\ <<b>> \in Seq({a, b}) /\ <<>> \in Seq({a, b})
  OBVIOUS
<1>2. <<a>> \o <<b>> = <<a, b>>
  <2> DEFINE both == <<a>> \o <<b>>
  <2>1. /\ both \in Seq({a, b}) /\ Len(both) = Len(<<a>>) + Len(<<b>>)
        /\ \A i \in 1 .. Len(<<a>>) + Len(<<b>>) :
              both[i] = IF i <= Len(<<a>>) THEN <<a>>[i] ELSE <<b>>[i - Len(<<a>>)]
    BY <1>1, ConcatProperties
  <2>2. Len(<<a>>) = 1 /\ Len(<<b>>) = 1
    OBVIOUS
  <2> HIDE DEF both
  <2>3. Len(both) = 2 /\ both[1] = a /\ both[2] = b
    BY <2>1, <2>2
  <2>4. <<a, b>> \in Seq({a, b}) /\ Len(<<a, b>>) = 2
    OBVIOUS
  <2>5. both = <<a, b>>
    BY <2>1, <2>3, <2>4, SeqEqual
  <2> QED
    BY <2>5 DEF both
<1>3. <<a>> \o <<>> = <<a>> /\ <<>> \o <<b>> = <<b>> /\ <<>> \o <<>> = <<>>
  BY <1>1, ConcatEmptySeq
<1> QED
  BY <1>2, <1>3

LEMMA SystemIsRead ==
    ASSUME NEW record, Intact(record), record.kind = "system", record.sub \in SystemSubtypes
    PROVE Reads(record, System(record))
<1>1. Fits(record, {"subtype", "session_id"}, {}) /\ record.mistyped = {}
  BY DEF Intact, Formed, Made, Fits
<1>2. ~Speaks(record) /\ ~Ends(record)
  BY DEF Speaks, Ends
<1>3. CASE record.sub = "task_started"
  <2>1. Fits(record, {"task_id", "spawn_depth"}, {})
    BY <1>1, <1>3 DEF Intact, Fits
  <2>2. System(record) = WorkerStarts(record)
    BY <1>1, <1>3 DEF System
  <2>3. System(record) = Emitted(<<Start(record)>>)
    BY <2>1, <2>2 DEF WorkerStarts, Checked, Start
  <2> QED
    BY <1>2, <1>3, <2>3 DEF Reads, Told, Emitted, Spawns, Finishes
<1>4. CASE record.sub = "task_notification"
  <2>1. Fits(record, {"status", "task_id"}, {"spawn_depth"})
    BY <1>1 DEF Intact, Fits
  <2>2. System(record) = WorkerFinishes(record)
    BY <1>1, <1>4 DEF System
  <2>3. System(record) = Emitted(<<Finish(record)>>)
    BY <1>4, <2>1, <2>2 DEF WorkerFinishes, Checked, Finish, Intact
  <2> QED
    BY <1>2, <1>4, <2>3 DEF Reads, Told, Emitted, Spawns, Finishes
<1>5. CASE record.sub \notin {"task_started", "task_notification"}
  <2>1. \/ System(record) = Emitted(<<>>)
        \/ System(record) = Emitted(<<Plain("turn.started")>>)
    BY <1>1, <1>5 DEF System
  <2> QED
    BY <1>2, <1>5, <2>1 DEF Reads, Told, Emitted, Spawns, Finishes
<1> QED
  BY <1>3, <1>4, <1>5

\* A line all of whose blocks are known and whole is taken as they say.
LEMMA BlocksAreRead ==
    ASSUME NEW record, Intact(record), NEW known, BlockTypes(record) \subseteq known, NEW events
    PROVE CheckedBlocks(record, known, events) = Emitted(events)
<1>1. Fits(record, {"message", "content"}, {})
  BY DEF Intact, Formed, Made, Fits
<1>2. {i \in DOMAIN record.blocks :
          record.blocks[i].type \notin known \/ ~record.blocks[i].fits} = {}
  <2>1. \A i \in DOMAIN record.blocks : record.blocks[i].type \in known
    BY DEF BlockTypes
  <2>2. ASSUME NEW i \in DOMAIN record.blocks PROVE record.blocks[i].fits
    <3>1. PICK t : record.blocks[i] = [type |-> t, fits |-> TRUE]
      BY DEF Intact
    <3> QED
      BY <3>1
  <2> QED
    BY <2>1, <2>2
<1> QED
  BY <1>1, <1>2 DEF CheckedBlocks

LEMMA AssistantIsRead ==
    ASSUME NEW record, Intact(record), record.kind = "assistant", record.sub = "none",
           BlockTypes(record) \subseteq AssistantBlocks
    PROVE Reads(record, Assistant(record))
<1> DEFINE events == (IF "text" \in BlockTypes(record) THEN <<Message>> ELSE <<>>)
                     \o (IF "tool_use" \in BlockTypes(record) THEN <<ToolStart>> ELSE <<>>)
<1>1. Assistant(record) = Emitted(events)
  <2>1. Assistant(record) = CheckedBlocks(record, AssistantBlocks, events)
    BY DEF Assistant, Message, ToolStart
  <2> QED
    BY <2>1, BlocksAreRead
<1>2. Speaks(record) <=> "text" \in BlockTypes(record)
  BY DEF Speaks, BlockTypes
<1>3. ~Spawns(record) /\ ~Finishes(record) /\ ~Ends(record)
  BY DEF Spawns, Finishes, Ends
<1>4. /\ "text" \in BlockTypes(record) => events = <<Message>> \/ events = <<Message, ToolStart>>
      /\ "text" \notin BlockTypes(record) => events = <<ToolStart>> \/ events = <<>>
  BY Joined
<1> HIDE DEF events
<1>5. Told(record, events)
  BY <1>2, <1>3, <1>4 DEF Told
<1> QED
  BY <1>1, <1>5 DEF Reads, Emitted

LEMMA UserIsRead ==
    ASSUME NEW record, Intact(record), record.kind = "user", record.sub = "none",
           BlockTypes(record) \subseteq UserBlocks
    PROVE Reads(record, User(record))
<1> DEFINE events == IF "tool_result" \in BlockTypes(record) THEN <<ToolFinish>> ELSE <<>>
<1>1. User(record) = Emitted(events)
  <2>1. User(record) = CheckedBlocks(record, UserBlocks, events)
    BY DEF User, ToolFinish
  <2> QED
    BY <2>1, BlocksAreRead
<1>2. ~Spawns(record) /\ ~Finishes(record) /\ ~Ends(record) /\ ~Speaks(record)
  BY DEF Spawns, Finishes, Ends, Speaks
<1>3. Told(record, events)
  BY <1>2 DEF Told
<1> HIDE DEF events
<1> QED
  BY <1>1, <1>3 DEF Reads, Emitted

LEMMA ResultIsRead ==
    ASSUME NEW record, Intact(record), record.kind = "result", record.sub \in ResultSubtypes
    PROVE Reads(record, Result(record))
<1>1. Fits(record, {"subtype", "is_error"}, {})
  BY DEF Intact, Formed, Made, Fits
<1>2. \/ Result(record) = Emitted(<<Plain("turn.failed")>>)
      \/ Result(record) = Emitted(<<Plain("turn.completed")>>)
  BY <1>1 DEF Result, Checked
<1>3. ~Spawns(record) /\ ~Finishes(record) /\ ~Speaks(record) /\ Ends(record)
  BY DEF Spawns, Finishes, Speaks, Ends, ResultSubtypes
<1> QED
  BY <1>2, <1>3 DEF Reads, Told, Emitted

LEMMA ClaudeIsRead ==
    ASSUME NEW record, Intact(record), FromClaude(record)
    PROVE Reads(record, NormalizeClaude(record))
<1>1. Fits(record, {"type"}, {}) /\ Fits(record, {"session_id"}, {})
  BY DEF Intact, Formed, Made, Fits
<1>2. CASE record.kind = "rate_limit_event" /\ record.sub = "none"
  <2>1. NormalizeClaude(record) = Emitted(<<>>)
    BY <1>1, <1>2 DEF NormalizeClaude, Checked
  <2>2. ~Spawns(record) /\ ~Finishes(record) /\ ~Speaks(record) /\ ~Ends(record)
    BY <1>2 DEF Spawns, Finishes, Speaks, Ends
  <2> QED
    BY <2>1, <2>2 DEF Reads, Told, Emitted
<1>3. CASE record.kind = "system" /\ record.sub \in SystemSubtypes
  BY <1>1, <1>3, SystemIsRead DEF NormalizeClaude
<1>4. CASE /\ record.kind = "assistant" /\ record.sub = "none"
           /\ BlockTypes(record) \subseteq AssistantBlocks
  BY <1>1, <1>4, AssistantIsRead DEF NormalizeClaude
<1>5. CASE /\ record.kind = "user" /\ record.sub = "none"
           /\ BlockTypes(record) \subseteq UserBlocks
  BY <1>1, <1>5, UserIsRead DEF NormalizeClaude
<1>6. CASE record.kind = "result" /\ record.sub \in ResultSubtypes
  BY <1>1, <1>6, ResultIsRead DEF NormalizeClaude
<1> QED
  BY <1>2, <1>3, <1>4, <1>5, <1>6 DEF FromClaude

LEMMA ItemsAreKnown == DOMAIN ItemFields = CodexItems
  BY DEF ItemFields, CodexItems

LEMMA ItemIsRead ==
    ASSUME NEW record, Intact(record), record.kind \in ItemKinds, record.sub \in CodexItems,
           record.missing = {}, record.worker = NoWorker
    PROVE Reads(record, Item(record))
<1>1. \A required, optional : Fits(record, required, optional)
  BY DEF Intact, Formed, Made, Fits
<1>2. Item(record) = Emitted(ItemEvents(record))
  BY <1>1, ItemsAreKnown DEF Item, Checked
<1>3. ~Spawns(record) /\ ~Finishes(record) /\ ~Ends(record)
  BY DEF Spawns, Finishes, Ends, CodexItems, ItemKinds
<1>4. Speaks(record) <=> record.kind = "item.completed" /\ record.sub = "agent_message"
  BY DEF Speaks, ItemKinds
<1>5. CASE Speaks(record)
  <2>1. ItemEvents(record) = <<Message>>
    BY <1>4, <1>5 DEF ItemEvents, SilentItems, Message
  <2> QED
    BY <1>2, <1>3, <1>5, <2>1 DEF Reads, Told, Emitted
<1>6. CASE ~Speaks(record)
  <2>1. \/ ItemEvents(record) = <<>> \/ ItemEvents(record) = <<ToolStart>>
        \/ ItemEvents(record) = <<ToolFinish>>
    BY <1>4, <1>6 DEF ItemEvents, SilentItems, ToolStart, ToolFinish
  <2> QED
    BY <1>2, <1>3, <1>6, <2>1 DEF Reads, Told, Emitted
<1> QED
  BY <1>5, <1>6

LEMMA CodexIsRead ==
    ASSUME NEW record, Intact(record), FromCodex(record)
    PROVE Reads(record, NormalizeCodex(record))
<1>1. \A required, optional : Fits(record, required, optional)
  BY DEF Intact, Formed, Made, Fits, FromCodex
<1>2. CASE record.kind \in ItemKinds /\ record.sub \in CodexItems
  <2>1. NormalizeCodex(record) = Item(record)
    BY <1>1, <1>2 DEF NormalizeCodex, ItemKinds
  <2> QED
    BY <1>2, <2>1, ItemIsRead DEF FromCodex
<1>3. CASE record.kind \in {"thread.started", "turn.started"} /\ record.sub = "none"
  <2>1. \/ NormalizeCodex(record) = Emitted(<<>>)
        \/ NormalizeCodex(record) = Emitted(<<Plain("turn.started")>>)
    BY <1>1, <1>3 DEF NormalizeCodex, Checked
  <2>2. ~Spawns(record) /\ ~Finishes(record) /\ ~Speaks(record) /\ ~Ends(record)
    BY <1>3 DEF Spawns, Finishes, Speaks, Ends
  <2> QED
    BY <2>1, <2>2 DEF Reads, Told, Emitted
<1>4. CASE record.kind \in {"turn.completed", "turn.failed", "error"} /\ record.sub = "none"
  <2>1. \/ NormalizeCodex(record) = Emitted(<<Plain("turn.completed")>>)
        \/ NormalizeCodex(record) = Emitted(<<Plain("turn.failed")>>)
    BY <1>1, <1>4 DEF NormalizeCodex, Checked
  <2>2. ~Spawns(record) /\ ~Finishes(record) /\ ~Speaks(record) /\ Ends(record)
    BY <1>4 DEF Spawns, Finishes, Speaks, Ends
  <2> QED
    BY <2>1, <2>2 DEF Reads, Told, Emitted
<1> QED
  BY <1>2, <1>3, <1>4 DEF FromCodex

\* Whatever a pinned version writes is read for what it does.
LEMMA PinnedIsRead ==
    ASSUME NEW record \in PinnedRecords, running \subseteq Workers
    PROVE /\ Reads(record, NormalizeLine(record))
          /\ Spawns(record) \/ Finishes(record) => record.worker \in Workers
          /\ record.depth \in Nat
          /\ Spawns(record) => record.worker \notin running
<1>1. CASE provider = "claude"
  <2>1. Intact(record) /\ FromClaude(record)
    BY <1>1, ClaudeIsKnown DEF PinnedRecords
  <2> QED
    BY <1>1, <2>1, ClaudeIsRead DEF NormalizeLine, FromClaude, Spawns, Finishes, Intact
<1>2. CASE provider # "claude"
  <2>1. Intact(record) /\ FromCodex(record)
    BY <1>2, CodexIsKnown DEF PinnedRecords
  <2>2. ~Spawns(record) /\ ~Finishes(record)
    BY <2>1 DEF FromCodex, Spawns, Finishes, CodexItems
  <2> QED
    BY <1>2, <2>1, <2>2, CodexIsRead DEF NormalizeLine, Intact
<1> QED
  BY <1>1, <1>2

-----------------------------------------------------------------------------
(* What becomes of a record that has drifted.                              *)

IsRefused(line) == line.refusal \in Refusals

LEMMA RefusalsAreRefused == IsRefused(Mismatch) /\ IsRefused(Unknown)
  BY DEF IsRefused, Refusals, Mismatch, Unknown, Refused

\* A field that is gone or spoilt fits nowhere it is required.
Spoilt(record, f) == f \in record.missing \cup record.mistyped

LEMMA SpoiltDoesNotFit ==
    ASSUME NEW record, NEW f, Spoilt(record, f), NEW required, f \in required, NEW optional,
           NEW events
    PROVE /\ ~Fits(record, required, optional)
          /\ Checked(record, required, optional, events) = Mismatch
  BY DEF Fits, Spoilt, Checked

\* The kinds that have no subtype to drift.
Unspecified == {"rate_limit_event", "assistant", "user", "thread.started", "turn.started",
                "turn.completed", "turn.failed", "error"}

SameLine(record, other) == other.kind = record.kind /\ other.sub = record.sub

FieldDrifts(record, other) ==
    /\ SameLine(record, other) /\ other.blocks = record.blocks
    /\ \E f \in Decisive(record) : Spoilt(other, f)

OptionDrifts(record, other) ==
    /\ SameLine(record, other) /\ other.blocks = record.blocks
    /\ Optional(record) \cap other.mistyped # {}

SubtypeDrifts(record, other) ==
    other.kind = record.kind /\ other.sub = "new" /\ record.kind \notin Unspecified

BlockDrifts(record, other) ==
    /\ SameLine(record, other)
    /\ \E i \in DOMAIN record.blocks :
          i \in DOMAIN other.blocks /\ (other.blocks[i].type = "new" \/ ~other.blocks[i].fits)

ReceiverDrifts(record, other) ==
    SameLine(record, other) /\ record.sub = "collab_tool_call" /\ other.worker \in Workers

LEMMA DriftIsOneOf ==
    ASSUME NEW record, Intact(record), NEW other \in Drifted(record)
    PROVE \/ FieldDrifts(record, other) \/ OptionDrifts(record, other) \/ other.kind = "new"
          \/ SubtypeDrifts(record, other) \/ BlockDrifts(record, other)
          \/ ReceiverDrifts(record, other)
<1>1. PICK k, s, m, b, w, d, f : record = Made(k, s, m, {}, b, w, d, f)
  BY DEF Intact, Formed
<1>2. record.kind = k /\ record.sub = s /\ record.missing = m /\ record.mistyped = {}
      /\ record.blocks = b /\ record.worker = w
  BY <1>1 DEF Made
<1>3. CASE other \in {[record EXCEPT !.missing = @ \cup {g}] : g \in Decisive(record)}
  <2>1. PICK g \in Decisive(record) : other = [record EXCEPT !.missing = record.missing \cup {g}]
    BY <1>3
  <2>2. other = Made(k, s, m \cup {g}, {}, b, w, d, f)
    BY <1>1, <1>2, <2>1 DEF Made
  <2> QED
    BY <1>2, <2>1, <2>2 DEF Made, FieldDrifts, SameLine, Spoilt
<1>4. ASSUME NEW g \in (Decisive(record) \cup Optional(record)) \ UntypedFields,
             other = [record EXCEPT !.missing = record.missing \ {g}, !.mistyped = {g}]
      PROVE FieldDrifts(record, other) \/ OptionDrifts(record, other)
  <2>1. other = Made(k, s, m \ {g}, {g}, b, w, d, f)
    BY <1>1, <1>2, <1>4 DEF Made
  <2>2. SameLine(record, other) /\ other.blocks = record.blocks /\ other.mistyped = {g}
    BY <1>2, <2>1 DEF Made, SameLine
  <2> QED
    BY <1>4, <2>2 DEF FieldDrifts, OptionDrifts, Spoilt
<1>5. CASE other = [record EXCEPT !.kind = "new"]
  <2>1. other = Made("new", s, m, {}, b, w, d, f)
    BY <1>1, <1>5 DEF Made
  <2> QED
    BY <2>1 DEF Made
<1>6. CASE other = [record EXCEPT !.sub = "new"] /\ record.kind \notin Unspecified
  <2>1. other = Made(k, "new", m, {}, b, w, d, f)
    BY <1>1, <1>6 DEF Made
  <2> QED
    BY <1>2, <1>6, <2>1 DEF Made, SubtypeDrifts
<1>7. ASSUME NEW i \in DOMAIN record.blocks,
             \/ other = [record EXCEPT !.blocks[i].type = "new"]
             \/ other = [record EXCEPT !.blocks[i].fits = FALSE]
      PROVE BlockDrifts(record, other)
  <2>1. PICK t : b[i] = [type |-> t, fits |-> TRUE]
    BY <1>2 DEF Intact
  <2>2. \/ other = [record EXCEPT !.blocks = [b EXCEPT ![i] = [b[i] EXCEPT !.type = "new"]]]
        \/ other = [record EXCEPT !.blocks = [b EXCEPT ![i] = [b[i] EXCEPT !.fits = FALSE]]]
    BY <1>2, <1>7
  <2> DEFINE renamed == [b[i] EXCEPT !.type = "new"]
             spoilt == [b[i] EXCEPT !.fits = FALSE]
             asRenamed == [b EXCEPT ![i] = renamed]
             asSpoilt == [b EXCEPT ![i] = spoilt]
  <2>3. \/ other = Made(k, s, m, {}, asRenamed, w, d, f)
        \/ other = Made(k, s, m, {}, asSpoilt, w, d, f)
    BY <1>1, <2>2 DEF Made
  <2>4. renamed.type = "new" /\ ~spoilt.fits
    BY <2>1
  <2> HIDE DEF renamed, spoilt
  <2>5. /\ i \in DOMAIN asRenamed /\ asRenamed[i] = renamed
        /\ i \in DOMAIN asSpoilt /\ asSpoilt[i] = spoilt
    BY <1>2, <1>7
  <2> HIDE DEF asRenamed, asSpoilt
  <2>6. /\ SameLine(record, other)
        /\ other.blocks = asRenamed \/ other.blocks = asSpoilt
    BY <1>2, <2>3 DEF Made, SameLine
  <2>7. i \in DOMAIN other.blocks /\ (other.blocks[i].type = "new" \/ ~other.blocks[i].fits)
    BY <2>4, <2>5, <2>6
  <2> QED
    BY <2>6, <2>7 DEF BlockDrifts
<1>8. CASE \E v \in Workers : /\ other = [record EXCEPT !.worker = v]
                              /\ record.sub = "collab_tool_call"
  <2>1. PICK v \in Workers : other = Made(k, s, m, {}, b, v, d, f)
    BY <1>1, <1>8 DEF Made
  <2> QED
    BY <1>2, <1>8, <2>1 DEF Made, ReceiverDrifts, SameLine
<1>9. \/ other \in {[record EXCEPT !.missing = @ \cup {g}] : g \in Decisive(record)}
      \/ \E g \in (Decisive(record) \cup Optional(record)) \ UntypedFields :
            other = [record EXCEPT !.missing = record.missing \ {g}, !.mistyped = {g}]
      \/ other = [record EXCEPT !.kind = "new"]
      \/ other = [record EXCEPT !.sub = "new"] /\ record.kind \notin Unspecified
      \/ \E i \in DOMAIN record.blocks : \/ other = [record EXCEPT !.blocks[i].type = "new"]
                                         \/ other = [record EXCEPT !.blocks[i].fits = FALSE]
      \/ \E v \in Workers : /\ other = [record EXCEPT !.worker = v]
                            /\ record.sub = "collab_tool_call"
  BY DEF Drifted, Unspecified
<1> QED
  BY <1>3, <1>4, <1>5, <1>6, <1>7, <1>8, <1>9

\* A block at fault anywhere is a refusal, whichever of them is found first.
LEMMA FaultIsRefused ==
    ASSUME NEW record, NEW known, "new" \notin known, NEW events, NEW i \in DOMAIN record.blocks,
           record.blocks[i].type = "new" \/ ~record.blocks[i].fits
    PROVE IsRefused(CheckedBlocks(record, known, events))
<1> DEFINE faulty == {j \in DOMAIN record.blocks :
                          record.blocks[j].type \notin known \/ ~record.blocks[j].fits}
<1>1. faulty # {}
  OBVIOUS
<1>2. \/ CheckedBlocks(record, known, events) = Mismatch
      \/ CheckedBlocks(record, known, events) = Unknown
  BY <1>1 DEF CheckedBlocks
<1> QED
  BY <1>2, RefusalsAreRefused

LEMMA ClaudeDriftIsRefused ==
    ASSUME NEW record, FromClaude(record), NEW other,
           \/ FieldDrifts(record, other) \/ OptionDrifts(record, other) \/ other.kind = "new"
           \/ SubtypeDrifts(record, other) \/ BlockDrifts(record, other)
    PROVE IsRefused(NormalizeClaude(other))
<1> SUFFICES ASSUME Fits(other, {"type"}, {})
             PROVE IsRefused(NormalizeClaude(other))
  BY RefusalsAreRefused DEF NormalizeClaude
<1>1. CASE other.kind = "new"
  BY <1>1, RefusalsAreRefused DEF NormalizeClaude
<1>2. CASE SubtypeDrifts(record, other)
  <2>1. other.kind \in {"system", "result"} /\ other.sub = "new"
    BY <1>2 DEF SubtypeDrifts, FromClaude, Unspecified
  <2>2. System(other) = Mismatch /\ Result(other) = Mismatch
    BY <2>1 DEF System, Result, SystemSubtypes, ResultSubtypes
  <2> QED
    BY <2>1, <2>2, RefusalsAreRefused DEF NormalizeClaude
<1>3. CASE BlockDrifts(record, other)
  <2>1. other.kind \in {"assistant", "user"}
    BY <1>3, NoBlocks DEF BlockDrifts, SameLine, FromClaude
  <2>2. PICK i \in DOMAIN other.blocks :
            other.blocks[i].type = "new" \/ ~other.blocks[i].fits
    BY <1>3 DEF BlockDrifts
  <2>3. "new" \notin AssistantBlocks /\ "new" \notin UserBlocks
    BY DEF AssistantBlocks, UserBlocks
  <2>4. IsRefused(Assistant(other))
    BY <2>2, <2>3, FaultIsRefused DEF Assistant
  <2>5. IsRefused(User(other))
    BY <2>2, <2>3, FaultIsRefused DEF User
  <2> QED
    BY <2>1, <2>4, <2>5 DEF NormalizeClaude
<1>4. CASE FieldDrifts(record, other)
  <2>1. PICK f \in Decisive(record) : Spoilt(other, f)
    BY <1>4 DEF FieldDrifts
  <2>2. f # "type"
    BY <2>1, SpoiltDoesNotFit
  <2>3. other.kind = record.kind /\ other.sub = record.sub
    BY <1>4 DEF FieldDrifts, SameLine
  <2>4. CASE record.kind = "rate_limit_event"
    <3>1. f \in {"session_id"}
      BY <2>1, <2>2, <2>4 DEF Decisive
    <3>2. Checked(other, {"session_id"}, {}, <<>>) = Mismatch
      BY <2>1, <3>1, SpoiltDoesNotFit
    <3> QED
      BY <2>3, <2>4, <3>2, RefusalsAreRefused DEF NormalizeClaude
  <2>5. CASE record.kind = "system"
    <3>1. \/ f \in {"subtype", "session_id"}
          \/ record.sub = "task_started" /\ f \in {"task_id", "spawn_depth"}
          \/ record.sub = "task_notification" /\ f \in {"status", "task_id"}
      BY <2>1, <2>2, <2>5 DEF Decisive
    <3>2. System(other) = Mismatch
      <4>1. CASE f \in {"subtype", "session_id"}
        BY <2>1, <4>1, SpoiltDoesNotFit DEF System
      <4>2. CASE record.sub = "task_started" /\ f \in {"task_id", "spawn_depth"}
        <5>1. WorkerStarts(other) = Mismatch
          BY <2>1, <4>2, SpoiltDoesNotFit DEF WorkerStarts
        <5> QED
          BY <2>3, <4>2, <5>1 DEF System
      <4>3. CASE record.sub = "task_notification" /\ f \in {"status", "task_id"}
        <5>1. WorkerFinishes(other) = Mismatch
          BY <2>1, <4>3, SpoiltDoesNotFit DEF WorkerFinishes
        <5> QED
          BY <2>3, <4>3, <5>1 DEF System
      <4> QED
        BY <3>1, <4>1, <4>2, <4>3
    <3> QED
      BY <2>3, <2>5, <3>2, RefusalsAreRefused DEF NormalizeClaude
  <2>6. CASE record.kind \in {"assistant", "user"}
    <3>1. f \in {"message", "content"}
      BY <2>1, <2>2, <2>6 DEF Decisive
    <3>2. ~Fits(other, {"message", "content"}, {})
      BY <2>1, <3>1, SpoiltDoesNotFit
    <3>3. Assistant(other) = Mismatch /\ User(other) = Mismatch
      BY <3>2 DEF Assistant, User, CheckedBlocks
    <3> QED
      BY <2>3, <2>6, <3>3, RefusalsAreRefused DEF NormalizeClaude
  <2>7. CASE record.kind = "result"
    <3>1. f \in {"subtype", "is_error"}
      BY <2>1, <2>2, <2>7 DEF Decisive
    <3>2. Result(other) = Mismatch
      BY <2>1, <3>1, SpoiltDoesNotFit DEF Result
    <3> QED
      BY <2>3, <2>7, <3>2, RefusalsAreRefused DEF NormalizeClaude
  <2> QED
    BY <2>4, <2>5, <2>6, <2>7 DEF FromClaude
<1>5. CASE OptionDrifts(record, other)
  <2>1. Optional(record) # {}
    BY <1>5 DEF OptionDrifts
  <2>2. record.sub = "task_notification" /\ record.kind = "system"
    BY <2>1 DEF Optional, FromClaude, ResultSubtypes
  <2>3. other.kind = "system" /\ other.sub = "task_notification" /\ "spawn_depth" \in other.mistyped
    BY <1>5, <2>2 DEF OptionDrifts, SameLine, Optional
  <2>4. WorkerFinishes(other) = Mismatch
    BY <2>3 DEF WorkerFinishes, Checked, Fits
  <2>5. System(other) = Mismatch
    BY <2>3, <2>4 DEF System
  <2> QED
    BY <2>3, <2>5, RefusalsAreRefused DEF NormalizeClaude
<1> QED
  BY <1>1, <1>2, <1>3, <1>4, <1>5

LEMMA CodexDriftIsRefused ==
    ASSUME NEW record, FromCodex(record), NEW other,
           \/ FieldDrifts(record, other) \/ OptionDrifts(record, other) \/ other.kind = "new"
           \/ SubtypeDrifts(record, other) \/ BlockDrifts(record, other)
           \/ ReceiverDrifts(record, other)
    PROVE IsRefused(NormalizeCodex(other))
<1> SUFFICES ASSUME Fits(other, {"type"}, {})
             PROVE IsRefused(NormalizeCodex(other))
  BY RefusalsAreRefused DEF NormalizeCodex
<1>0. other.kind \in ItemKinds => NormalizeCodex(other) = Item(other)
  BY DEF NormalizeCodex, ItemKinds
<1>1. CASE other.kind = "new"
  BY <1>1, RefusalsAreRefused DEF NormalizeCodex
<1>2. CASE SubtypeDrifts(record, other)
  <2>1. other.kind \in ItemKinds /\ other.sub = "new"
    BY <1>2 DEF SubtypeDrifts, FromCodex, Unspecified
  <2>2. Item(other) = Mismatch \/ Item(other) = Unknown
    BY <2>1, ItemsAreKnown DEF Item, CodexItems
  <2> QED
    BY <1>0, <2>1, <2>2, RefusalsAreRefused
<1>3. ~BlockDrifts(record, other)
  BY NoBlocks DEF BlockDrifts, FromCodex
<1>4. CASE ReceiverDrifts(record, other)
  <2>1. /\ other.kind \in ItemKinds /\ other.sub = "collab_tool_call"
        /\ other.worker # NoWorker
    BY <1>4, WorkersAssumption DEF ReceiverDrifts, SameLine, FromCodex
  <2>2. Item(other) = Mismatch \/ Item(other) = Unknown
    BY <2>1 DEF Item
  <2> QED
    BY <1>0, <2>1, <2>2, RefusalsAreRefused
<1>5. CASE FieldDrifts(record, other)
  <2>1. PICK f \in Decisive(record) : Spoilt(other, f)
    BY <1>5 DEF FieldDrifts
  <2>2. f # "type"
    BY <2>1, SpoiltDoesNotFit
  <2>3. other.kind = record.kind /\ other.sub = record.sub
    BY <1>5 DEF FieldDrifts, SameLine
  <2>4. CASE record.kind = "thread.started"
    <3>1. f \in {"thread_id"}
      BY <2>1, <2>2, <2>4 DEF Decisive
    <3>2. Checked(other, {"thread_id"}, {}, <<>>) = Mismatch
      BY <2>1, <3>1, SpoiltDoesNotFit
    <3> QED
      BY <2>3, <2>4, <3>2, RefusalsAreRefused DEF NormalizeCodex
  <2>5. record.kind # "turn.started"
    BY <2>1, <2>2 DEF Decisive
  <2>6. CASE record.kind = "turn.completed"
    <3>1. f \in {"usage"}
      BY <2>1, <2>2, <2>6 DEF Decisive
    <3>2. Checked(other, {"usage"}, {}, <<Plain("turn.completed")>>) = Mismatch
      BY <2>1, <3>1, SpoiltDoesNotFit
    <3> QED
      BY <2>3, <2>6, <3>2, RefusalsAreRefused DEF NormalizeCodex
  <2>7. CASE record.kind = "turn.failed"
    <3>1. f \in {"error"}
      BY <2>1, <2>2, <2>7 DEF Decisive
    <3>2. Checked(other, {"error"}, {}, <<Plain("turn.failed")>>) = Mismatch
      BY <2>1, <3>1, SpoiltDoesNotFit
    <3> QED
      BY <2>3, <2>7, <3>2, RefusalsAreRefused DEF NormalizeCodex
  <2>8. CASE record.kind = "error"
    <3>1. f \in {"message"}
      BY <2>1, <2>2, <2>8 DEF Decisive
    <3>2. Checked(other, {"message"}, {}, <<Plain("turn.failed")>>) = Mismatch
      BY <2>1, <3>1, SpoiltDoesNotFit
    <3> QED
      BY <2>3, <2>8, <3>2, RefusalsAreRefused DEF NormalizeCodex
  <2>9. CASE record.kind \in ItemKinds
    <3>1. f \in {"item", "item_type"} \/ f \in {"id"} \cup ItemFields[record.sub]
      BY <2>1, <2>2, <2>9 DEF Decisive, ItemKinds
    <3>2. CASE f \in {"item", "item_type"}
      <4>1. Item(other) = Mismatch
        BY <2>1, <3>2, SpoiltDoesNotFit DEF Item
      <4> QED
        BY <1>0, <2>3, <2>9, <4>1, RefusalsAreRefused
    <3>3. CASE f \in {"id"} \cup ItemFields[record.sub]
      <4>1. Checked(other, {"id"} \cup ItemFields[other.sub], OptionalFields(other.sub),
                    ItemEvents(other)) = Mismatch
        BY <2>1, <2>3, <3>3, SpoiltDoesNotFit
      <4>2. Item(other) = Mismatch \/ Item(other) = Unknown
        BY <4>1 DEF Item
      <4> QED
        BY <1>0, <2>3, <2>9, <4>2, RefusalsAreRefused
    <3> QED
      BY <3>1, <3>2, <3>3
  <2> QED
    BY <2>4, <2>5, <2>6, <2>7, <2>8, <2>9 DEF FromCodex
<1>6. CASE OptionDrifts(record, other)
  <2>1. /\ other.kind = record.kind /\ other.sub = record.sub
        /\ Optional(record) \cap other.mistyped # {}
    BY <1>6 DEF OptionDrifts, SameLine
  <2>2. record.sub # "task_notification"
    BY DEF FromCodex, CodexItems
  <2>3. record.kind \in ItemKinds /\ Optional(record) = OptionalFields(record.sub)
    BY <2>1, <2>2 DEF Optional, ItemKinds
  <2>4. Checked(other, {"id"} \cup ItemFields[other.sub], OptionalFields(other.sub),
                ItemEvents(other)) = Mismatch
    BY <2>1, <2>3 DEF Checked, Fits
  <2>5. Item(other) = Mismatch \/ Item(other) = Unknown
    BY <2>4 DEF Item
  <2> QED
    BY <1>0, <2>1, <2>3, <2>5, RefusalsAreRefused
<1> QED
  BY <1>1, <1>2, <1>3, <1>4, <1>5, <1>6

\* Whatever place of a pinned record has moved, nothing is made of the line.
LEMMA DriftIsRefused ==
    ASSUME NEW record \in PinnedRecords, running \subseteq Workers, NEW other \in Drifted(record)
    PROVE IsRefused(NormalizeLine(other))
<1>1. CASE provider = "claude"
  <2>1. Intact(record) /\ FromClaude(record)
    BY <1>1, ClaudeIsKnown DEF PinnedRecords
  <2>2. ~ReceiverDrifts(record, other)
    BY <2>1 DEF ReceiverDrifts, FromClaude, SystemSubtypes, ResultSubtypes
  <2> QED
    BY <1>1, <2>1, <2>2, DriftIsOneOf, ClaudeDriftIsRefused DEF NormalizeLine
<1>2. CASE provider # "claude"
  <2>1. Intact(record) /\ FromCodex(record)
    BY <1>2, CodexIsKnown DEF PinnedRecords
  <2> QED
    BY <1>2, <2>1, DriftIsOneOf, CodexDriftIsRefused DEF NormalizeLine
<1> QED
  BY <1>1, <1>2

-----------------------------------------------------------------------------
(* The history.                                                            *)

EventType ==
    [kind : {"turn.started", "turn.completed", "turn.failed", "message.committed",
             "runtime.activity.started", "runtime.activity.finished"},
     activity : {"none", "tool_use", "native_worker"},
     worker : Workers \cup {NoWorker}, depth : Nat]

LEMMA EventsAreTyped ==
    /\ Message \in EventType /\ ToolStart \in EventType /\ ToolFinish \in EventType
    /\ Plain("turn.started") \in EventType /\ Plain("turn.completed") \in EventType
    /\ Plain("turn.failed") \in EventType
    /\ \A record : record.worker \in Workers /\ record.depth \in Nat =>
           Start(record) \in EventType /\ Finish(record) \in EventType
  BY DEF Message, ToolStart, ToolFinish, ToolUse, Plain, Canonical, Start, Finish, EventType,
         NoDepth

Messages(h) == {i \in DOMAIN h : h[i].kind = "message.committed"}
Results(h) == {i \in DOMAIN h : h[i].kind \in TerminalKinds}

LEMMA AppendedParts ==
    ASSUME NEW h \in Seq(EventType), NEW x \in EventType
    PROVE /\ Len(h) \in Nat /\ DOMAIN h = 1 .. Len(h)
          /\ Len(Append(h, x)) = Len(h) + 1 /\ Append(h, x) \in Seq(EventType)
          /\ DOMAIN Append(h, x) = (1 .. Len(h)) \cup {Len(h) + 1}
          /\ \A i \in 1 .. Len(h) : Append(h, x)[i] = h[i]
          /\ Append(h, x)[Len(h) + 1] = x
<1>1. /\ Len(h) \in Nat /\ DOMAIN h = 1 .. Len(h)
      /\ Len(Append(h, x)) = Len(h) + 1 /\ Append(h, x) \in Seq(EventType)
      /\ DOMAIN Append(h, x) = 1 .. Len(h) + 1
      /\ \A i \in 1 .. Len(h) : Append(h, x)[i] = h[i]
      /\ Append(h, x)[Len(h) + 1] = x
  BY AppendProperties, LenProperties
<1>2. 1 .. Len(h) + 1 = (1 .. Len(h)) \cup {Len(h) + 1}
  BY <1>1
<1> QED
  BY <1>1, <1>2

\* One event more is one message more if it is a message.
LEMMA MessagesAfterOneMore ==
    ASSUME NEW h \in Seq(EventType), NEW x \in EventType
    PROVE /\ Cardinality(Messages(h)) \in Nat
          /\ x.kind = "message.committed" =>
                Cardinality(Messages(Append(h, x))) = Cardinality(Messages(h)) + 1
          /\ x.kind # "message.committed" =>
                Cardinality(Messages(Append(h, x))) = Cardinality(Messages(h))
<1>1. /\ x.kind = "message.committed" => Messages(Append(h, x)) = Messages(h) \cup {Len(h) + 1}
      /\ x.kind # "message.committed" => Messages(Append(h, x)) = Messages(h)
      /\ Len(h) + 1 \notin Messages(h)
      /\ Messages(h) \in SUBSET (1 .. Len(h))
  BY AppendedParts DEF Messages
<1>2. IsFiniteSet(Messages(h))
  <2>1. IsFiniteSet(1 .. Len(h))
    BY AppendedParts, FS_Interval
  <2> QED
    BY <1>1, <2>1, FS_Subset
<1>3. Cardinality(Messages(h)) \in Nat
  BY <1>2, FS_CardinalityType
<1>4. Cardinality(Messages(h) \cup {Len(h) + 1}) = Cardinality(Messages(h)) + 1
  BY <1>1, <1>2, FS_AddElement
<1> QED
  BY <1>1, <1>3, <1>4

\* n messages were committed, and a result, if there is one, is the last event.
Committed(h, n) ==
    /\ h \in Seq(EventType) /\ n \in Nat /\ Cardinality(Messages(h)) = n
    /\ \A i \in Results(h) : i = Len(h)

LEMMA CommittedAfterOneMore ==
    ASSUME NEW h, NEW n, Committed(h, n), Results(h) = {}, NEW x \in EventType
    PROVE /\ x.kind = "message.committed" => Committed(Append(h, x), n + 1)
          /\ x.kind # "message.committed" => Committed(Append(h, x), n)
          /\ x.kind \in TerminalKinds => Results(Append(h, x)) # {}
          /\ x.kind \notin TerminalKinds => Results(Append(h, x)) = {}
<1>1. h \in Seq(EventType) /\ n \in Nat
  BY DEF Committed
<1>2. Results(Append(h, x)) \subseteq {Len(h) + 1}
  BY <1>1, AppendedParts DEF Results
<1>3. /\ x.kind \in TerminalKinds => Len(h) + 1 \in Results(Append(h, x))
      /\ x.kind \notin TerminalKinds => Len(h) + 1 \notin Results(Append(h, x))
  BY <1>1, AppendedParts DEF Results
<1>4. \A i \in Results(Append(h, x)) : i = Len(Append(h, x))
  BY <1>1, <1>2, AppendedParts
<1> QED
  BY <1>1, <1>2, <1>3, <1>4, AppendedParts, MessagesAfterOneMore DEF Committed

\* The events of a line, added one by one.
LEMMA ConcatIsAppend ==
    ASSUME NEW h \in Seq(EventType), NEW x \in EventType, NEW y \in EventType
    PROVE /\ h \o <<>> = h
          /\ h \o <<x>> = Append(h, x)
          /\ h \o <<x, y>> = Append(Append(h, x), y)
<1>1. <<x>> \in Seq(EventType) /\ <<y>> \in Seq(EventType)
  OBVIOUS
<1>2. h \o <<>> = h
  BY ConcatEmptySeq
<1>3. \A g \in Seq(EventType) : \A z \in EventType : g \o <<z>> = Append(g, z)
  BY AppendIsConcat
<1>4. (h \o <<x>>) \o <<y>> = h \o (<<x>> \o <<y>>)
  BY <1>1, ConcatAssociative
<1>5. <<x>> \o <<y>> = <<x, y>>
  BY Joined
<1>6. Append(h, x) \in Seq(EventType)
  BY AppendProperties
<1> QED
  BY <1>2, <1>3, <1>4, <1>5, <1>6

\* A record's events, added to a history that has no result yet: the message
\* and the result of a line are in it, once.
LEMMA LineIsCommitted ==
    ASSUME NEW h, NEW n, Committed(h, n), Results(h) = {}, NEW record,
           record.depth \in Nat, Spawns(record) \/ Finishes(record) => record.worker \in Workers,
           NEW events, Told(record, events)
    PROVE /\ Speaks(record) => Committed(h \o events, n + 1)
          /\ ~Speaks(record) => Committed(h \o events, n)
          /\ Ends(record) => Results(h \o events) # {}
          /\ ~Ends(record) => Results(h \o events) = {}
<1>0. h \in Seq(EventType) /\ n \in Nat
  BY DEF Committed
<1> DEFINE Quiet(x) == x.kind # "message.committed" /\ x.kind \notin TerminalKinds
<1>1. ASSUME NEW x \in EventType, Quiet(x), events = <<x>>
      PROVE Committed(h \o events, n) /\ Results(h \o events) = {}
  <2>1. h \o <<x>> = Append(h, x)
    BY <1>0, <1>1, ConcatIsAppend
  <2>2. Committed(Append(h, x), n) /\ Results(Append(h, x)) = {}
    BY <1>1, CommittedAfterOneMore
  <2> QED
    BY <1>1, <2>1, <2>2
<1>2. /\ Quiet(ToolStart) /\ Quiet(ToolFinish) /\ Quiet(Plain("turn.started"))
      /\ Quiet(Start(record)) /\ Quiet(Finish(record))
      /\ Message.kind = "message.committed" /\ Message.kind \notin TerminalKinds
      /\ \A k \in TerminalKinds : /\ Plain(k).kind \in TerminalKinds
                                  /\ Plain(k).kind # "message.committed"
  BY DEF ToolStart, ToolFinish, ToolUse, Plain, Start, Finish, Message, Canonical, TerminalKinds
<1> HIDE DEF Quiet
<1>3. CASE /\ Spawns(record) /\ ~Finishes(record) /\ ~Speaks(record) /\ ~Ends(record)
           /\ events = <<Start(record)>>
  BY <1>1, <1>2, <1>3, EventsAreTyped
<1>4. CASE /\ ~Spawns(record) /\ Finishes(record) /\ ~Speaks(record) /\ ~Ends(record)
           /\ events = <<Finish(record)>>
  BY <1>1, <1>2, <1>4, EventsAreTyped
<1>5. CASE /\ ~Spawns(record) /\ ~Finishes(record) /\ ~Speaks(record) /\ Ends(record)
           /\ events = <<Plain("turn.completed")>> \/ events = <<Plain("turn.failed")>>
  <2>1. PICK k \in TerminalKinds : events = <<Plain(k)>> /\ Plain(k) \in EventType
    BY <1>5, EventsAreTyped DEF TerminalKinds
  <2>2. h \o events = Append(h, Plain(k))
    BY <1>0, <2>1, ConcatIsAppend
  <2>3. Committed(h \o events, n) /\ Results(h \o events) # {}
    BY <1>2, <2>1, <2>2, CommittedAfterOneMore
  <2> QED
    BY <1>5, <2>3
<1>6. CASE /\ ~Spawns(record) /\ ~Finishes(record) /\ Speaks(record) /\ ~Ends(record)
           /\ events = <<Message>> \/ events = <<Message, ToolStart>>
  <2>1. Message \in EventType /\ ToolStart \in EventType
    BY EventsAreTyped
  <2>2. \/ h \o events = Append(h, Message)
        \/ h \o events = Append(Append(h, Message), ToolStart)
    <3>1. /\ h \o <<Message>> = Append(h, Message)
          /\ h \o <<Message, ToolStart>> = Append(Append(h, Message), ToolStart)
      BY <1>0, <2>1, ConcatIsAppend
    <3> QED
      BY <1>6, <3>1
  <2>3. Committed(Append(h, Message), n + 1) /\ Results(Append(h, Message)) = {}
    BY <1>2, <2>1, CommittedAfterOneMore
  <2>4. /\ Committed(Append(Append(h, Message), ToolStart), n + 1)
        /\ Results(Append(Append(h, Message), ToolStart)) = {}
    BY <1>2, <2>1, <2>3, CommittedAfterOneMore DEF Quiet
  <2> QED
    BY <1>6, <2>2, <2>3, <2>4
<1>7. CASE /\ ~Spawns(record) /\ ~Finishes(record) /\ ~Speaks(record) /\ ~Ends(record)
           /\ \/ events = <<>> \/ events = <<Plain("turn.started")>>
              \/ events = <<ToolStart>> \/ events = <<ToolFinish>>
  <2>1. events = <<>> => h \o events = h
    BY <1>0, ConcatEmptySeq
  <2> QED
    BY <1>1, <1>2, <1>7, <2>1, EventsAreTyped
<1> QED
  BY <1>3, <1>4, <1>5, <1>6, <1>7 DEF Told

-----------------------------------------------------------------------------
(* The ledger.                                                             *)

\* A line charges the worker it starts or ends, or nobody.
LEMMA LineIsCharged ==
    ASSUME NEW record, NEW events, Told(record, events)
    PROVE /\ Spawns(record) =>
                /\ Charged(events) = WorkerStarted(ledger, record.worker, record.depth)
                /\ BreachOf(events) = StartBreach(ledger, record.worker, record.depth)
          /\ Finishes(record) => /\ Charged(events) = WorkerFinished(ledger, record.worker)
                                 /\ BreachOf(events) = NoBreach
          /\ ~Spawns(record) /\ ~Finishes(record) =>
                Charged(events) = ledger /\ BreachOf(events) = NoBreach
<1>1. CASE Spawns(record) /\ ~Finishes(record) /\ events = <<Start(record)>>
  <2>1. /\ HasWorkerEvent(events) /\ Head(events) = Start(record)
        /\ Start(record).kind = "runtime.activity.started"
        /\ Start(record).worker = record.worker /\ Start(record).depth = record.depth
    BY <1>1 DEF HasWorkerEvent, Start, Canonical
  <2> QED
    BY <1>1, <2>1 DEF Charged, BreachOf
<1>2. CASE ~Spawns(record) /\ Finishes(record) /\ events = <<Finish(record)>>
  <2>1. /\ HasWorkerEvent(events) /\ Head(events) = Finish(record)
        /\ Finish(record).kind = "runtime.activity.finished"
        /\ Finish(record).worker = record.worker
    BY <1>2 DEF HasWorkerEvent, Finish, Canonical
  <2> QED
    BY <1>2, <2>1 DEF Charged, BreachOf
<1>3. CASE ~Spawns(record) /\ ~Finishes(record)
  <2>1. \A i \in DOMAIN events : events[i].activity # "native_worker"
    BY <1>3 DEF Told, Message, ToolStart, ToolFinish, ToolUse, Plain, Canonical
  <2>2. ~HasWorkerEvent(events)
    BY <2>1 DEF HasWorkerEvent
  <2> QED
    BY <1>3, <2>2 DEF Charged, BreachOf
<1> QED
  BY <1>1, <1>2, <1>3 DEF Told

-----------------------------------------------------------------------------
(* The turn.                                                               *)

\* As long as the turn is read nothing has drifted, the ledger counts the
\* provider's workers and the history holds its messages and its result.  What
\* ends the reading is a refusal exactly when something has drifted.
TurnHolds ==
    /\ reading = "on" =>
          /\ ~drifted /\ running \subseteq Workers
          /\ ledger \in [started : Nat, live : SUBSET Workers]
          /\ ledger.live = running /\ ledger.started = spawned
          /\ Committed(history, said)
          /\ over \in BOOLEAN /\ (over <=> Results(history) # {})
    /\ drifted \in BOOLEAN
    /\ reading \in Refusals <=> drifted

LEMMA EndedIsResults == Ended <=> Results(history) # {}
  BY DEF Ended, Results

LEMMA PinnedLineKeeps ==
    ASSUME TurnHolds, NEW record \in PinnedRecords, Line(record), UNCHANGED drifted
    PROVE TurnHolds'
<1> DEFINE events == NormalizeLine(record).events
<1>1. /\ reading = "on" /\ ~drifted /\ running \subseteq Workers
      /\ ledger \in [started : Nat, live : SUBSET Workers]
      /\ ledger.live = running /\ ledger.started = spawned
      /\ Committed(history, said) /\ over \in BOOLEAN /\ (over <=> Results(history) # {})
      /\ drifted' = FALSE
  BY DEF TurnHolds, Line
<1>2. /\ NormalizeLine(record).refusal = "none" /\ Told(record, events)
      /\ Spawns(record) \/ Finishes(record) => record.worker \in Workers
      /\ record.depth \in Nat
      /\ Spawns(record) => record.worker \notin running
  BY <1>1, PinnedIsRead DEF Reads
<1> HIDE DEF events
<1>3. /\ Writes(record)
      /\ ledger' = Charged(events)
      /\ \/ reading' = BreachOf(events) /\ BreachOf(events) # NoBreach
         \/ reading' = "on" /\ BreachOf(events) = NoBreach /\ history' = Recorded(events)
  BY <1>1, <1>2 DEF Line, events
<1>4. CASE reading' # "on"
  <2>1. reading' \notin Refusals
    BY <1>3, <1>4 DEF BreachOf, StartBreach, DepthExceeded, BudgetExceeded, NoBreach, Refusals
  <2> QED
    BY <1>1, <1>4, <2>1 DEF TurnHolds
<1>5. CASE reading' = "on"
  <2>1. BreachOf(events) = NoBreach /\ history' = Recorded(events)
    BY <1>3, <1>5 DEF BreachOf, StartBreach, DepthExceeded, BudgetExceeded, NoBreach
  <2>2. /\ ledger' \in [started : Nat, live : SUBSET Workers]
        /\ ledger'.live = running' /\ ledger'.started = spawned' /\ running' \subseteq Workers
    <3>1. CASE Spawns(record)
      <4>1. ~(record.depth > MaxDepth)
        BY <1>2, <2>1, <3>1, LineIsCharged DEF StartBreach, DepthExceeded, NoBreach
      <4>2. ledger' = [started |-> ledger.started + 1, live |-> ledger.live \cup {record.worker}]
        BY <1>2, <1>3, <3>1, <4>1, LineIsCharged DEF WorkerStarted
      <4>3. running' = running \cup {record.worker} /\ spawned' = spawned + 1
        BY <1>3, <3>1 DEF Writes, Spawns
      <4> QED
        BY <1>1, <1>2, <3>1, <4>2, <4>3
    <3>2. CASE Finishes(record)
      <4>1. ledger' = [ledger EXCEPT !.live = @ \ {record.worker}]
        BY <1>2, <1>3, <3>2, LineIsCharged DEF WorkerFinished
      <4>2. running' = running \ {record.worker} /\ spawned' = spawned
        BY <1>3, <3>2 DEF Writes, Spawns, Finishes
      <4> QED
        BY <1>1, <4>1, <4>2
    <3>3. CASE ~Spawns(record) /\ ~Finishes(record)
      <4>1. ledger' = ledger
        BY <1>2, <1>3, <3>3, LineIsCharged
      <4>2. running' = running /\ spawned' = spawned
        BY <1>3, <3>3 DEF Writes, Finishes
      <4> QED
        BY <1>1, <4>1, <4>2
    <3> QED
      BY <3>1, <3>2, <3>3
  <2>3. /\ Committed(history', said') /\ over' \in BOOLEAN
        /\ over' <=> Results(history') # {}
    <3>1. CASE Results(history) # {}
      <4>1. history' = history
        BY <2>1, <3>1, EndedIsResults DEF Recorded
      <4>2. said' = said /\ over' = TRUE
        BY <1>1, <1>3, <3>1 DEF Writes
      <4> QED
        BY <1>1, <3>1, <4>1, <4>2
    <3>2. CASE Results(history) = {}
      <4>1. history' = history \o events
        BY <2>1, <3>2, EndedIsResults DEF Recorded
      <4>2. /\ Speaks(record) => said' = said + 1
            /\ ~Speaks(record) => said' = said
            /\ over' \in BOOLEAN /\ (over' <=> Ends(record))
        <5>1. ~over
          BY <1>1, <3>2
        <5> QED
          BY <1>3, <5>1 DEF Writes
      <4>3. /\ Speaks(record) => Committed(history \o events, said + 1)
            /\ ~Speaks(record) => Committed(history \o events, said)
            /\ Ends(record) => Results(history \o events) # {}
            /\ ~Ends(record) => Results(history \o events) = {}
        <5>1. Committed(history, said) /\ record.depth \in Nat /\ Told(record, events)
          BY <1>1, <1>2
        <5>2. Spawns(record) \/ Finishes(record) => record.worker \in Workers
          BY <1>2
        <5> QED
          BY <3>2, <5>1, <5>2, LineIsCommitted
      <4> QED
        BY <4>1, <4>2, <4>3
    <3> QED
      BY <3>1, <3>2
  <2>4. reading' \notin Refusals
    BY <1>5 DEF Refusals
  <2> QED
    BY <1>1, <1>5, <2>2, <2>3, <2>4 DEF TurnHolds
<1> QED
  BY <1>4, <1>5

LEMMA DriftedLineEnds ==
    ASSUME TurnHolds, NEW record \in PinnedRecords, NEW other \in Drifted(record),
           Line(other), drifted' = TRUE
    PROVE TurnHolds'
<1>1. running \subseteq Workers
  BY DEF TurnHolds, Line
<1>2. NormalizeLine(other).refusal \in Refusals
  BY <1>1, DriftIsRefused DEF IsRefused
<1>3. reading' \in Refusals
  BY <1>2 DEF Line, Refusals
<1>4. reading' # "on"
  BY <1>3 DEF Refusals
<1> QED
  BY <1>3, <1>4 DEF TurnHolds

LEMMA TurnHoldsAlways == Spec => []TurnHolds
<1>1. Init => TurnHolds
  <2> SUFFICES ASSUME Init PROVE TurnHolds
    OBVIOUS
  <2>1. Messages(<<>>) = {} /\ Results(<<>>) = {} /\ <<>> \in Seq(EventType)
    BY DEF Messages, Results
  <2>2. /\ Committed(history, said) /\ over \in BOOLEAN
        /\ over <=> Results(history) # {}
    BY <2>1, FS_EmptySet DEF Init, Committed
  <2>3. /\ ledger \in [started : Nat, live : SUBSET Workers]
        /\ ledger.live = running /\ ledger.started = spawned /\ running \subseteq Workers
    BY DEF Init, EmptyLedger
  <2> QED
    BY <2>2, <2>3 DEF Init, TurnHolds, Refusals
<1>2. TurnHolds /\ [Next]_vars => TurnHolds'
  <2> SUFFICES ASSUME TurnHolds, [Next]_vars PROVE TurnHolds'
    OBVIOUS
  <2>1. CASE PinnedLine
    BY <2>1, PinnedLineKeeps DEF PinnedLine
  <2>2. CASE DriftedLine
    BY <2>2, DriftedLineEnds DEF DriftedLine
  <2>3. CASE UNCHANGED vars
    BY <2>3 DEF vars, TurnHolds, Committed
  <2> QED
    BY <2>1, <2>2, <2>3 DEF Next
<1> QED
  BY <1>1, <1>2, PTL DEF Spec

\* A turn made of what a pinned version writes is never refused, whatever its
\* order and however many its lines (normalize_claude_line, normalize_codex_line).
THEOREM PinnedTurnsSurvive == Spec => []PinnedTurnSurvives
<1>1. TurnHolds => PinnedTurnSurvives
  BY DEF TurnHolds, PinnedTurnSurvives
<1> QED
  BY <1>1, TurnHoldsAlways, PTL

\* A record that has moved in any place its meaning rests on ends the reading
\* with a refusal, and nothing is made of it (the failures of normalize.py).
THEOREM DriftsFailClosed == Spec => []DriftFailsClosed
<1>1. TurnHolds => DriftFailsClosed
  BY DEF TurnHolds, DriftFailsClosed
<1> QED
  BY <1>1, TurnHoldsAlways, PTL

\* While the turn is read the ledger is what the provider has at work and ever
\* started (RunObserver._breached over the worker events of a line).
THEOREM LedgerKeepsUp == Spec => []LedgerFollowsTheProvider
<1>1. TurnHolds => LedgerFollowsTheProvider
  BY DEF TurnHolds, LedgerFollowsTheProvider
<1> QED
  BY <1>1, TurnHoldsAlways, PTL

\* While the turn is read its messages are committed one for one, and its
\* result once and last (RunObserver._emit).
THEOREM MessagesAreCommitted == Spec => []EveryMessageIsCommitted
<1>1. TurnHolds => EveryMessageIsCommitted
  BY EndedIsResults DEF TurnHolds, EveryMessageIsCommitted, Committed, Messages, Results
<1> QED
  BY <1>1, TurnHoldsAlways, PTL
=============================================================================
