----------------------------- MODULE ProviderTurn -----------------------------
(***************************************************************************)
(* A provider's turn, record by record, and what the runtime makes of it:  *)
(* each line is normalized and its events are charged to the ledger and    *)
(* recorded (the loop of RunObserver._read_stdout over normalize.py).      *)
(*                                                                         *)
(* The provider is the environment: it writes the records its pinned       *)
(* version is known to write (src/tests/recordings), or one that differs   *)
(* from them in one place.                                                 *)
(***************************************************************************)
EXTENDS Normalize, DelegationLedger, SequencesExt

CONSTANT MaxEvents     \* bound of the model: reading goes on until that many were recorded

VARIABLES
    provider,   \* which of the two CLIs it is
    \* the provider's own state
    running,    \* native workers it has at work
    spawned,    \* how many it ever started
    over,       \* it wrote the result of the turn, and may write on
    said,       \* how many messages it completed before that
    drifted,    \* it wrote a record that differs from what was pinned
    \* the runtime's
    ledger, history,
    reading     \* "on", or what ended it: a refusal or a breach

vars == <<provider, running, spawned, over, said, drifted, ledger, history, reading>>

Init ==
    /\ provider \in {"claude", "codex"}
    /\ running = {} /\ spawned = 0 /\ over = FALSE /\ said = 0 /\ drifted = FALSE
    /\ ledger = EmptyLedger /\ history = <<>> /\ reading = "on"

-----------------------------------------------------------------------------
(* What a provider writes.                                                 *)

Record(kind, sub) ==
    [kind |-> kind, sub |-> sub, missing |-> {}, mistyped |-> {}, blocks |-> <<>>,
     worker |-> NoWorker, depth |-> NoDepth, failed |-> FALSE]

Block(type) == [type |-> type, fits |-> TRUE]
Blocks(types) == {[i \in DOMAIN s |-> Block(s[i])] : s \in BoundedSeq(types, 2)}

TaskStarted(w) ==
    {[Record("system", "task_started") EXCEPT !.worker = w, !.depth = d] : d \in {1, 2}}

\* Only the start of a task gives its depth; its end may be written twice.
TaskRecord(sub, w) ==
    [Record("system", sub) EXCEPT !.worker = w, !.missing = {"spawn_depth"}]

ClaudeRecords ==
    {Record("rate_limit_event", "none"), Record("system", "init"),
     Record("system", "thinking_tokens")}
    \cup (UNION {TaskStarted(w) : w \in Workers \ running})
    \cup {TaskRecord(sub, w) : sub \in {"task_updated", "task_progress"}, w \in running}
    \cup {TaskRecord("task_notification", w) : w \in Workers}
    \cup {[Record("assistant", "none") EXCEPT !.blocks = b] :
              b \in Blocks({"text", "thinking", "redacted_thinking", "tool_use"})}
    \cup {[Record("user", "none") EXCEPT !.blocks = b] : b \in Blocks({"text", "tool_result"})}
    \cup {[Record("result", sub) EXCEPT !.failed = f] :
              sub \in {"success", "error_max_turns", "error_during_execution"}, f \in BOOLEAN}

CodexItems == {"agent_message", "reasoning", "todo_list", "error", "command_execution",
               "file_change", "mcp_tool_call", "web_search", "collab_tool_call"}

CodexRecords ==
    {Record(kind, "none") :
        kind \in {"thread.started", "turn.started", "turn.completed", "turn.failed", "error"}}
    \cup {Record(kind, item) :
              kind \in {"item.started", "item.updated", "item.completed"}, item \in CodexItems}

PinnedRecords == IF provider = "claude" THEN ClaudeRecords ELSE CodexRecords

\* The fields of a record on which its meaning rests.
Decisive(record) ==
    {"type"} \cup
    CASE record.kind \in {"rate_limit_event"} -> {"session_id"}
      [] record.kind = "system" ->
            {"subtype", "session_id"}
            \cup (IF record.sub = "task_started" THEN {"task_id", "spawn_depth"} ELSE {})
            \cup (IF record.sub = "task_notification" THEN {"task_id", "status"} ELSE {})
      [] record.kind \in {"assistant", "user"} -> {"message", "content"}
      [] record.kind = "result" -> {"subtype", "is_error"}
      [] record.kind = "thread.started" -> {"thread_id"}
      [] record.kind = "turn.completed" -> {"usage"}
      [] record.kind = "turn.failed" -> {"error"}
      [] record.kind = "error" -> {"message"}
      [] record.kind \in {"item.started", "item.updated", "item.completed"} ->
            {"item", "item_type", "id"} \cup ItemFields[record.sub]
      [] OTHER -> {}

\* Those that may be absent and are checked where they are not.
Optional(record) ==
    CASE record.sub = "task_notification" -> {"spawn_depth"}
      [] record.kind \in {"item.started", "item.updated", "item.completed"} ->
            OptionalFields(record.sub)
      [] OTHER -> {}

\* The same record from a version that was not pinned: a field is gone or
\* holds something else, a name is new, a block is, or a collaboration call
\* names whom it was sent to.
Drifted(record) ==
    {[record EXCEPT !.missing = @ \cup {f}] : f \in Decisive(record)}
    \cup {[record EXCEPT !.missing = @ \ {f}, !.mistyped = {f}] :
              f \in (Decisive(record) \cup Optional(record)) \ UntypedFields}
    \cup {[record EXCEPT !.kind = "new"]}
    \cup {[record EXCEPT !.sub = "new"] : k \in {record.kind} \ {"rate_limit_event",
              "assistant", "user", "thread.started", "turn.started", "turn.completed",
              "turn.failed", "error"}}
    \cup {[record EXCEPT !.blocks[i].type = "new"] : i \in DOMAIN record.blocks}
    \cup {[record EXCEPT !.blocks[i].fits = FALSE] : i \in DOMAIN record.blocks}
    \cup {[record EXCEPT !.worker = w] :
              w \in IF record.sub = "collab_tool_call" THEN Workers ELSE {}}

Spawns(record) == record.sub = "task_started"
Speaks(record) ==
    \/ record.kind = "assistant" /\ \E i \in DOMAIN record.blocks : record.blocks[i].type = "text"
    \/ record.kind = "item.completed" /\ record.sub = "agent_message"

Ends(record) == record.kind \in {"result", "turn.completed", "turn.failed", "error"}

\* The provider writes a record, and with it does what the record says.
Writes(record) ==
    /\ running' = CASE Spawns(record) -> running \cup {record.worker}
                    [] record.sub = "task_notification" -> running \ {record.worker}
                    [] OTHER -> running
    /\ spawned' = IF Spawns(record) THEN spawned + 1 ELSE spawned
    /\ over' = (over \/ Ends(record))
    /\ said' = IF Speaks(record) /\ ~over THEN said + 1 ELSE said

-----------------------------------------------------------------------------
(* What is made of it.                                                     *)

NormalizeLine(record) ==
    IF provider = "claude" THEN NormalizeClaude(record) ELSE NormalizeCodex(record)

HasWorkerEvent(events) == \E i \in DOMAIN events : events[i].activity = "native_worker"

\* A line has at most one worker event, and then no other.
Charged(events) ==
    IF ~HasWorkerEvent(events) THEN ledger
    ELSE LET e == Head(events)
         IN  IF e.kind = "runtime.activity.finished"
             THEN WorkerFinished(ledger, e.worker)
             ELSE WorkerStarted(ledger, e.worker, e.depth)

BreachOf(events) ==
    IF ~HasWorkerEvent(events) \/ Head(events).kind = "runtime.activity.finished"
    THEN NoBreach
    ELSE StartBreach(ledger, Head(events).worker, Head(events).depth)

Ended == \E i \in DOMAIN history : history[i].kind \in TerminalKinds

\* A turn that has ended goes on being read and is not recorded any more.  A
\* terminal event is alone on its line.
Recorded(events) == IF Ended THEN history ELSE history \o events

\* The first refusal or breach ends the reading.
Line(record) ==
    LET line == NormalizeLine(record)
        breach == BreachOf(line.events)
    IN  /\ reading = "on" /\ Len(history) < MaxEvents
        /\ Writes(record)
        /\ IF line.refusal # "none"
           THEN reading' = line.refusal /\ UNCHANGED <<ledger, history>>
           ELSE /\ ledger' = Charged(line.events)
                /\ IF breach # NoBreach
                   THEN reading' = breach /\ UNCHANGED history
                   ELSE history' = Recorded(line.events) /\ UNCHANGED reading
        /\ UNCHANGED provider

PinnedLine == \E record \in PinnedRecords : Line(record) /\ UNCHANGED drifted

DriftedLine ==
    \E record \in PinnedRecords : \E other \in Drifted(record) :
        Line(other) /\ drifted' = TRUE

Next == PinnedLine \/ DriftedLine

Spec == Init /\ [][Next]_vars

-----------------------------------------------------------------------------
(* Properties.                                                             *)

Refusals == {"StdoutSchemaMismatch", "UnknownProviderEvent"}

\* A turn made of what the pinned versions write, in any order and any mix of
\* blocks, is never refused (the notes on #51, and on tool turns that
\* once were a stream failure while the fixtures stayed green).
PinnedTurnSurvives == reading \in Refusals => drifted

\* A record whose schema has moved in a place its meaning rests on ends the
\* reading at once: nothing is made of it, be it a start without a depth, a
\* result without its flag or a message with a block that is not known (the
\* rule that an unrecognised shape is a failure).
DriftFailsClosed == drifted => reading \in Refusals

\* As long as the turn is read the ledger counts the workers the provider has
\* at work, and how many it ever had: no progress report ends one, no end is
\* missed, no line counts twice (the worker events of normalize_claude_line,
\* DelegationLedger).
LedgerFollowsTheProvider ==
    reading = "on" => ledger.live = running /\ ledger.started = spawned

\* Every message the provider completed before its result is committed once,
\* also when its line carries a tool call or several blocks, and none after it
\* is; the result itself is committed, once and last (normalize.py's note on
\* lines with both prose and a tool call, RunObserver._emit).
EveryMessageIsCommitted ==
    reading = "on" =>
        /\ said = Cardinality({i \in DOMAIN history : history[i].kind = "message.committed"})
        /\ over = Ended
        /\ \A i \in DOMAIN history : history[i].kind \in TerminalKinds => i = Len(history)
=============================================================================
