------------------------------ MODULE Normalize ------------------------------
(***************************************************************************)
(* Provider records to canonical events (whole_life/runtime/normalize.py). *)
(*                                                                         *)
(* A record is a JSON object seen from the schema: its kind, its subtype   *)
(* (the item type of a Codex item), the fields that are missing from it or *)
(* hold something of another type, and the few values that decide an       *)
(* event.  What the code checks and never reads is only a field here.      *)
(***************************************************************************)
EXTENDS Naturals, Sequences, FiniteSetsExt

CONSTANTS
    Workers,    \* identifiers the provider gives its native workers
    NoWorker    \* none is named

ASSUME WorkersAssumption == NoWorker \notin Workers

\* A depth the record does not give.
NoDepth == 0

\* What one line becomes: its canonical events, or why it was refused.
Emitted(events) == [events |-> events, refusal |-> "none"]
Refused(code) == [events |-> <<>>, refusal |-> code]
Mismatch == Refused("StdoutSchemaMismatch")
Unknown == Refused("UnknownProviderEvent")

Canonical(kind, activity, worker, depth) ==
    [kind |-> kind, activity |-> activity, worker |-> worker, depth |-> depth]

Plain(kind) == Canonical(kind, "none", NoWorker, NoDepth)
ToolUse(kind) == Canonical(kind, "tool_use", NoWorker, NoDepth)

TerminalKinds == {"turn.completed", "turn.failed"}

\* Required fields are there and hold what they should; optional ones do if
\* they are there at all.
Fits(record, required, optional) ==
    /\ required \cap (record.missing \cup record.mistyped) = {}
    /\ optional \cap record.mistyped = {}

Checked(record, required, optional, events) ==
    IF Fits(record, required, optional) THEN Emitted(events) ELSE Mismatch

-----------------------------------------------------------------------------
(* Codex.                                                                  *)

\* The required fields of each item type there is, next to its id and type.
ItemFields ==
    [agent_message |-> {"text"}, reasoning |-> {"text"}, error |-> {"message"},
     web_search |-> {"query"}, todo_list |-> {"items"},
     command_execution |-> {"command", "aggregated_output", "status"},
     file_change |-> {"changes", "status"},
     mcp_tool_call |-> {"server", "tool", "arguments", "status"},
     collab_tool_call |-> {"tool", "sender_thread_id", "receiver_thread_ids",
                           "agents_states", "prompt", "status"}]

\* Those that may hold anything: missing they are noticed, mistyped they never are.
UntypedFields == {"arguments"}

\* The fields that are checked where they are present; null is no exit code.
OptionalFields(item) ==
    CASE item = "command_execution" -> {"exit_code"}
      [] item = "mcp_tool_call" -> {"result", "error"}
      [] OTHER -> {}

\* Recognised and no event: what the provider keeps for itself.
SilentItems == {"reasoning", "todo_list", "error"}

\* A message exists once it is complete; every other item is a tool activity.
ItemEvents(record) ==
    CASE record.kind = "item.updated" \/ record.sub \in SilentItems -> <<>>
      [] record.sub = "agent_message" ->
            IF record.kind = "item.completed" THEN <<Plain("message.committed")>> ELSE <<>>
      [] OTHER ->
            <<ToolUse(IF record.kind = "item.started" THEN "runtime.activity.started"
                                                      ELSE "runtime.activity.finished")>>

\* A collaboration call that names a receiver is a delegation this build
\* cannot count, and is refused like a schema that has moved.
Item(record) ==
    IF ~Fits(record, {"item", "item_type"}, {}) THEN Mismatch
    ELSE IF record.sub \notin DOMAIN ItemFields THEN Unknown
    ELSE IF record.sub = "collab_tool_call" /\ record.worker # NoWorker THEN Mismatch
    ELSE Checked(record, {"id"} \cup ItemFields[record.sub],
                 OptionalFields(record.sub), ItemEvents(record))

NormalizeCodex(record) ==
    IF ~Fits(record, {"type"}, {}) THEN Mismatch
    ELSE CASE record.kind = "thread.started" -> Checked(record, {"thread_id"}, {}, <<>>)
           [] record.kind = "turn.started" -> Emitted(<<Plain("turn.started")>>)
           [] record.kind = "turn.completed" ->
                Checked(record, {"usage"}, {}, <<Plain("turn.completed")>>)
           [] record.kind = "turn.failed" ->
                Checked(record, {"error"}, {}, <<Plain("turn.failed")>>)
           [] record.kind = "error" ->
                Checked(record, {"message"}, {}, <<Plain("turn.failed")>>)
           [] record.kind \in {"item.started", "item.updated", "item.completed"} ->
                Item(record)
           [] OTHER -> Unknown

-----------------------------------------------------------------------------
(* Claude.                                                                 *)

SystemSubtypes == {"init", "thinking_tokens", "task_started", "task_updated",
                   "task_progress", "task_notification"}
ResultSubtypes == {"success", "error_max_turns", "error_during_execution"}
AssistantBlocks == {"text", "thinking", "redacted_thinking", "tool_use"}
UserBlocks == {"text", "tool_result"}

\* Mutant of WorkerStarts: a start is taken without its depth.
WorkerStartsAtAnyDepth(record) ==
    Checked(record, {"task_id"}, {"spawn_depth"},
            <<Canonical("runtime.activity.started", "native_worker", record.worker,
                        IF "spawn_depth" \in record.missing THEN NoDepth ELSE record.depth)>>)

\* The depth is the broker's means of holding the depth bound, so a start
\* without it is refused.
WorkerStarts(record) ==
    Checked(record, {"task_id", "spawn_depth"}, {},
            <<Canonical("runtime.activity.started", "native_worker", record.worker,
                        record.depth)>>)

\* A finish need not give it, and any wording of its status is a finish.
WorkerFinishes(record) ==
    Checked(record, {"status", "task_id"}, {"spawn_depth"},
            <<Canonical("runtime.activity.finished", "native_worker", record.worker,
                        IF "spawn_depth" \in record.missing THEN NoDepth ELSE record.depth)>>)

\* Mutant of System: an update of a task is taken for its end.
SystemUpdateFinishes(record) ==
    IF record.sub = "task_updated" THEN WorkerFinishes(record)
    ELSE IF record.sub = "task_started" THEN WorkerStarts(record)
    ELSE IF record.sub = "task_notification" THEN WorkerFinishes(record)
    ELSE Emitted(<<>>)

\* What happens between the start and the end of a worker is no event.
System(record) ==
    IF ~Fits(record, {"subtype", "session_id"}, {}) \/ record.sub \notin SystemSubtypes
    THEN Mismatch
    ELSE CASE record.sub = "task_started" -> WorkerStarts(record)
           [] record.sub = "task_notification" -> WorkerFinishes(record)
           [] record.sub = "init" -> Emitted(<<Plain("turn.started")>>)
           [] OTHER -> Emitted(<<>>)

BlockTypes(record) == {record.blocks[i].type : i \in DOMAIN record.blocks}

\* The first block at fault decides how the line is refused.
CheckedBlocks(record, known, events) ==
    LET faulty == {i \in DOMAIN record.blocks :
                       record.blocks[i].type \notin known \/ ~record.blocks[i].fits}
    IN  IF ~Fits(record, {"message", "content"}, {}) THEN Mismatch
        ELSE IF faulty = {} THEN Emitted(events)
        ELSE IF record.blocks[Min(faulty)].type \notin known THEN Unknown
        ELSE Mismatch

\* Mutant of Assistant: a line with a tool call in it loses its prose.
AssistantOneEvent(record) ==
    CheckedBlocks(record, AssistantBlocks,
        IF "tool_use" \in BlockTypes(record) THEN <<ToolUse("runtime.activity.started")>>
        ELSE IF "text" \in BlockTypes(record) THEN <<Plain("message.committed")>>
        ELSE <<>>)

\* One message and one activity at most, however many blocks there are; the
\* message comes first.
Assistant(record) ==
    CheckedBlocks(record, AssistantBlocks,
        (IF "text" \in BlockTypes(record) THEN <<Plain("message.committed")>> ELSE <<>>)
        \o (IF "tool_use" \in BlockTypes(record)
            THEN <<ToolUse("runtime.activity.started")>> ELSE <<>>))

\* Mutant of User: only results of tools are expected there.
UserOnlyResults(record) ==
    CheckedBlocks(record, {"tool_result"}, <<ToolUse("runtime.activity.finished")>>)

\* Prose in a user message restates the task of a worker and is no event.
User(record) ==
    CheckedBlocks(record, UserBlocks,
        IF "tool_result" \in BlockTypes(record)
        THEN <<ToolUse("runtime.activity.finished")>> ELSE <<>>)

\* The error flag and not the subtype says how the turn ended.
Result(record) ==
    IF record.sub \notin ResultSubtypes THEN Mismatch
    ELSE Checked(record, {"subtype", "is_error"}, {},
                 <<Plain(IF record.failed THEN "turn.failed" ELSE "turn.completed")>>)

NormalizeClaude(record) ==
    IF ~Fits(record, {"type"}, {}) THEN Mismatch
    ELSE CASE record.kind = "rate_limit_event" -> Checked(record, {"session_id"}, {}, <<>>)
           [] record.kind = "system" -> System(record)
           [] record.kind = "assistant" -> Assistant(record)
           [] record.kind = "user" -> User(record)
           [] record.kind = "result" -> Result(record)
           [] OTHER -> Unknown
=============================================================================
