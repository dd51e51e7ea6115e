# TLA+ models of cgent

cgent is a command-line AI agent in C11: it keeps a conversation with a model of
one of several providers, runs the tools the model asks for, talks to MCP servers
and spawns subagents.  This directory holds TLA+ models of the parts where order,
concurrency and failure decide whether it is correct, the TLC configurations that
check them, and TLAPS proofs.  Paths are relative to the repository, whose C code
is under `src/src` and `src/include` and whose README is `src/README.md`.

## 1. Inventory

| component | state | operations | talks to |
|---|---|---|---|
| conversation loop (`core/agent.c`) | `agent->messages`, rounds, retries, `compacting` | `agent_chat`, `agent_chat_stream`, `agent_compact`, `agent_maybe_manage_context` | provider over HTTP, tool batch, REPL, session |
| tool batch (`core/agent.c`, `tools/tool_executor.c`) | `jobs[]`, threads | `agent_execute_tools`, `tool_execute` | registry, approval hook, interrupt flag, handlers |
| approval (`tool_executor.c`, `main.c`, `builtin_tools.c`) | the shared terminal | `prompt_approval`, `prompt_confirm`, the `confirm` tool | tool threads, the user |
| interrupt flag (`core/interrupt.c`) | `g_interrupted` | set by SIGINT, polled, cleared by the REPL | every loop |
| file tools (`tools/builtin_tools.c`) | the files | `read_file`, `write_file`, `edit`, `apply_patch` | tool threads |
| todo list (`tools/todo.c`) | global array, mutex | write, update, list | tool threads |
| mailbox (`mailbox/mailbox.c`) | one file per message | send, check, clear | tool threads, other cgent processes |
| command execution (`platform/os.c`) | child, process group, pipe, buffer | `os_exec_capture_timeout` | shell tools, interrupt flag |
| subagent (`subagent/subagent.c`) | handle, two pipes, child | spawn, poll, followup, stop, wait, abort, `subagent_main` | conversation loop in the child |
| MCP client (`mcp/mcp_client.c`, `mcp_runtime.c`) | session, ids | start, list, call, stop | server process |
| tool registry and bridges (`tools/tool_registry.c`, `mcp_runtime.c`) | array of tools, bridge table | add, find, remove; start and stop the bridges, dispatch a call | everything that names a tool |
| HTTP client (`network/http_client.c`) | socket, TLS, framing | connect, read headers and body | conversation loop |
| streaming (`network/sse_reader.c`, `core/agent.c`) | parser buffer, merged deltas | feed, dispatch, merge, accept | HTTP, conversation loop |
| providers (`protocol/*.c`) | none | build request, parse response, parse chunk | conversation loop |
| configuration (`config/config.c`, `args.c`, `main.c`) | `settings.json`, environment, `config_t` | load, apply, switch model, `cgent config` | REPL, other cgent processes |
| session store (`session/session.c`) | a JSON lines file per session | add, track usage, save, load | REPL |
| REPL (`main.c`) | agent, session, counters | start, resume, turn, `/compact`, `/clear`, `/model`, quit | all of the above |
| line editor (`platform/utf8_input.c`, `main.c`) | line, cursor, history, terminal mode | a handler per key, completion | REPL, the user |
| agent and skill files, MCP configuration, JSON | files | parse, copy, print | REPL |

Behaviours that are hard to get right, and to test:

* threads of one batch against each other, the calling thread and SIGINT, and
  prompts of several threads on one terminal;
* processes (shell, subagent, MCP server) that exit, hang, close only some of
  their descriptors or never start, while the parent waits, polls, kills, writes;
* deadlines that race with late answers and with the exit of a child;
* a history that is cleared, replaced and trimmed around requests that may fail;
* a process-wide flag that each loop polls at its own points;
* files and lists that several tool threads read, change and write back;
* answers cut into events, chunks and reads at any place, from a connection that
  may break at any of them;
* lines, requests and files longer than what one read, pipe or cap holds;
* a session that is saved line by line, cut by a crash and resumed by a later run;
* settings that another process rewrites while a conversation uses them;
* buffers, pipes, caps and timeouts at exactly their limit.

What makes each component correct:

* tool batch: each call is settled once, calls that must not overlap do not,
  results come in call order, no thread outlives the batch, Ctrl-C stops it;
* approval: what runs is what the user said yes to;
* conversation loop: requests are well formed (calls paired with results), about
  the latest input, retried only when nothing was shown, bounded in number;
* command execution: output is complete or said not to be, the command tree is
  gone afterwards, the call ends in bounded time;
* subagent: answers arrive once and in order, stop is graceful, no child is left
  behind, an answer given in time is returned;
* MCP client: a result belongs to its request, a server that went silent is not
  asked again, no server is left behind;
* bridges: a call of an offered tool reaches the server and tool it was offered for;
* file tools: a change is exactly what the reply says, a refused one changes nothing;
* todo list, mailbox: a confirmed change is there, a message is not lost or missed;
* streaming: the message is the same however it was framed, a cut one is a
  beginning of it, and every request ends;
* session: the file is what was said, over all runs, and the totals count every
  request once;
* configuration: a request carries a key meant for the server it goes to;
* line editor: it edits characters although it works on bytes.

## 2. Modules

| module | models | state and actions in terms of the code |
|---|---|---|
| `ToolBatch` | what a batch of tool calls promises | abstract: calls wait, run, are settled, and then all are published |
| `ToolExec` | `agent_execute_tools` with `tool_execute` | `pc`/`i` are the calling thread's loop and index, `started`, `result`, `error` the fields of `jobs[]`, `exec` the stage of each `tool_execute`, `intr` the flag.  `LaunchHead`, `SpawnThread`, `SpawnFails` are the launch loop; `SeqHead` (with `Skip`) and `Dispatch` the sequential loop; `CollectAndReply` the join and the TOOL messages; `Refuse`, `EnterHandler`, `HandlerReturns` run in whichever thread has the call |
| `Approval` | the hook of `tool_execute` with the prompts of `main.c` | `screen` is stderr, `input` what is unread of stdin, in the pieces of up to 63 bytes that `fgets` takes, `rest` (a ghost) the pieces that were not the first of their line, `state` each call's prompt; `EnterRead` takes the lock of stdin that `fgets` holds |
| `AgentChat` | the conversation loop, compaction, and the REPL around it | `msgs` is the history, `task` why `agent_chat` runs, `RoundHead` ... `Answer` one round, `emitted` (a ghost) the attempts at the current request that printed text, `FinishTurn`, `FinishCompact`, `FinishAutoCompact` what the callers do afterwards |
| `HandlerCalls` | the calls of a batch inside their handlers | `call` the batch, `pc` where each thread is, `loc` its locals, `reply` what it returned |
| `FileTools` | `read_file`, `write_file`, `edit`, `apply_patch` | `file` maps paths to lines; a handler reads in one step, `Open` truncates and `Fill` writes, `CannotOpen` is every refused `fopen` and `remove`, `Shown` the cap of `read_file`; `Section` parses a patch, `patch_apply_hunk` places a hunk with offset and fuzz |
| `TodoStore` | the todo tools | `todos` is `g_items`; a change is one step (the mutex is held), the snapshot for the reply another (`TodoReply`) |
| `Mailbox` | send, check, clear | `box` the message files; `SendCreate` and `SendWrite`, the directory scan entry by entry (`ScanOpen`, `ScanEntry`, `ScanUnlink`, `ScanEnd`); `Parses` passes over empty files and those above 1 MB |
| `ToolHandlers` | composes the three | one call's step per step; the promises about overlapping calls |
| `Providers` | `deepseek.c` and `anthropic.c`, the merger of `stream_sse_event`, the one of `agent_parse_response_body` | pure operators: events of an answer (external), `parse_response`, `parse_chunk`, `MergeCalls` and `Receive` for a stream that was asked for, `MergePieces`, `ReadEvent` and `Collected` for one that was not |
| `Stream` | one request: `http_client.c`, `sse_reader.c`, acceptance in `agent.c` | `phase` is where the client reads (status, headers, chunk size, chunk, trailer, block, rest), `wire` the bytes under way in tokens, `line` and `data` the parser, `rx` the merger, `flag`/`woken` Ctrl-C and the read it ended; `Expected` is the reference, the answer with as many calls as there is `Room` for |
| `Config` | `config.c`, `args.c` and the config commands of `main.c` | pure operators from settings, environment and arguments to `config_t`; a key remembers who it was configured for |
| `SessionStore` | `session.c` | pure operators: `SavedLines`, `session_load` of any beginning of a file, `session_track_usage` |
| `McpBridges` | `tool_registry.c`, `mcp_runtime.c` | `Tables`: registry, bridge table, and (a ghost) what was offered; `mcp_bridges_start`, `CallTool`, `mcp_bridges_stop` |
| `Repl` | `main.c`: a run from start to exit or crash, over those three | `disk` the session files, `cfg` and `agent` in memory, `session`, `counted` and `last` the usage marks, `other` a second terminal running `cgent config`; `SaveOpen`, `SaveLine`, `SaveFails` write the file; ghosts `said`, `kept`, `spent`, `dropped`, `damaged` remember what should be there |
| `TextEditor` | what the line editor promises | abstract: a line of characters, a cursor, a history |
| `LineEditor` | `utf8_readline` in raw mode | `buf` and `cursor` in bytes, `pending` the unread input, `pos` and `saved` history browsing; one action per key |
| `Subagent` | the handle and the child | `phase` and `h` the parent's place and handle, `down` and `up` the pipes, `child` and `turn` the loop of `subagent_main` |
| `OsExec` | `os_exec_capture_timeout`, POSIX branch | `pc`, `len`, `marker` the parent; `sh`, `job`, `shOut` the shell, a background job and who holds the pipe; `now`, `wake`, `waited` the clock in ticks, which goes on in the blocking `waitpid`; `missed` (a ghost) says that a kill came before the process group |
| `McpSession` | one MCP session, as `mcp_runtime.c` drives it | `phase`, `method`, `next_id`, `alive` the client, `left` what it has not written yet; `stdin`, `up` the two pipes, the first of limited size (`Write`, `Notify` with `Put`); `down` the requests the server has read; `Take`, `Serve`, `Chat`, `Die` the server |
| `ToolExec_proofs`, `AgentChat_proofs`, `ToolHandlers_proofs`, `Subagent_proofs`, `Repl_proofs`, `Stream_proofs`; `ChildProcess_proofs` for `OsExec` and `McpSession`, `Terminal_proofs` for `Approval` and `LineEditor` | | inductive invariants of the modules named, and the theorems that follow from them (section 4) |
| `MC*` | | the modules TLC is run on; the `.cfg` files give the constants their values |

How they fit.  `AgentChat` takes a whole batch as one step (`UseTools`); `ToolExec`
justifies that, since it implements `ToolBatch`, whose results appear in one step
and after every call is settled.  `ToolExec` in turn leaves open the answer of a
prompt (`Refuse` or `EnterHandler`), which is `Approval`, and what a handler does
between `EnterHandler` and `HandlerReturns`, which is `ToolHandlers` for the tools
that share files, todos and mail, and `OsExec`, `Subagent` and `McpSession` for those
that wait for processes.  `ToolHandlers` lets all calls of its batch overlap,
because these tools are registered as thread safe; that a session is used by one
thread at a time (`McpSession`) is `ExclusiveAlone` of `ToolExec`, as MCP tools are
not.  A request of `AgentChat` is one behaviour of `Stream`: it is interrupted, fails, or
brings a message, and only what `Stream` accepts is answered.  `Repl` in turn takes
`agent_chat` as one step of a turn and follows what outlives it: files, settings,
totals, tables.  The line `Repl` reads is an answer of `LineEditor`.

Definitions whose comment starts with "Slip:", or whose name ends in `_Slip`, are
not part of the models.  Each is a variant of the definition that follows it or
belongs to it, with a mistake a programmer could make there; a property is kept
only if TLC reports it violated when the slip takes the definition's place.

## 3. Runs

A violation run checks one statement of the repository that the code does not
keep, and is a finding in `PROJECT.json`.  All other runs pass.

| run | bounds | states | shows |
|---|---|---|---|
| `tool_batch` | 4 calls, cap of 2 threads | 659 thousand | every schedule, failed thread creation, unknown tool and moment of Ctrl-C; safety, what the replies say, termination, refinement of `ToolBatch` |
| `approval` | 2 risky calls and a `confirm`, lines of one piece or two | 249 thousand | one yes lets at most one call through, if each piece that `fgets` takes is counted; every prompt ends |
| `approval_parallel` | the same, lines of one piece | | finding: with parallel tools (the default) a call the user refused can run |
| `agent_chat` | 2 inputs, 2 rounds, 1 retry, 2 calls per response, limit of 3 messages | 148 thousand | well-formed and current requests through compaction, trimming, `/clear`, Ctrl-C; no doubled output; a streamed turn keeps the answer it showed, or ends with an error or an interrupt; every turn ends |
| `subagent` | 2 follow-ups, pipes of 2 messages | 7 thousand | a child that may hang, fail, be killed or cut short by Ctrl-C; both ways of using the handle |
| `os_exec` | timeout 3, slice 2, cap 3, 4 chunks, 2 Ctrl-C, clock up to 8 while `waitpid` blocks | 24 thousand | output, time and process tree with a shell that forks a job and closes its stdout |
| `mcp_session` | 2 calls of 1 or 3 chunks, a pipe of 2, 2 unasked lines | 33 thousand | late, doubled, erroneous and missing answers, requests by the server, its death, a server that does not read |
| `tool_handlers` | every difference of a 4-line file with up to 2 insertions, as one hunk or cut in two; 9 special patches; every pair of 11 file, 7 todo, 7 mail calls, and triples of mail calls; reads of up to 3 lines | 579 thousand | whichever file cannot be opened, a lone change is exact and a refused one changes nothing, but for the sections of a patch before the one that failed; confirmed changes stand; mail is kept and listed |
| `parallel_edits` | two edits of different lines of one file | | finding: tools marked thread safe lose one another's change |
| `stream` | 36 cases: 2 protocols, 3 framings, streaming or not, 0 to 3 calls with 2 slots, errors; chunks of 1 and 3, 4 tokens under way, 2 Ctrl-C, break at any point | 332 thousand | the message does not depend on framing, chunks or protocol; a cut one is a beginning; requests end |
| `repl` | 2 runs, 2 inputs, 1 request besides the answer, 2 changes of settings; 2 providers, 3 models of which one has no `base_url`; 2 built-in tools and 2 MCP servers with 3 more names, in tables of 4 and 2 | 2.5 million | resumed sessions, crashes in the middle of a save, failed saves, totals, keys, dispatch |
| `line_editor` | 6 keys of 12, up to 5 bytes typed ahead, history of 2 | 402 thousand | bytes of one- and two-byte characters are edited as characters |

Why the bounds are enough.
* `approval`: with a second piece behind any answer, and one left over from before the
  batch, the rest of a line meets a call of each kind.
* `tool_batch` needs calls on both sides of the cap, two exclusive calls and one
  inline call between them: four calls and two threads give all of these.
* `agent_chat` needs an input after a compaction, a compaction that itself uses
  tools, and a history long enough to compact (4 messages after one round with two
  tools).
* `subagent`: a follow-up can be queued behind another, and one more than a pipe
  holds blocks, with two follow-ups and the stop.
* `os_exec`: the slice divides neither the timeout nor fits it twice, one chunk
  more than the cap is written, and the second Ctrl-C comes while the first is
  being handled.  The horizon of 8 is beyond twice the timeout, so the clock passes it
  where it can.
* `mcp_session`: a second call follows a late answer to the first; a request of 3 chunks
  does not fit the pipe, and two of one chunk fill it.
* `tool_handlers`: the file has a line twice, so a hunk can match at two places;
  the second of two hunks depends on the offset of the first, which is negative,
  zero or positive; `check_mailbox` has room for three of the messages, one of which is
  too large to be listed; a third mail call sees what two others do to each other;
  `read_file` shows three of four lines.
* `stream`: a chunk of 3 tokens ends inside a line, between the lines and behind an
  event, and is read whole, for which 4 tokens must fit under way: the three and the
  line end behind them; blocks of 3 do the same with a length; three calls exceed the two slots;
  the second Ctrl-C ends the read behind the one the first ended.
* `repl`: the second run resumes the first one's session, or has one of its own,
  after a crash at each line; the two servers offer the same full name from
  different tools, and one tool more than either table holds: five different names for
  a registry of 4, three of them from servers for a bridge table of 2.  Two changes of
  the settings are two `/model`, or one between the read and the write of `cgent
  config`, or the other way round.  A key is configured, changed and missing.  Both
  servers are enabled, the first may fail to start, and the environment's key is set
  (`Startups`, `Environments`); the proofs are for any of these.
* `line_editor`: a two-byte character typed, cut by the end of the typeahead,
  crossed by the cursor, erased, left for the history and completed; six keys
  are enough to leave a line, return to it and submit it.

Counters that grow for ever in the code are bounded by guards on these constants
only: `Turns`, `Followups`, `MaxOutput`, `Sigints`, `Calls`, `Chatter`, `MaxInterrupts`,
`Window` (what may be under way), `MaxRuns`, `MaxInputs`, `MaxRequests`, `MaxSettings`,
`MaxKeys`, `Typeahead`, `Horizon` (of the clock in `waitpid`).  `Rests`, `Sizes` and `Startups`
bound inputs: what follows in a line, how long a request is, which servers there are.  The code's own limits are constants too: `MaxThreads` (32),
`MaxCalls` (16 in the merger), `BlockSize` (4096), `MaxChecked` (64), `Fuzz` (4), `ReadCap`
(256 KB), `PipeSize` (the system's),
`MAX_REGISTRY` (1024), `MAX_MCP_TOOLS` (512), `HistoryMax`, `EscapeRead` (8).

`CHECK_DEADLOCK FALSE` is set throughout because every model stops: a batch is
published, all prompts are answered, the bound on inputs is reached and the REPL
idles, a handle is released, a command is reaped, a session or request is over,
the keys are used up.  That nothing stops earlier is what the liveness properties
say.

Fairness.
* `ToolExec`: the calling thread and each thread take steps (the scheduler) and
  handlers return, which `OsExec`'s and `McpSession`'s liveness supports.  SIGINT
  need not come.
* `Approval`: strong fairness per prompt, since several readers compete for the
  lock of stdin and it is handed on when a line was read; the user answers.
* `AgentChat`: the loop goes on; a request ends, which is `StreamEnds`.
* `Stream`: the client takes a step it can take, and the service goes on sending or
  closes the connection.  `agent.c:845` passes a `timeout_ms` that
  `http_client.c` never reads, so without the second a request can last for ever;
  Ctrl-C need not come and does not always help.
* `Subagent`: both processes run; the deadlines pass (strong fairness, because the
  clock is compared only at one point of each loop).  A child's turn (`EndTurn`)
  is not fair: it may hang for ever.
* `OsExec`: parent and clock go on and a forked process starts; the command need
  do nothing.
* `McpSession`: the client runs and its timeout passes; the server owes nothing, not
  even to read, so `RequestsEnd` has to except a client stuck in `proc_write` for good.
* `ToolHandlers`, `Repl` and `LineEditor` have safety properties only: no step in
  them waits for another.

### Seen while modelling, not given a run

The models contain these, and they follow from the lines named.  The first seven
contradict a statement of the repository.

* `agent.c:406` a call of a thread-safe tool that the launch loop did not reach
  because 32 threads were running is skipped by the sequential loop as well, and
  gets an empty error reply (`README.md:376`; `SilentOnlyPastCap` bounds it).
* `agent.c:260` `agent_compact` clears the history before it asks for the summary;
  after a failure there is nothing left to trim (`README.md:337`).
* `subagent.c:326` an answer written between the poll that found nothing and the
  `waitpid` is lost (`README.md:248`; `LossOnlyWhenLate` bounds it).
* `os.c:247` a command that is silent for one second is killed as timed out
  (`platform.h:72`).
* `mcp_client.c:143` SIGPIPE keeps its default action, so a write to a server that
  has died ends cgent (`mcp_client.c:251`); `subagent.c:34` has the same for a child.
* `builtin_tools.c:1158` a patch of several files whose later section fails leaves the
  earlier files changed; the tool's description says that it "Fails cleanly if any hunk
  does not match" (`builtin_tools.c:1652`).  That holds of one file (`RefusedPatch`);
  `PatchReachesGoal` states what is left of it for several: the files of the sections
  before the failing one are changed, and no others.
* `main.c:325` says that `--api-key` takes priority, but `-m` clears the key and the
  url of the command line.

Processes:

* `os.c:205` only the child calls `setpgid`, so a `kill(-pid)` right after the fork
  finds no group, and the parent waits for the whole command although
  `os.c:267` says "don't wait for it to finish".  After a Ctrl-C at that moment no timeout
  applies any more (`TwiceTimeoutAtMost` excepts this case by name).
* `os.c:297` a command that closed its stdout and is killed in the reaping loop
  gets exit code 124, but no "timed out" marker (`platform.h:73`).
* `os.c:249` with exactly `OS_EXEC_CAP` bytes captured, the end of the output is
  taken for more of it, and the command is killed and reported as truncated.
* `subagent.c:170` a timeout of 0 becomes 120 s; `subagent.h:49` says "0 = no timeout".
* `mcp_client.c:143` `proc_write` blocks without a time limit and goes on after Ctrl-C: a
  request longer than the pipe holds, to a server that does not read, never ends.
* `mcp_client.c:243` a request of the server's own with the awaited id is taken
  for the response.
* `agent.c:993` after a late Ctrl-C `agent_chat` returns nothing although its answer
  is in the history; `agent_chat_stream` (`agent.c:1388`) returns it.
* The bridge table (512) is smaller than the registry (1024): tools past it are
  offered, but a call is not found.

Streams:

* `network.h:27` declares `timeout_ms` and `agent.c:845` sets it to 120 s, but
  `http_client.c` never reads it.
* A stream with status 200 is accepted wherever the connection broke; one chunk cut
  in the middle is dropped whole.
* One Ctrl-C in a silent chunked stream leaves the client waiting for the trailer's
  empty line, in a loop that does not look at the flag.
* `JoinArgs`: arguments collected so far that end in `}` are replaced by a piece that
  begins with `{`; calls past the sixteenth are dropped; a delta with several calls
  is merged by position, whatever indices it carries.
* A body without length or chunks is read with `SSL_read` even over plain http,
  and is then empty.
* The merger for a service that streams unasked joins differently (no replacement,
  no reasoning, no usage), and does not recognise a body that begins with
  `event:`, as Anthropic's do, or with a comment.

Tools:

* A deleted line that begins with `-- ` is read as a file header; a hunk without
  context inserts one line early; the header `@@ -1,3 +1 @@` is rejected.
* `mailbox.c:79` a message whose file is larger than 1 MB is confirmed as sent, and
  neither listed nor cleared ever after.
* `check_mailbox` and `clear_mailbox` with a recipient compare with memory that they
  have freed; a message to all is deleted by anyone's clear.

Terminal, session, settings:

* `main.c:202` and `main.c:212` read an answer with `fgets` into 64 bytes: what a longer
  line has beyond 63 answers the next prompt, so one line can let two calls through.
* What is typed ahead is swallowed behind an ESC and flushed at each prompt.  The
  read behind an ESC takes 8 bytes: if it stops inside a character, the rest of that
  character is inserted as it is (`EscapesSwallowAll` says when this cannot be).
* The scan for continuation bytes is made for UTF-8; with GBK, left arrow and backspace
  stop inside a character (`utf8_input.c:5` names GBK, and the next line says "Backspace
  deletes full characters").
* `str_common_prefix` compares bytes, so names of skills that part inside a character
  complete to half of it.
* The session file is rewritten in place, so a crash loses its end; the todo list is
  only in the metadata; a resumed session brings back what `/clear` removed.
* `-m` with an unknown name keeps the active model's server and sends the name
  there (`main.c:310` ignores the result).
* `args.c:104` the command line's defaults for temperature, max_tokens and stream
  override settings and environment unless `-m` is given.
* `cgent config` for one provider drops the default models of the others, and
  rewrites `settings.json` in place; with no settings, a key on the command line and
  `-m`, requests go to the default provider's server.
* `/model` keeps the protocol the run started with, and may leave no key.  If the new
  model has no `base_url` (`config.c:320`), its key is sent to the server of that protocol
  (`agent.c:547`), another provider's perhaps; `KeyFitsServer` excepts this case by name
  (`Strayed`).

## 4. Proofs

TLAPS checks these for every value of the constants: any number of calls,
messages, follow-ups, runs, models, servers.  Hardly any of the properties is
inductive; each follows from the inductive invariant of its module, a conjunction of
named parts (`IInv`, with the types).

| proofs of | properties proved | further theorems |
|---|---|---|
| `ToolExec` | `TypeOK`, `ExclusiveAlone`, `RunsAtMostOnce`, `NoJobOutlivesBatch`, `SilentOnlyPastCap`, `AtMostOneLateDispatch`, `RepliesAreTrue` | `ThreadsBounded`; it implements `ToolBatch` (`Refinement`) |
| `Stream` | `StreamedEqualsWhole`, `CutIsPrefix` | |
| `LineEditor` | `WholeCharacters` | it implements `TextEditor` (`Refinement`), both as long as `EscapesSwallowAll` holds |
| `Approval` | `OneCallPerYes` | without parallel tools, and with no line longer than one `fgets` takes, a risky call runs only if the user approved that call (`SequentialApproval`) |
| `AgentChat` | `ToolPairing`, `RequestIsForThisTurn`, `OutputOnce`, `ShownAnswerIsKept` | |
| `ToolHandlers` | `MailIsKept`, `CheckMissesNothing`, `OwnChangeShown`, `ApartIsExact` | a refused patch of one file leaves it as it was (`RefusedPatch`) |
| `OsExec` | `AllOutputKept`, `NothingLeftRunning`, `TwiceTimeoutAtMost` | |
| `Subagent` | `AnswersInOrder`, `StopIsGraceful`, `NoChildLeftBehind`, `LossOnlyWhenLate` | |
| `McpSession` | `ResultIsGenuine`, `NoServerLeftBehind`, `NoCallAfterSilence` | |
| `Repl` | `SessionIsTranscript`, `UsageAccounted`, `OfferedCallsArrive`, `KeyFitsServer` | |

So every invariant that a run checks is proved but one (`PatchReachesGoal`), and
every action property.  The `Invariance` theorems are all proved in the same way: a
lemma for `Init`, one for each action (or for each part of the invariant an action can
disturb), and a last step over `Next`.

### The invariants

`ToolExec`.  That two exclusive calls never overlap holds because
the calling thread is inside at most one `tool_execute` (`OneInline`), which holds
because it takes the next one only when it is free (`LoopInv`); that a handler
runs once needs that the sequential loop meets, among the calls it will run,
only fresh ones (`FreshInv`): calls that ran inline when `pthread_create` failed
are of thread-safe or unknown tools and are skipped only if the tool is known,
so `JobInv` records that a call of an unknown tool never entered a handler.
`SilenceInv` says which calls can still end without a word, `LateInv` that the
flag was polled just before a call was dispatched, `DoneInv` what the replies are.
`ThreadsBounded` needs one more invariant, that `launched` is the number
of threads started (`LaunchedInv`).  For the refinement, a call is "running" while it
is in its handler, and else "settled" when its job has a result or an error or when
the calling thread has passed it by: that no call goes back from settled to running
needs `JobInv`.

`Approval`.  `CountInv`: the calls let through and the yeses not yet read are together
no more than the yeses given and those found in the rest of over-long lines, so a piece
is used up by the call that reads it, whichever it is.  `OneAtATime`: without parallel
tools one call is busy at a time, and as long as no line had a rest, what waits is the
answer to the prompt it shows; that is what fails when prompts overlap (run
`approval_parallel`) or lines are long.

`AgentChat`.  The promises are their own invariant once types are added: the
history is taken apart where `agent_trim_old_messages` and the compactions cut it, and each part
is paired (`Paired`) and has a summary only at its head (`Plain`).  `ShownInv` adds
that nothing of an answer was shown before the attempt that brings it.  `AnswerInv` follows
the answer of a turn: the session ends with the input all along, the history with the
input or a result until the answer is there, and from then on with the answer, which has
text exactly if text was printed.

`ToolHandlers`.  `LabelInv` says in which handler a call can be.  `MailInv` follows a
message from the file that `send_message` creates to its end: it is in the box or
some call may clear it, and a clear that is about to unlink has read a message it
may remove.  `CheckInv` is about a directory scan whose entries come and go
meanwhile: what was there at its start and still is has been met and taken, unless
the 64 were full.  `TodoInv`: until its reply is made, the change of a `todo_update`
is in the list unless another call of the batch undoes it.  `AimInv` says that a call
writes only to files it names, also a patch wherever its sections end, so the other
calls leave a lone call's file alone; `ExactInv` follows that call from the text it
found, over the text it holds while the file is empty, to its reply.  `RefusalInv` does so
for a patch with one file header: its section is read whole before anything is written
(`OnlySection`), and then there is none left that could be refused (`NoSection`).

`OsExec`.  `OutputInv` balances what was written against pipe and buffer.  `ClockInv`
charges the second half of the time to the reaping loop alone, and what comes on top to a
`waitpid` after a kill that missed the group.  `GroupInv` carries
`NothingLeftRunning`: a shell that has not called `setpgid` has had no time to do
anything, so the `kill(-pid)` after a timeout or too much output meets the group.

`Subagent`.  `PipesInv` types what is in the pipes; `OrderInv` and `DownInv` order the
numbers of follow-ups along their way down, through the child and up; `GraceInv`
says that a follow-up sent to a child that serves is on its way or answered;
`ResultInv` where the answer of the task is, as long as the parent is not late.

`McpSession`.  `PipeInv`, `DownInv` and `UpInv` say what the pipes can hold: no result but of a
request the server has served, no request newer than the current one.  `PhaseInv`
and `LifeInv` tie the ids to the life of the session and say that a session that
met with silence is not alive and awaits nothing, from which `NoCallAfterSilence`,
an action property, follows.

`Repl`.  `FileInv` relates each file to its history, `RunInv` the session in memory to
both, `SaveInv` the lines not yet written to those that are; `FreshInv` says that a
number not given yet has no past.  Totals need that a file has counted at most what
the session in memory has: a crash in a save leaves a file that knows less.  The
tables have an invariant of their own (`ToolsInv`): the registry is the
built-in tools and then the first of the offered ones, the bridge table the first of
them, each as many as fit, and no name is in the registry twice; so a name leads to
its own entry, and removing the offered names, each by moving the last element into
its place, leaves the built-in tools where they were.  Those of the settings
(`SettingsInv`, `RewriteInv`) hold for the file, for what the second terminal and
`/model` are about to write, and for a file that has just been emptied: each model is
listed once, with no key, the environment's, or its own provider's.  Then `AgentInv`:
the agent has the key, model and server of the active entry (none, if it has no
`base_url`), or what the command line gave for all.

`Stream`.  The tokens of a response are the edges of a graph whose nodes are the places
in it: behind the status, the headers, the k-th piece of the body, a chunk mark, the
end.  `Aligned`: what is under way is a path (`Leads`) from the place of the client to
the place of the service, whatever the framing and wherever chunks and blocks end.  When
the connection breaks or the client gives up that path is cut (`Lost`), and when the
client is through it is used up (`Done`).  At each place the client has got exactly
the first k pieces (`Received`), and the parser is where k pieces take it (`ParserAt`):
in the middle of a line, between two lines, or behind whole events merged so far.
From this `CutIsPrefix` follows, and `StreamedEqualsWhole` once it is known what the
merger makes of all events of an answer.  That is proved event by event: `Goes` says that
a run of the merger over some events takes one state to another, `OpenAiRuns` and
`AnthropicRuns` compose such runs for the events of either protocol, and in between the
slots are `Full` up to one call and `Filling` with the arguments of the next, of which
those beyond `MaxCalls` leave no trace (`Room`).  The same for a stream nobody asked for,
by other code, in `CollectsWhole` and `BodyReads`.

`LineEditor`.  `TextEditor` is about characters, the code about bytes; `Decode` takes bytes
to characters one at a time.  `BrowseInv` says that
while the history is browsed there is a saved line, and that it is whole.  `QueueInv` looks into the terminal: what waits is a
sequence of whole keys (`Typeable`), or begins with the rest of the character whose first
bytes are before the cursor (`Midway`), since a character is inserted byte by byte and a
signal can come between two of them.  On these states the steps back and forth over
continuation bytes are steps over one character (`ScanStopsAtChar`, `StepOverChar`), a
completion extends the line by characters (`CompletionExtends`), and two lines with
the same bytes have the same characters and the other way round (`SameText`), which
`history_add` compares.

### Assumptions

They are `ASSUME`s of the modules and evaluated in each run.  The bounds are natural
numbers (`ConstantsAssumption` of `ToolExec`, `AgentChat`, `Subagent`, `McpSession`,
`ExecAssumption` of `OsExec`, `BoundsAssumption` of `Repl`), some of them positive: there is a call, a
thread, a byte a buffer holds, a time a poll waits.  Further:

* `CallsAssumption`, `RestsAssumption` (`Approval`): `confirm` is not itself a tool that needs
  approval; a line need not have a rest.
* `PipeAssumption` (`McpSession`): the pipe holds something, and a request is something.
* `BatchesAssumption`, `InitAssumption` (`ToolHandlers`): arguments have the types the
  handlers check first (the file tools a path of a regular file, and texts, which are
  sequences of strings), a message gets a name no file has (a uuid), and the messages
  that are there at the start are whole.
* `BridgesAssumption` (`McpBridges`): names are strings and the built-in tools fit the
  registry.  Servers and tools may repeat names, and the limits may be 0.
* `ConfigAssumption` (`Config`): the built-in entries carry no key; the default models
  have different names; both have their provider's server as `base_url`.  Presets may repeat.
* `InputsAssumption` (`Repl`): the settings file, to begin with, lists a model once, as
  the keys of a JSON object do, and a key in it was configured for the provider it is
  listed with, whose server its `base_url` is if it has one.
* `RequestAssumption` (`Stream`): an answer has the types of its fields, a call has an
  id, an "empty" answer is empty; a chunk and a block hold something.  No call has its
  arguments cut between `}` and `{` (`Seamless`): the merger then takes the second piece
  for a repetition of the first (section 3, Streams), which is why the property is not
  true without this.
* `TextAssumption` (`LineEditor`; `MCLineEditor` evaluates it, the theorems have it as their
  hypothesis): in the encoding, a character is found by its continuation bytes, as in
  UTF-8; what is typed and what commands are named are characters, and
  commands part between characters.  It is false for GBK, where the property is.

`[]EscapesSwallowAll` is a hypothesis and no assumption, because it is about a run: it
says that behind an escape at the head of the queue no more waits than the read takes.
The code does not see to it, a user who types faster than the program reads can
break it, and then half a character is inserted.  In `MCLineEditor` 5 bytes can wait, so
the hypothesis holds there, and the run checks the properties without it.

### Loops over data

`BridgeServer`, `mcp_bridges_start`, `mcp_bridges_stop` and `WithKey` are loops over a sequence
of any length, written with `FoldLeft`.  Induction over it has no rule here that an
operator could be given to, so it is done with sets: of the numbers for which
something fails, if there are any, one is the least (`LeastOf`, from
`NatLessThanWellFounded` and `WFMin`), which gives `SetInduction` and `UpTo`.  `FoldExists`
shows with it that the function exists by which the community modules define a
fold, and `FoldByFunction` gives its values on the beginnings of the sequence; what a
loop preserves is then proved from each beginning to the next (`StartBridges`,
`StopBridges`, `AddsPresets`).  `Decode` is a recursive function, treated alike (`ByteInduction`).
In `Stream` one fold is about another: pieces are fed to the parser, the parser hands events
to the merger, and an event holds several pieces of calls.  `Apply(op, s, x)` names what
each of these loops does with its next element, so `FoldRuns` and `ChainRuns` are stated
once: a fold is the last value of a `Runs`, a table of the states after each element;
`FlattenSteps` splits a concatenation of sequences into those sequences.

### Only model-checked

* Liveness, since fairness is out of the prover's reach: `BatchEnds`, `EveryPromptEnds`,
  `TurnEnds`, `RunEnds`, `EndsUninterrupted`, `RequestsEnd`, `StreamEnds`.
* `PatchReachesGoal` for patches that are accepted: a patch is placed by `patch_apply_hunk`, a
  search over offset and fuzz inside a fold over hunks, and the property compares the
  result with the text that the difference was made for, which only the run has.
  For refused ones, `RefusedPatch` is proved.

## 5. Not modelled

* The Windows branches; the branches for other encodings of `LineEditor` beyond the
  length table; drawing of the line; input that is not a terminal.
* TLS, DNS, URL parsing and proxies; the building of request bodies; the text of
  JSON: `json_wrapper.c` wraps the vendored cJSON.
* Tools that only read and format (`glob`, `grep`, `list_dir`, `git_*`, `web_*`, `think`);
  agent, skill and MCP configuration files with their subcommands, which are parsed
  or copied once, without state that anything else changes.  `Repl` takes the
  enabled servers as an input.
* `core/streaming.c` and four mailbox functions (`mark_read`, `get`, `delete`,
  `unread_count`) have no caller.
* Of modelled parts: the `tool_call` message a child never sends; the MCP server's
  stderr and the pages of `tools/list`; allocation failures; Ctrl-C while a prompt
  waits in `Approval`; sampling options, `-p` and `/json`; a hunk whose header starts
  outside the file; other files appearing in the mailbox directory, or files of it that
  cannot be opened; a disk that fills up while a tool writes, whose `fputs` and `fclose`
  are not checked.
* `Repl` has one REPL at a time for a session, with a second terminal that runs
  `cgent config`: two that resume the same session overwrite each other's file,
  which nothing in the code prevents and no property of one session survives.
  A `base_url` in the settings is its provider's server.  The agent's history is `AgentChat`'s;
  here the session is.

## 6. What is left

* Of the proofs: that an accepted patch of one file gives the text of the difference it was
  made from, if its hunks stand where their headers say (the rest of `PatchReachesGoal`).
* Of the models: the tools that only read, the parsing of configuration files, and
  the Windows branches (section 5).

Two things came out of the proofs, not the runs.  `process_line`, `Verdict`, `Collect` and
`Patch` had been written as `CASE` with overlapping arms, of which TLA+ may choose any;
they are `IF` chains, or have arms that exclude each other, now, as in the code.  And
`WholeCharacters` depends on what waits behind an escape, which the bounds of the run
had hidden.
