# Verification of the stateful parts of 42-Common-Core

The repository is a collection of projects: some are small C libraries, some are
exercises of a few lines, and some are real systems with threads, processes,
pipes, turn engines and files that outlive a crash.  This directory holds TLA+
models of those systems, the TLC configurations that check them on small
instances, and proofs that TLAPS checks for every value of the constants.

All paths below are relative to `src/`.  "README.md:162" next to a component
means the README of that component.

Contents

1. Inventory: what the repository holds
2. The modules and how they fit together
3. The models: Codexion, Tree Nity, Fly-in, Agent Smith, Pac-Man, A-Maze-ing,
   RAG against the machine, Call Me Maybe
4. The runs, their bounds and what they show
5. What is proved
6. Where the code and its documentation disagree
7. What is not modelled
8. Plan

Run a check with `tlc -config X.cfg M`, a proof with `tlapm M.tla`.

---

## 1. Inventory

### Systems with concurrency

| component | state | operations | how it interacts | what is hard |
|---|---|---|---|---|
| **Codexion** (`Milestone 3/Codexion`) | `t_coder` (state, last_compile_start, deadline, compile_count), `t_dongle` (in_use, in_cooldown, release_time, a heap of waiters), `t_sim` (stopped, burnout_coder, end_time) | coder routine: acquire both dongles, compile, release, debug, refactor; monitor: all done? anybody burned out? stop; main: join, print, free | shared memory; one mutex and condition variable per dongle, a mutex for the stop flag, one for the log; last_compile_start and state have no lock | circular wait; stale reads by the monitor; shutdown while waiting; giving back what was taken; fairness of the queue |
| **Tree Nity server** (`Milestone 5/Tree Nity/src/server`) | g_topics, g_client_index (a hash map with a lock of its own), per topic: log_, consumers_, shutting_down_ | CREATE, LIST, INFO, SUBSCRIBE, PRODUCE, DISCONNECT; per topic a worker that delivers; per subscription an opener thread; per producer a reader thread; shutdown | requests through one FIFO, answers through a private FIFO each, messages through a FIFO per subscriber; `Topic::mu_`; callbacks from the worker into the index | blocking `open` and `write`; an opener that is late; DISCONNECT under the worker's loop; offsets stored in two steps; SIGTERM at any time |
| **Tree Nity client** (`.../src/client`) | a signal flag, the FIFOs it made | create, list, info, produce, subscribe | the FIFOs above | being killed or interrupted between any two system calls |
| **Agent Smith sandbox** (`Milestone 5/Agent Smith/student/sandbox`) | child process, pipe, deadline, namespace of the child | execute, shutdown; tool calls and final answers from inside the child | one duplex pipe between parent and child; SIGALRM in the child, a deadline in the parent; tools through `mcp_client.py` | the deadline races the answer; the child dies or catches the timeout; what an old child said must not be read as the new one's |
| **Agent Smith exam** (`student/agent_core`, `agent_mbpp`, `agent_swebench`, `mcp_tools`, `exam_runner.py`, `moulinette`) | budgets, history and keys of a run; testbeds; solution files; containers | prepare a task, run an agent on it, validate its file | processes one after the other, which share testbeds and files | budgets, retries and exceptions together; what is released on which way out; the patch is judged elsewhere than it was made |
| **RAG against the machine** (`Milestone 4`) | four index files, results and answers files | index, search, answer, search_dataset, answer_dataset, evaluate | processes that share nothing but files | a command reads while another writes or is killed; files change under the positions stored for them |
| **Call Me Maybe** (`Milestone 3`) | exercise files, file of answers | prepare, answer, grade | processes that share files | constrained decoding has no bound of its own; two sets of exercises mixed |
| **The Answer Protocol server** (`Milestone 5/The Answer Protocol/tap/server`) | connections, players, NPCs, items, quests, groups, in one world | login, move, take, drop, talk, fight, quest, group and chat commands; accept, disconnect | one thread over `poll`; the world is shared by all sessions | long sequences of legal commands; disconnection in the middle; full inventories and tables |

### Sequential systems with a state that lives long

| component | state | operations | what is hard |
|---|---|---|---|
| **Fly-in** (`Milestone 3/Fly-in`) | graph; positions, path indices, transit counters, occupancy of zones, usage of connections | read the map, find the k cheapest paths, one turn in four phases | maps that must be refused; admissibility of the heuristic; intentions that are refused later; counters changed by differences; drones that wait for each other |
| **Pac-Man** (`Milestone 4/PacMan DONE/src`) | level, ghosts with state and timers, lives, screens, table of scores and its file | tick, collision, freeze, respawn, cheats, change of screen, save | a tick that takes more than one life; a win and a loss in one tick; timers of frozen ghosts; a kill in the middle of a save |
| **A-Maze-ing** (`Milestone 2/A-maz-ing`) | configuration, walls, viewers | parse, carve, four repairing passes, solve, write; keys and loop of both viewers, new mazes | every wall is stored twice; a later pass may undo an earlier one; a new maze under a path being played |
| **push_swap** (`Milestone 2/push_swap`) | two stacks with cached positions, targets and costs | eleven operations, the turk algorithm | sorted for every permutation; caches refreshed |
| **get_next_line** (`Milestone 1/Get Next Line`) | a static remainder | next line | reads of every length, an error in between |

### The rest

Libft and ft_printf (functions of the C library, no state), text formats,
renderers and drawing, the exercises and the container configurations.
`PROJECT.json` lists each of them with the reason it has no model.

### What makes them correct

* Codexion: a dongle is held by one coder and comes back however the coder
  leaves; the ring never closes into a circular wait; nobody starves; a verdict
  is true; the program ends and frees nothing that is in use.
* Tree Nity: a subscriber gets every message it asked for, once and in order,
  however threads interleave; the offsets the server reports are the ones it
  works with; SIGTERM ends everything.
* Agent Smith: every call of execute is answered, with the answer to that very
  call; variables persist unless the caller is told otherwise; an exam is passed
  only with solutions that pass elsewhere; nothing is left running.
* Fly-in: a map without a way is refused, paths are the cheapest, capacities of
  connections hold, counters are exact, every drone arrives.
* Pac-Man: nobody plays on without a life, a victory is earned, the best score
  on disk stays.
* A-Maze-ing: the two sides of every wall agree, no cell is cut off, a perfect
  maze is a tree, no square of nine cells is open, the path written is a shortest
  one, what is shown is of one maze.
* RAG: chunks lose nothing and overlap nowhere; an index that was completely
  written is whole; results, recall and prompts follow from the index.
* Call Me Maybe: what is decoded is the name of a function, an answers file is
  complete, a right answer is paid, a run ends.

---

## 2. The modules and how they fit together

| module | what it is |
|---|---|
| `Codexion` | the simulation: coders, dongles, monitor, main thread, time |
| `MCCodexion`, `CodexionOvertaking` | for TLC; the second adds a history variable that counts how often a waiting coder is passed over |
| `CodexionProofs` | types, exclusion, cooldown; exact queues, absence of deadlock, the end in order, the bound on overtaking, proved |
| `TreeNity`, `MCTreeNity` | server threads, client processes, FIFOs, signals, crashes; who uses which name, topic and prefix |
| `TreeNityProofs` | safe iteration, the client index, the committed offsets, who owns names and pipes, what subscribers print in one subscription and from one to the next, proved |
| `FlyMap` | reading a map line by line; EXTENDed by |
| `Pathfinder` | A* and Yen's algorithm on the graph read; EXTENDed by |
| `FlyIn`, `MCFlyIn` | the program: reading, path finding, the flight |
| `FlyInProofs` | which maps are refused, the routes found, the flight turn by turn, proved |
| `SandboxCall` | abstract: one call at a time, one answer each, about its own code |
| `Sandbox` | parent and child over the pipe; implements `SandboxCall` |
| `AgentExam` | the exam around the sandbox, which answers as `SandboxCall` promises |
| `AgentSmithProofs` | of the sandbox: answers are own, nothing is left over, variables are kept, the refinement; of the exam: the books of a run, the cleaning up, the verdict; proved |
| `PacMan` | screens, levels, ghosts, cheats, scores and their file, launches and kills |
| `PacManProofs` | a game goes by its rules, the best score stays, proved |
| `MazeConfig` | the configuration file, line by line; EXTENDed by |
| `AMazeIng` | carving, repairing passes, path, files; EXTENDed by |
| `AMazeView`, `MCAMazeIng` | both viewers, which make new mazes with the generator |
| `AMazeIngProofs` | the two sides of every wall agree, every maze is sound, the path written is a shortest one, viewers show one maze, proved |
| `RagChunks` | the chunker as functions of a text; EXTENDed by |
| `Rag`, `MCRag` | the six commands over shared files, kills and edits |
| `RagProofs` | an index that is built is sound for every text, what a finished index command leaves, what is found, reported and put into prompts, proved |
| `CallMe`, `MCCallMe` | the program and the moulinette over shared files, kills |
| `CallMeProofs` | complete answers, right calls are paid, proved |

The projects of the repository do not call each other, so modules are composed
inside a project only: Fly-in, A-Maze-ing and RAG as chains of EXTENDS in which
each module adds its variables and wraps the actions of the one below; Agent
Smith by an abstract specification, `SandboxCall`, which `Sandbox` implements
and on which `AgentExam` relies for its step `Executed`.

Conventions.  One action is one critical section, one system call that may
block, one access to memory or to a file that another thread or process can see;
where there is neither, one handler or one turn of a loop.  Names are those of
the source where TLA+ allows it.  A definition `X_Something` is the definition
`X` with a plausible bug; nothing in the specifications uses it, it documents
which bug a property would catch, and each was seen to break that property.
Values computed from large data are bound with `\E x \in {e}`, so that TLC
evaluates them once.

---

## 3. The models

### 3.1 Codexion

`N` coders sit around a table with `N` dongles and need the two next to them to
compile.  A monitor thread stops the simulation when everybody has compiled
often enough or somebody has waited too long.

**State.**  `pc[c]` is the place of a coder thread in `coder_routine` and
`acquire_both` (`coder.c`), `wake[c]` the end of its sleep; `state`, `lcs`,
`count` are `coder->state`, `last_compile_start`, `compile_count`; `stamp` is
the value `do_compile` got from the clock and has not stored yet.  `inUse`,
`inCooldown`, `releaseTime` and `waiters` are the fields of a dongle; `waiters`
is the set of the nodes of its heap, and `IsTop` the comparison of
`pqueue_utils.c`, with its tie rule (the larger id first).  `mpc`, `mnow`, `mi`
are the monitor's loop, its sample of the clock and its index.  `mainpc` is the
main thread after it has created the others.

**Actions.**

| action | code |
|---|---|
| `Boot`, `LoopTest` | start of `coder_routine` with its staggered sleep; the loop condition |
| `EnqueueFirst/Second` | `dongle_acquire`: push and first round, under the mutex |
| `PollFirst/Second` | a later round of `acquire_loop` |
| `TestAfterFirst/Second`, `AbortSecond`, `AbortFirst` | the tests of the stop flag in `acquire_both`, and the dongles it gives back |
| `ReadClock`, `StoreStart`, `StartCompiling` | `do_compile` up to its sleep: three accesses, because the monitor reads between them without a lock |
| `FinishCompiling`, `ReleaseSecond`, `ReleaseFirst` | the end of the compile, and `release_both` |
| `DoDebug`, `DoRefactor` | the two other activities |
| `MonitorWake`, `CheckAllDone`, `SampleClock`, `ScanDeadline`, `ScanState`, `StopSim`, `Broadcast` | `monitor_routine`: the scan reads deadline and state of each coder separately |
| `JoinCoders`, `Cleanup` | the rest of `sim_run` and `cleanup` |
| `Tick` | the clock |

**Abstractions.**  Time is an integer clock that may tick between any two
actions, so every thread may be late by any number of ticks.  A round of
`acquire_loop` that gets nothing only sleeps: it is a stuttering step.  Waking a
waiter early (a signal) can do no more than make a round happen sooner, and
rounds happen at any time.  Log lines are left out, and so are the heap's array
and a failing `pthread_create` or `malloc`.

**Fairness.**  Each coder thread, the monitor, the main thread and time are
weakly fair: a thread in the code either runs, sleeps for a bounded time, or
waits with a timeout (`wait_one_ms` uses `pthread_cond_timedwait` and never an
untimed wait), and mutexes are held for a bounded time.

**Two coders at least.**  With one coder both dongles are dongle 0.
`acquire_both` takes it, then waits for it while holding it (`coder.c:58-70`):
the coder never compiles, and the run ends by its burnout.  The example of
README.md:68 ("Single coder edge case (uses 1 dongle only)") is therefore always
a burnout.  `NoDeadlock` is about two coders and more, and the theorem says so.

### 3.2 Tree Nity

A server keeps topics, each a log of messages; clients create topics, produce
messages, and subscribe with a key prefix and perhaps a start offset.

**State.**  A client process `p` is at `proc[p]`, with its signal flag `sig`,
the pipe it reads (`ino`) and what it has printed (`out`).  The control thread
is at `ctl`, with the bytes of the main FIFO (`mainq`), the lines read and not
handled yet (`pending`) and the request in hand (`req`, `ans`, `start`).
`topics` and `index` are `g_topics` and `g_client_index`.  Per topic: `log`,
`consumers`, the worker's place `wpc`, the rest of its iteration (`wtodo`,
`wcur`), the metadata its callback has read (`wmeta`), and `shutting`.  Every
accepted SUBSCRIBE makes a pipe, numbered by `sess`: `node[n]` is the pipe the
file name of identifier `n` stands for now, `buf` is the content, `opc`, `oino`,
`ofor` are the opener thread.  A message is its offset; the log has its key; a
prefix is the set of keys it matches.

**Actions.**

| action | code |
|---|---|
| `Start` | a client writes its request into the main FIFO and waits (`request_reply`), or fails at once if there is no server |
| `Reply` | `reply`: the control thread opens the response FIFO, which blocks until the client opens its end |
| `OpenChannel`, `Check`, `BlockInRead`, `ReadMessage`, `ReadEof`, `Disconnect` | the subscriber's loop: open, test the flag, block in `read`, print, end, send DISCONNECT |
| `Signal`, `Kill` | SIGINT or SIGTERM at any time; SIGKILL at any time |
| `Produce`, `EndOfInput` | a producer's message, through its pipe and reader thread into `Topic::produce` |
| `LoopTop`, `Poll`, `Dispatch` | the main loop and `dispatch` |
| `Create`, `LookUp` | CREATE; LIST, INFO and the look-up of PRODUCE |
| `Subscribe`, `StoreMeta`, `Register` | `handle_subscribe`: the duplicate check and the FIFO, the metadata, the registration, which are critical sections of different locks |
| `Unregister` | `handle_disconnect` |
| `OpenForWriting`, `Verify`, `Attach` | `consumer_opener_thread` and `attach_fd` |
| `Wake`, `Visit`, `Deliver`, `PersistGet`, `PersistSet`, `SendSentinel` | `Topic::run`, message by message; the callback reads and writes the index in two steps |
| `Sigterm`, `StopTopic`, `DestroyTopics`, `Exit` | the shutdown, and the watchdog |

`mu_` is not a variable: the worker holds it exactly while it is between waking
and waiting (`MuFree`), and everybody else takes and returns it within one
action.

**Abstractions.**  A request, an answer or a message is written in one piece (it
is shorter than `PIPE_BUF`, and the framing is not modelled).  The pipe of a
producer, its reader thread and the call of `Topic::produce` are one step.
Checks of identifiers and sizes and the formats of the outputs are left out.
The prefix trie is its meaning, the set of keys that match.  A pipe of 64 KiB is
a pipe of `PipeCap` messages, so that a full pipe is an ordinary case.  The
watchdog may fire at any time once the shutdown has begun: the model has no
clock, and a theorem or run that holds for every moment holds for five seconds.

**Fairness.**  The control thread, the openers and the workers are weakly fair,
and so is each subscriber but those in `Stalled`: these are running threads, and
a blocked system call is a disabled action.  The watchdog is fair too (it
sleeps and exits).  Users owe nothing: commands, signals, kills and SIGTERM may
never come.

**Deadlock is not checked** in these runs.  A server that waits in `poll` with
all clients gone has no step to take, and that is what it should do; being stuck
where it should not be is what the liveness properties are for.

### 3.3 Fly-in

A map of zones and connections is read, every drone gets a path from the start
to the end, and the drones fly: in every turn a greedy pass approves moves.

**State.**  `stage` and `graph` (`FlyMap`) are the reader and the graph with
`nb_drones`; `routes` is what `find_k_shortest_paths` returns; `path`, `at`,
`idx`, `transit`, `delivered` are the fields of `Drone`; `occ` is
`Zone.current_drones`, `usage` `Connection.current_usage`, `turn` the count of
turns.

**Actions.**  `ReadLine` takes any line of the instance (`_parse_zone`,
`_parse_connection`, `nb_drones`) or refuses the map; `EndOfFile` is
`validate_connectivity`; `TakeOff` finds the paths and places the drones; `Turn`
is `_execute_turn`: `Movers` is phase 1, `Leaving` and `Room` phase 2, `Approved`
phase 3 in the order of the drones, and the primed variables are phase 4 with
the decrements of `turns_in_transit` made while intentions are collected;
`Finished` is the end of `run`.  `FindPathAvoiding` is the loop of A*,
`FindKShortestPaths` Yen's algorithm on top of it, over the same heap order as
the code.  Each loop is a function of the rounds made (`Round`, `Branch`,
`NextPath`); that of A* has no bound in the code and has `MaxRounds` here, which
it never reaches, as `SearchEnds` proves.

**Abstractions.**  The syntax of a line is left out: a line is a record.  Zones
lie on a row, so the distance is a whole number; every relation between
distance and cost that the heuristic can meet exists on a row.  The two path
operators were also compared with the Python functions on 400 random maps,
without a difference.

**Fairness.**  `WF(Turn)`: a loop of one process.

### 3.4 Agent Smith: the sandbox

**State.**  `ppc`, `call`, `late`, `serving`, `results` are the parent
(`SandboxExecutor.execute`): its place, the call under way, whether its deadline
has passed, the tool call it serves, what it returned.  `down` and `up` are the
pipe.  `cpc`, `code`, `armed`, `end`, `used`, `ns`, `got` are the child
(`_child_main`): its place, whose code it runs, the pending alarm, how the code
ended, tool calls made, the codes whose variables its namespace holds, the last
tool result received.

**Actions.**  `ChildRecv`, `ToolCall`, `ToolReturns`, `FinalAnswer`, `CodeEnds`,
`CodeExits`, `Alarm`, `SendDone` for the child, whose code is arbitrary and may
catch the timeout and the final answer; `Execute`, `Poll`, `Receive`,
`ReceiveEOF`, `GiveUp`, `ServeTool` for the parent; `DeadlinePasses` for the
clock; `Shutdown`.

**Abstractions.**  A message is its kind, call and number; source code, output
and values are left out.  `call_tool_sync` is one blocking step.  Starting a
child includes its READY.

**Fairness.**  The parent runs on (`Returning`), the deadline passes, the tools
answer (they have time limits of their own or only touch files).  Nothing is
assumed of the child: that is what the deadline is for.

**Abstract specification.**  `SandboxCall` has two variables, the calls made and
their answers, and two actions.  `Sandbox` implements it under
`asked <- call, answers <- results`; `ImplementsSandboxCall` includes the
liveness part, that every call is answered.

### 3.5 Agent Smith: the exam

`AgentExam` is `exam_runner.py` around an agent's `main`, the orchestrator, the
provider's retries and the moulinette.  `Prepare` makes a testbed; `Connect`
opens container, tool server, sandbox and provider, or fails; `Check` is the
head of the orchestrator's loop with its limits; `RequestFails` and `Respond`
are `LLMProvider.generate` and the extraction of code; `UseTool` is a tool that
changes the testbed, `Executed` the answer of `execute`, in the three ways
`SandboxCall` allows; `Finish` the `finally` of `main` and the solution file;
`Validate` the moulinette, which judges an MBPP solution by its tests and a
patch on a second, fresh testbed; `NextTask` goes on.  `good` is a history
variable: the tasks whose submitted solution is right.

A file of the testbed is a sequence of lines, a patch is what git reports of
it, and `created` a file git does not track.  The exam, the provider and
`execute` are weakly fair: processes run, requests have a timeout, and execute
returns (3.4).

### 3.6 Pac-Man

`screen` is `GameState`, `level` the level with its player, ghosts, dots and
timers, `entries` and `file` the table of scores in memory and on disk.  `Tick`
is one frame: `Updated` is `Level.update` in the order of the code (time, player,
ghosts, dots, collisions at the cell where the player stood before the loop over
the ghosts, the test for a win), and `LevelWon`/`LevelLost` what the game does
with it.  `Cheat` has the five cheat keys.  `Launch`, `Quit` and `Kill` start
and end the process, `EnterName` saves.

The maze is a corridor: which collision follows from which order of moves needs
no second dimension.  Directions without a passage are the value 0.  A dot and a
ghost are worth one point; time is in ticks.  The jitter a ghost adds to
distances decides ties and nothing else, because other distances differ by two
in a corridor.  `_start_game` leaves `final_score`, the model forgets it: it is
not read before it is written again.  The table is sorted as `sorted` does it, by
any order that puts no score before a higher one: names are left out, and with
them what a stable sort decides.

### 3.7 A-Maze-ing

`MazeConfig` reads a file line by line (`_read_raw`), then builds or rejects a
configuration (`_build_config`).  `AMazeIng` carves: `CarveDfs`, `CarvePrims` and
`CarveKruskals` are one turn of the three loops, with every random choice; `CarveEnds`
bridges what was left out; `AddExtra`, `Fix3x3`, `EnsureTree`, `OpenBorders` are
the passes of `generate` in their order; `Search`, `Write`, `Export` the solver
and the files.  Kruskal's `parent` and `rank` are kept with path compression.
`AMazeView` opens the viewers the configuration names, and takes every key and
turn of the menu and of the window's loop that concerns path, ducks or maze;
`Regenerate` and `Regenerated` make a new maze with the generator below it.

Left out: colours, effects, drawing, and the animation of the carving.  A
missing file ends like an empty one.  The size of the grid is a constant that
every accepted file of the instance must have; the "42" is any set of cells
given with the file.

Fairness: the program runs on (`WF(Next)` in `Spec`, `Generate` and
`Regenerated` in `ViewSpec`).  Users owe nothing.

### 3.8 RAG against the machine

`RagChunks` holds the chunker as functions of a text, whose characters are
newline, blank, the first character of a definition, something that is not
Python, and any other.  It was compared with the Python chunker on 8 744 texts
and sizes, without a difference.  Its loops are recursive functions over lines
and paragraphs, and what collects pieces flattens a sequence, so that it can be
proved about.  `Rag` has the commands: `Index`, `Truncate`,
`Dump` (four files, each emptied and then written), `Start`, `Load` (file by
file), `SearchDataset`, `Answer`, `AnswerDataset`, `Evaluate`, their failures,
and from outside `Kill`, `KillWriting`, `Edit`.  BM25's scores are arbitrary
numbers of the set `Marks`, with 0 for a question of unknown words; the questions
of one batch have the same scores, so that `all`, everything that was found, is one
list for all of them.  The answer of the language model is represented by its prompt.
A search sorts by `Better` (`Ranked`), cuts to `k`, goes past what scores nothing
(`Hits`) and removes repetitions (`Found`), in the order of the code.  `last`, `of`, `all` and `tree` inside the
records are history.

### 3.9 Call Me Maybe

`Prepare` and `PrepareWrite` are the moulinette preparing a set of exercises,
three files one after the other; `OpenTests`, `OpenDefs`, `Decode`, `Complete`,
`Truncate`, `Dump`, `Fails` the program; `Grade` the grading.  A name is a
sequence of tokens and the model's scores are arbitrary, so any token that is
not masked may be the next.  Of a prompt there is what the regular expressions
find in it.  NaN among the scores is left out.  `At` takes the entries of a list
at chosen places, in their order, for what the code filters; `Accepts` is a call
that raises nothing, `Call` what it returns.  The program is weakly fair: one
thread that runs on.

---

## 4. The runs, their bounds and what they show

Twelve runs, one for each question; a property that is a conjunction names its
parts in the module, each with its own comment.

| run | instance | properties |
|---|---|---|
| `codexion_pair` | 2 coders, edf, burnout 7, three compiles, clock to 8 | `QueueMatchesWaiters`; `PassedAtMostOnce`; `EndsInOrder` (coders leave only when stopped, nothing in use is freed, the verdict is true); `CooldownRespected` |
| `codexion_ring` | 3 coders, fifo, all start at once, clock to 3, fair | `DongleExclusion`; `NoDeadlock`; `Shutdown`; `BurnoutDetected` |
| `treenity_same` | 1 topic, 2 subscribers of one name, producer, 2 messages, a signal, a kill, SIGTERM | `WellOwned` (one reader and one writer per pipe, one live subscriber per name); `ExactlyOnce`; `InfoInSync`; `IteratorValid`; `CommittedNeverRegresses` |
| `treenity_live` | topic created while others ask for it, subscriber with any offset, producer, query, signal, SIGTERM, fair | `Delivered`; `ShutdownCompletes`; `ReadersEnd` |
| `treenity_killed` | a subscriber that may be killed | *violation* of `Responsive`: the control thread waits for a dead client |
| `flyin_network` | every map written with a set of 25 lines over five zones, 1 or 4 drones, fair | `RefusedWithoutRoute`; `RoutesBest`; `FlightSound` (counters exact, connections within capacity, at most two turns per hop); `EverybodyArrives` |
| `smith_sandbox` | 2 calls, up to 2 tool calls per code, fair | `ResultIsOwn`; `QuietBetweenCalls`; `SessionKept` (variables persist unless the caller is told; tool results reach only their code); `ImplementsSandboxCall` |
| `smith_exam` | the three exams, 2 tasks, 1 to pass, 2 iterations, 1 retry, 2 keys, fair | `RunAccounted` (conversation alternates, counters and file agree); `CleanedUp`; `VerdictEarned`; `ExamEnds` |
| `pacman_game` | corridor of 5, 2 levels, 2 ghosts, all keys and cheats, kills | `GameFair` (types and timers, no play after death, victory earned); `BestStays` |
| `maze_shown` | 3 by 3 cells, every carving of the three algorithms, patterns, faulty files, both viewers | `WallsAgree`; `MazeSound` (union-find exact, connected, tree, no open square, repairs idle); `OutputLeads`; `ShowsOneMaze`; `MazesCome` |
| `rag_commands` | 3 files, every text up to six characters for one command, two trees for up to three commands, a kill, an edit | `ChunksSound`; `RebuildRepairs`; `ResultsSound` (ranking, recall, prompts) |
| `callme_graded` | 6 functions, 4 exercises in 2 sets, up to 4 commands, a kill, fair | `AnswersSound` (names decode, answers complete, right calls are paid); `RunEnds` |

Each property of a passing run has a mutant, a small change of a mapped
definition that makes the run refute it; `PROJECT.json` lists them.

**The bounds, and why they are enough.**

* *Two and three coders.*  Two neighbours that share both dongles meet every
  conflict over a queue; three is the smallest ring in which the last coder's
  dongle order differs and in which a circular wait has no shortcut.  The
  theorems cover every number.  In `codexion_pair` the clock exceeds the burnout
  time, so burnouts, complete runs and every abort path occur; three compiles
  let an edf key follow a deadline that has moved twice.  Only the order of the
  ends of sleeps matters, and a late thread may take any number of ticks.
* *`MaxLog` 2, `PipeCap` 1.*  Two messages are needed for order, for a prefix
  that matches one and not the other, and for a full pipe with a message still
  to come.  Two subscribers of one name are an old and a new owner of a slot.
* *Five zones, four drones.*  Two sides with a bridge and a way round have the
  branchings Yen's algorithm can get wrong; four drones wait for each other in a
  chain and a circle.  `MaxTurns` 40 is above two turns for every hop, so it
  never hides an undelivered drone.
* *Two calls, two tool calls.*  A stale message needs an old call, a new one,
  and a message of the old one that is read in the new one; two tool calls let
  one be answered late and another be waited for.  The theorems cover every
  length of a session.
* *Two iterations, one retry, a cost of one or two tokens against a limit of
  one*: within, at and past each limit, with and without a retry before it.
* *Corridor of five*: two ghosts, the player between them, one cell on each
  side; two levels so that lives and points are carried over.
* *Three by three cells* hold the one open square of nine cells, a pattern in
  the middle, and every order of edges of the smaller grids; Kruskal's union of
  all twelve edges in all orders is out of reach, so it runs around the pattern
  and on two rows (`MCAMazeIng`).  `MazesSound` covers every grid and order.
* *Texts of six characters, size two*: a line that is too long after one that is
  not, two and three newlines in a row, a definition after each of them.
  `ChunksKept` covers every text, size and number of files.
* *Scores 0 to 2* (`Marks`), `--k` 2 and a refused 0: misses, ties, two orders, a
  cut between two hits.  `ResultsKept` covers any numbers and any `k`.
* *Four commands* for Call Me Maybe: prepare, prepare the other set beside a
  run of the program, grade.

**Deadlock** is checked in the runs of Codexion and Fly-in, whose programs end
in a state with a step of its own.  Everywhere else a state without steps is
one the system may rest in: users, commands and signals owe nothing.

---

## 5. What is proved

TLC checks the small instances; the theorems hold for every value of the
constants that satisfies the modules' assumptions.

**Codexion.**  `TypeCorrect`: `TypeOK` is inductive.  `Exclusion`: for every
number of coders a dongle has one holder at most, and `in_use` says whether it
has one.  `DongleExclusion` alone is not inductive: with one coder the two
dongles are the same, and the step that takes the second one must know that it
is not the first.  `ExclusionInv` adds `NeverTwice` (a coder that holds its
second dongle has two different ones).  Steps fall into three kinds, which are
three lemmas: those that change neither `in_use` nor what a coder holds, those
that take a dongle, those that give one back.  `QueuesExact`: the queue of a
dongle has one node for each coder that waits for it, and no other.
`DeadlockFree`, for two coders or more: when all coders wait, one of them is at
the top of the queue of a free dongle.  The argument is resource ordering.  Take
the greatest dongle anybody waits for (`GreatestExists`).  If it were in use,
some coder would hold it; that coder waits too, so it holds its first dongle
only and waits for its second, which is greater: a contradiction.  So it is free,
and its queue is not empty (`QueuesExact`) and has a top (`TopExists`), which is
a coder that waits for it.

`CooldownKept`: a dongle is not taken before its cooldown is over.  A step of a
coder either leaves the dongles alone, takes one or puts one back (`DongleStep`);
what has to be carried along is that a free dongle that was ever released still
has its flag `in_cooldown` (`CooledInv`), since a take clears the flag and not
the time.

`OrderlyEnd`: no coder leaves its loop before the stop flag, nothing is freed
while a thread runs or a dongle is held, and without a burnout everybody has
compiled often enough.  `EndInv` follows the decision through the threads: the
monitor stops for a reason, and that reason stays true (compile counts only
grow, a coder found burned out stays so) until the main thread has joined
everybody.  That no dongle is held and no queue has a node at the end then
follows from `Exclusion` and `QueuesExact`.

`ServedNext`: a coder that waits for a dongle sees it go to its neighbour at
most once, under fifo and under edf.  That is not inductive by far.  `PassInv`
says that who has been passed over is next: every other user of the dongle is
`Behind` it, by a node with a later key or because it holds the dongle now and
will come back with a later key (`Coming`).  A later key needs the clock:
`Clock` relates each coder's deadline, the end of its sleep and the keys in the
queues with `now`.  A dongle has two users (`TwoUsers`), so nobody else can pass.
The comparison gives a tie to the larger id, so *later* has to be strict: it is,
because a dongle that lies there while coders wait for it was used before, and
the clock has moved on since (`UsedBefore`, `Timed`).

**Tree Nity.**  `IteratorSafe`: no DISCONNECT and no SUBSCRIBE changes the set of
consumers under the worker's loop.  The invariant `Safe` has three parts:
`Shape` (types, and which request the control thread holds where), `Iteration`
(what the loop has still to visit are consumers, and the worker is in the loop
only with the mutex), `Indexed` (a consumer has an entry in the index).
`IndexInSync`, `NeverRegresses`: where every identifier is used for one topic
only (`OneTopicEach`), the index agrees with the worker's offset except between
the two steps that store it; if in addition nobody asks for an explicit offset,
the committed offset never goes back.  The invariant adds `Owners` (an
identifier has consumers in its own topic only) and `Sync` (the exact relation
of index, worker and request at every moment).  Without `OneTopicEach` two
workers write one entry, see section 6.

`NamesOwned` (`WellOwned`) and `DeliveredOnce` (`ExactlyOnce`) are about what the
clients see.  For the first, `OwnInv` says who holds a name: each process has one
request under way at most (`Once`), a subscriber holds its name from the moment
it is registered until its DISCONNECT is handled (`Tenure`), numbers of pipes do
not run out (`Enough`), the file of a name is the pipe of its last SUBSCRIBE, and
an opener that has still to open it belongs to the subscriber that waits there
(`Pipes`).  One reader and one writer per pipe and one live subscriber per name
follow.

For the second, `Delivery` adds: what a worker has still to visit is connected
and behind (`Rounds`), which is why a sentinel or a message never goes to a
descriptor that has gone away in between; the descriptor of a consumer is a pipe
that was made for its name and attached by its opener (`Wired`); nothing is in a
pipe before somebody can write to it and nothing comes after the sentinel
(`Buffers`); what a subscriber has printed and what is in its pipe are, in
order, the messages between the offset its subscription began with and the one
its consumer is at, less the keys that do not match (`Exactly`).  These hold for
all offsets a client may ask for and give `PrefixRouted`, the part of
`ExactlyOnce` about one subscription.  From one subscription to the next the
index carries the mark: all a name has been given is below it (`Marked`), and
two subscriptions of a name have nothing in common (`Apart`), as long as nobody
asks for an explicit offset.  Its hardest step is `Deliver`, after which a
message is in a pipe and not yet under the mark of the index
(`AdvanceApart`): the mark of a name is the consumer's own offset while it has a
consumer and the index's afterwards, and an `Unregister` waits for the mutex
that the worker holds between the two.

Both hypotheses are about how the clients use the server, and the code does not
enforce them; without the first the theorem is false (section 6), without the
second a client asks for a message again and gets it again.

**Sandbox** (`AgentSmithProofs`).  `TypesKept` (`SessionTypes`), `AnswersOwn` (`ResultIsOwn`), `NothingLeftOver`
(`QuietBetweenCalls`) and `ImplementsSafely` (every session is a behaviour of
`SandboxCall`, its fairness aside), for sessions and codes of every length.  The
invariant `SInv` says what may be under way at the same time: results are counted
(`Counted`), an EXEC in the pipe is alone (`ExecAlone`), running code is the
call's (`RunsCall`), messages of a living child are the call's (`UpOwn`), and a
DONE is the last word of a code (`DoneLast`).  A child that died leaves messages
behind; that they are never read for another call is because a new pipe comes
with the new child.  `VariablesKept` (`SessionKept`) adds `KInv`: the variables
of the child are those of the calls since the last one that was not answered
DONE, and of the one under way once its EXEC is read (`Namespace`); and a tool
result waits only for the code that asked for it (`OwnTools`).

**The exam.**  `BooksRight` (`RunAccounted`), for any number of iterations,
retries, keys and tokens: `Books` follows the counters from one request to the
next.  The limits are tested at the head of the loop only, so a response may pass
them once and by its own cost; roles alternate, and observations are one behind
requests exactly while code runs or after an exception has passed through it.
`AlwaysCleanedUp` (`CleanedUp`): once the loop has begun, everything opened is
closed, on every way out.  `VerdictsEarned` (`VerdictEarned`): `passed` never
exceeds the number of correct solutions, each counted for a task of its own
(`Marks`), except under docker, where the moulinette has no testbed.

**A-Maze-ing.**  `WallsAlwaysAgree`: the two sides of every wall agree, on grids
of every size, for every file and every use of the viewers.  `RemoveWall` and
`SetWall` keep the two sides alike, and so do passes that open or close sets of
walls; the borders open one side only, so entry and exit must have no neighbour
there, which is what the parser checked long before.  The invariant `IInv`
therefore carries `ConfFits` from the parser to `OpenBorders`, through every new
maze of the viewers, and that the walls a carving has in hand lie between two
cells.  `PathWritten` (`OutputLeads`): the directions written lead to the exit and
no way is shorter.  The search is judged by the distance `d` it gave the cells it
found: they are a tree over the entry (`Tree`), the queue goes from near to far,
reaches one step beyond its head, and who has left it has left no neighbour out
(`Rings`); `RingGrows` is one turn of the loop.  When the exit is the head, all
cells nearer have left, so `SearchIsNearest` follows ring by ring, and
`DirectionsLead` reads the path back along `prev`, one step nearer each time.
The recursive functions of the model (`Within`, `WayBack`, `Trail`) are shown to
exist by `FollowsExists` and `FollowsAlways`, and inductions on their argument are
made with a smallest counterexample (`NatMin`, `NatSteps`).  `OneMazeShown`
(`ShowsOneMaze`): every view is good (`ViewGood`), after every key and every new
maze; ducks are off the road because they are picked for the path that comes with
them, and a path is played in the window only, so that the keys of the terminal
cannot hide it.

`MazesSound` (`MazeSound`): the sets of Kruskal are exact, the pattern stays
closed, the repairing passes have nothing to repair, no cell is cut off, a perfect
maze is a tree and no square of nine cells is open, on every grid, for all three
algorithms and for the mazes of the viewers.  `Reachable` says it with rounds;
the proof says it with sets: two cells are `Linked` when every set without a way
out that holds the one holds the other, and `ReachableIs` shows that as many rounds
as there are cells find just these.  The rest is counting open walls.  Each turn of
`CarveDfs` and `CarvePrims` adds one cell and one open wall to a linked part
(`Grown`); what `DfsAt` and `PrimsAt` say of stack and frontier makes that part all
there is when they are empty.  `CarveKruskals` makes one set of two with each wall
it opens (`KruskalsAt`): ranks rise from every cell to its parent (`Forest`), so
that roots exist, compressing keeps them (`CompressedKeeps`), and a union changes
those of one set (`UnionIs`).  To link n cells takes n - 1 open walls or more
(`AtLeast`): a perfect maze has no wall to spare, hence no open square
(`TreeIsNarrow`), and in any other maze a wall set in an open square leaves a way
round it (`Detour`).  The invariant `MInv` joins this from phase to phase and
carries from the file to the borders that entry and exit are off the pattern.

Two assumptions on the files of `Worlds` stand for the drawing "42": it lies inside
the grid and off the entry and the exit (`FileAssumption`; its margin keeps it from
the border), and it shuts no cell in (`PatternAssumption`; the digits are open to
the side and the gap between them is a column).  Without the second one
`_connect_isolated` would have cells left that it cannot reach either.

**Pac-Man.**  `GamePlayedFair` (`GameFair`), for corridors of every width, any
number of levels, lives and dots and all durations.  The level is followed
through one frame in the order of `Level.update`, with one lemma for each part:
the ghosts' moves (`GhostUpdated`), the player's (`PlayerMoves`), the dots
(`EatsDots`), the collisions (`MeetsGhosts`); in between time and lives are not
yet judged, so the lemmas speak of a wider set (`Frame`).  What a frame comes to
is `Outcome`: two lives are lost at most, who is not lost has as many lives as
before or one at least, and the score grows by what the dots shrink.  That makes
`Played` inductive: a level that goes on and was not begun lifeless has a life
(`Alive`), and the score covers the dots of the levels behind and those eaten in
this one (`Earned`), from which the final score of a victory follows.  Lives may
go below zero, by two with every level that is won in the frame in which both
ghosts bite, so that `1 - 2 * index` is their lower bound and not zero.

`BestKept` (`BestStays`): the table in memory leads what is on disk from the
launch to the exit (`Tables`).  `Sorted` chooses an order of the list; that there
is one for every list (`OrderExists`) is an induction over its length, done by a
shortest counterexample (`NatMin`), and `SortedIs` says that the best comes first.

**Call Me Maybe.**  `AnswersComplete`, for any functions, prompts, scores and
vocabulary, any commands and kills, and with no hypothesis on the exercises: a
run that reads its files while they are prepared anew has prompts of one set and
functions of one, maybe another (`FilesMade`, `GenMade`).  What is generated is
empty or begins one of its names, and no name is a proper beginning of it
(`Begun`): a token that is not masked keeps the first (`PrefixContinued`), and
keeps the second because decoding goes on only while no name is complete
(`PrefixGrown`).  So a mask never covers all tokens, and a name that begins with
another is never answered.  A file of answers is whole only as a list as long as
its prompts (`FullFile`), with the parameters extracted for the function chosen,
which are always of the types it takes (`ExtractAccepted`, where the parameters
of a function have different names).  `AnswersPaid` (`AnswersSound`) adds the
grade: it has the hypothesis `PromptsNameArguments`, that what is extracted is
what the exercise asks for, which is a property of the exercises and not of the
code; TLC evaluates it on the instance of `callme_graded`.  The lists of a set are
chosen by their order (`Ascending`); that there is one for any choice of places
(`ListExists`) is once more an induction by a smallest counterexample.

**Fly-in.**  `OnlyRoutelessRefused` (`RefusedWithoutRoute`), `RoutesAreBest`
(`RoutesBest`) and `FlightIsSound` (`FlightSound`), for every set of lines, any
zones, drones and limit of turns.
What `validate_connectivity` visits is what loopless walks reach
(`VisitedReached`, `ReachedVisited`), in both directions by closed sets
(`VisitedWithin`): a set with the start that no accessible step leaves holds all
that is visited.  So the parser refuses no map that has a route (`RouteIff`).
That the path finder then finds one is the same argument about the zones it has
ever pushed, when its heap is empty: each of them has an entry of least cost,
which is not stale and has left no neighbour out (`RouteFound`).  The heap does
become empty, or the end comes first: entries of one zone differ in their costs
and a path is loopless, so there are `MaxRounds` of them at most (`PushedFew`), and
each round takes one out for good (`SearchEnds`).

That A* finds a cheapest path: at any time of the search, every walk `q` to the end
that keeps off what is to be avoided has a zone in the heap, at no higher cost than
on `q` (`Frontier`); so when the end comes first, nothing cheaper is left, provided
the distance never overestimates the cost of the rest of `q` (`Near`, `FoundIs`).
No consistency of the distance is needed: a zone whose cost turns out lower is
pushed again.  And a search in vain shows that there is no such walk
(`NoneMissed`).

Yen's algorithm rests on where a route leaves the paths found so far
(`Leaves(paths, q, i)`: it has its first `i` zones in common with one of them, and no
more with any); every route left does so somewhere (`LeavesSomewhere`).  The search
for a spur at the `i`-th zone of the last path keeps off exactly the routes that do
not leave there (`SuffixKeeps`, `BranchIs`), and finds a cheapest of those that do,
or there is none (`BranchExists`).  The invariant of the rounds (`YenStates`,
`Explored`) says that for every route which leaves the paths there is a candidate
that leaves them together with it and costs no more, except for those that leave
the last path at a zone not yet tried.  Hence the cheapest candidate is a cheapest
route of those left (`PathAdded`), it is new, and when no candidate is left there is
no route left (`NextPathIs`, `FindKIs`).  That candidates of earlier rounds are kept
over the rounds is what makes it true, and that they are compared with all seen.

Hence every drone has a path that ends at the end zone.  `Flying`
holds from turn to turn: a drone is where its path says, the counter of a zone is
the number of drones there, although it is kept by differences (`CountIs`), and
the hops made so far are at least half the turns.  For the last, `SomebodyMoves`:
where no drone waits in a restricted zone, all that are not delivered intend to
move; nobody is approved before the first of them, so its connection is free, and
all who stand in its target zone leave.  A turn that begins with a waiting drone
may move nobody, but the next one begins with none.

**The index of RAG.**  `RebuildKept` (`RebuildRepairs`), for every repository,
chunk size and number of commands and kills: the invariant `Progress` says of an
index command at its `at`-th file that all files before it are of its own chunks,
and that there is no complete save from its first truncation on.  A killed command
leaves a mixture of two indexes behind; the next one writes every file again, so
that its end is the first state in which a save counts as complete.

`ChunksKept` (`ChunksSound`), for texts of every length, every size and any number
of files: the chunks of a file hold all its ink once and in order, none is empty or
larger than the size, none begins before the end of the one before it, and where a
text is regular each one is the text between its positions.  It is assumed of the
constants that sizes are positive, that the walk gives a file once, and that a file
that is there holds a text.  The chunker is proved from the bottom, and two notions
carry the argument over its levels.  `Fits(s, lo, hi)`: the chunks `s` lie between
two positions, none before the end of the one before; it survives joining side by
side (`FitsJoin`), and cutting each chunk again inside its own place (`Recut`).
`InkOf(s)` is the ink of the chunks put together, which dropping blank chunks does
not change (`FilledSound`).  Where a text is cut at separators, `Tiles` says that
nothing but white space of the separator's width lies between the pieces
(`PartsSound`); for a run of newlines this is the lemma `DoublesSeparate`.

The positions that the code counts beside the text are the difficult part.
`Collected(s, base, e, x)` is the invariant of the loop over lines: what is cut and
what is left in `cur` have the ink `x` of the lines read, and the position never
runs ahead of the `e` characters read, though it may fall behind them, by the
newlines and blanks the code does not count.  That is why positions may be wrong but
never overlap (`AddLineSound`, `SplitSound`).  Exactness needs that it does not fall
behind: a text which starts with ink and has no empty line (`Lined`) never meets a
blank `cur` before its last line, so `Traced` says that `cur` is the very piece of
the text at its position (`AddLineExact`, `SplitExact`).  The loop over paragraphs
has the same two invariants, `Joined` and `Linked`; joining two paragraphs by one
empty line gives back the text only if that is what stood between them, which is
what `Spaced` and thereby `Regular` ask for (`AddParagraphExact`).  The blocks of a
Python file have nothing between them (`DefinitionsSeparate`); a block that is split
must be `Lined`, hence the stronger condition on Python files.  At last the
chunks of all files are built one file at a time (`GatheredStep`), and `IndexInv`
carries what was built to the first write of the command.

**What RAG finds and answers.**  `ResultsKept` (`ResultsSound`), for every set of
scores, every `--k`, `--limit`, dataset and size of a prompt.  Assumed of the
constants: these options are numbers or not given, a prompt has room for something,
and a question expects finitely many sources, which begin and end at numbers.  The
difficulty is that four commands work on files of others, which may be of two saves
or have changed.  `CommandsInv` has a part for each place where something is kept:
`DiskOK` (a whole file is of the chunks of some index, and no place is twice in
it), `IxOK` and `RdOK` (what a running command holds), `ResultsOK`, `ReportOK`,
`PromptsOK` and `BoundsOK`, beside `IndexInv` from above.  `FrameStep` says which
command changes which of them; every part then has one lemma for those
(`StoredStep`, `ReadStep`, `ResultsStep`, `ReportStep`, `PromptsStep`,
`BoundsStep`).  What they rest on:

* *Ranking.*  Sorting puts an index behind as many as are better.  That this is a
  sequence with every index once, the better one first (`RankedIs`), follows by
  counting: ranks are distinct (`RankOrder`).  The positive scores come first in it, so cutting
  to `k` and then dropping the others gives the first of what a larger `k` gives
  (`HitsAre`); removing repetitions after the cut loses nothing because places in
  an index are distinct (`DedupeInjective`, `FoundSound`).  Where numbers of one
  index are looked up in another, whatever is in range is enough for this.
* *Recall.*  A source at its very place overlaps itself, and more results find no
  less (`RecallGrows`).
* *Prompts.*  `Filling` is the invariant of the loop over sources: the parts so far
  and the room left make `MaxContext` (`PromptFits`).  `Grounds` adds that while
  every chunk is at its place, part `j` is the beginning of the text that was
  indexed at source `j` (`PromptGrounded`); it needs from `BuildSound` that no
  chunk is blank, or a source would be passed over and the rest be out of step.

**Checked by TLC only.**  Liveness under fairness (the prover has no ENABLED):
`Shutdown`, `BurnoutDetected`, `Delivered`, `ShutdownCompletes`, `ReadersEnd`,
`EverybodyArrives`, `ExamEnds`, `MazesCome`, `RunEnds`, and so the liveness half
of `ImplementsSandboxCall`.  Every invariant and action property of a passing run
is also a theorem.

---

## 6. Where the code and its documentation disagree

With a run that TLC refutes:

* **A dead client stops the server** (Tree Nity, `server.cpp:72`,
  `treenity_killed`).  The control thread opens the response FIFO with a
  blocking `open`; if the client has died after its request, nobody ever opens
  the other end.  README.md:154-155 says it never blocks for long.

Met while modelling, without a run of their own.

**Codexion**

* `monitor.c:26` compares the clock, without a lock and without tolerance, with
  a `last_compile_start` that `do_compile` has sampled and not stored yet.  A
  coder preempted in between is declared burned out although it started in
  time.  README.md:162 says a stale read "cannot cause false burnout given the
  10 ms tolerance".
* With one coder both dongles are the same; it waits for the one it holds
  (3.1).  A coder may burn out while it debugs or refactors, since only
  COMPILING is exempt in `monitor.c`.

**Tree Nity**

* `topic.hpp:173`: the worker writes to a subscriber's pipe with the mutex held.
  If that subscriber stops reading, the next request for the topic blocks the
  control thread, and the watchdog of `server.cpp:365` is not started yet, while
  README.md:213-215 promises an end within five seconds.  `ShutdownCompletes`
  holds with `Stalled = {}` and fails with a stalled subscriber.
* `topic.hpp:104`: `attach_fd` finds the consumer by identifier only.  A
  subscription may end, by DISCONNECT, while its opener is still between
  `open` and `attach_fd` (`server.cpp:157-165`).  If the name subscribes again
  and is attached first, the old opener finds the new consumer active and puts
  the old pipe in place of the new one; the next write breaks, the descriptor
  becomes 0, and the new subscriber gets nothing more.  README.md:15-16 promises
  delivery to every consumer.  `Delivered` holds in `treenity_live`, where a name
  is used once, and TLC refutes it on the instance of `treenity_same` made fair
  (one message, no kill, no shutdown).  `ExactlyOnce` is not affected: nothing
  that is printed is wrong.
* `server.cpp:209`: one identifier on two topics has one FIFO and one index
  entry, which each worker overwrites.  README.md:198 says data FIFOs are never
  shared.
* `client.cpp:302`: a signal between the test of the flag and `read` is noticed
  only with the next message or the end of the stream (README.md:366-368 relies
  on EINTR).  `client.cpp:108`: the answer is waited for without a timeout; the
  comment at `client.cpp:96-98` says the call returns false.
* `server.cpp:374`: topics are destroyed while detached opener and reader
  threads may still hold references to them.  The model keeps a destroyed topic
  where it is.
* README.md:207-208: the backlog is flushed at a shutdown only if the worker
  sees it before it sees `shutting_down_`.  A broken pipe closes the descriptor
  and keeps the consumer, so the name of a killed subscriber stays taken until
  somebody sends DISCONNECT.

**Fly-in**

* `simulator.py:112`: a drone that means to leave counts as gone, also when its
  move is then refused, so a zone may hold more than `max_drones`
  (README.md:87).
* The paths are the cheapest, in order, only where the distance never
  overestimates the cost (`pathfinder.py:103`; the README says "ranked by total
  cost").  `RoutesBest` has that as a condition.
* Drones are dealt to the paths in turn whatever these cost
  (`simulator.py:66`), so the number of turns is not the fewest possible
  (README.md:7).  Priority zones cost what normal ones cost.
* `nb_drones` may be given again; a connection of a zone with itself is accepted
  before any other connection of that zone and raises an uncaught error after;
  a blocked start is accepted.

**Agent Smith**

* `executor.py:326` ("DONE message follows right after"): code that catches the
  signal goes on, and DONE may never come.  A tool result that comes after a
  caught timeout is read by the next tool call of the same code.  `execute` does
  not catch the EOFError of a child that died.
* `models.py:48`: `total_requests` is said to include retries, it counts
  answered requests.  The docstring of `get_patch` says "every change";
  untracked files are left out.  Limits may be passed by one response.  A
  response whose content is null raises a TypeError.
* `cmd_validate_mbpp` has no time limit: a submitted function that loops holds up
  the exam (`ExamEnds` names that case).  `agent_swebench/__main__.py:125-139`
  may fail before the `try` at 152, and leave a container.

**Pac-Man**

* A win is looked at before a loss (`game.py:157`): the last dot eaten in the
  frame of the last life wins the level, and the next one begins with no life
  left.  The collisions use the position from before the loop
  (`level.py:113`): both ghosts may take a life in one frame.
* `highscore.py:66`: the file is emptied before it is written, a kill in between
  loses the table.  Freezing cancels edible and respawning.

**A-Maze-ing**

* The passes that bridge and prune never have anything to do (`RepairsIdle`).
* The output file keeps the first maze when a viewer makes another; the slideshow
  of the terminal has no way out; ALGORITHM is not checked before the generator
  runs; DUCKS_COUNT turns ducks on even with DUCKS=False; the last of two values
  of a key counts.

**RAG against the machine**

* Positions drift from the text where three or more newlines follow each other,
  where a text begins with empty lines, at an empty line at a flush, and at a
  blank rest before a long line (`chunker.py:46-65`, `194-216`; the docstring
  promises "suas posições no arquivo").  `PositionsExact` is about regular texts.
* A truncated pickle raises EOFError, and too few texts IndexError, where
  `_load_index` promises a clean message; an index mixed of two saves of equal
  lengths is served without a word.  A `--max_chunk_size` of zero or less loops
  for ever.
* A question without an identifier gets a new one at every load, so its recall
  is 0.  `evaluate` ignores `--k`.  A changed file is read at the old positions.

**Call Me Maybe**

* A name whose tokens begin with all tokens of another is never chosen (the
  README: "guarantees ... exact, valid function name").  Fewer than three
  functions raise IndexError; any exception loses all results and leaves the old
  answers file.  A wrong number of arguments prints "error" and goes on.
* Boolean and array parameters are extracted as text.  Grading compares outputs
  only, by place; prompts and definitions may be of two sets of exercises.

---

## 7. What is not modelled

* *The Answer Protocol*: the server with its world, the framing, the JSON
  reader, the log and the clients.  Planned, see section 8.
* *push_swap* and *get_next_line*: planned.
* *Libft, ft_printf*: functions of the C library without state.
* *Drawing and text*: the display of Fly-in, colours and effects, the renderers
  and the validator script of A-Maze-ing, prompts and logs, the syntax of map,
  configuration and JSON files.
* *Language exercises, network and container configurations*.
* *Language models*: their answers are arbitrary values.
* *Within the modelled parts*: the abstractions of section 3.  Failures of
  `malloc`, `pthread_create` and `mkfifo` are left out.

---

## 8. Plan

1. **TapServer** and **TapFraming** (The Answer Protocol): one action per
   command over the shared world, disconnections between any two of them.
   Abstract specification: an item is in exactly one place.
2. **TopicDelivery**: what a topic promises to one subscriber (a growing prefix
   of the wanted messages), with `TreeNity` shown to implement it where
   identifiers are used for one topic.  `TreeNityProofs` has the invariant.
3. **PQueue**, the array heap of Codexion against the set of nodes;
   **PrefixTrie** and **HashMap** of Tree Nity against sets and functions.
4. **PushSwap** and **GetNextLine** against reference definitions over bounded
   inputs.

Bounds worth raising: three coders under edf, two producers, a grid of three by four.
