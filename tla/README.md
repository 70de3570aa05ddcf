# Formal models of the multi-model review agent

This directory holds TLA+ models of the review agent in `src/`, TLC configurations that check them on small
instances, and proofs, checked by TLAPS, that hold for every instance. Source positions are given as `file:line`
under `src/scripts/` unless they start with another directory.

1. [The system](#1-the-system): its parts, their state, how they interact, what is hard about them
2. [The models](#2-the-models): which module stands for what, and what it abstracts
3. [The runs](#3-the-runs): what TLC checks, on which instances, with which fairness
4. [What disagrees](#4-what-disagrees): where the code does not do what the repository says
5. [The proofs](#5-the-proofs)
6. [Not modelled, and the plan](#6-not-modelled-and-the-plan)

## 1. The system

The agent reviews a change with four language-model reviewers at a time, each a command-line program. In the
**convergence loop** a round collects the diff, runs a preflight, launches the reviewers, and decides; if something
blocks, a merge agent edits the tree, a gate tests it, and it may be committed and pushed before the next round.
The **full-mode runner** is a shell script that runs one round of the same reviewers without repairing anything.

### Inventory

**Convergence loop** (`review_until_converged.py`, main 273-400, `_run_one_round` 126-270).
State: the round number, the fingerprint of the round before, and everything outside it: the working tree, the index,
HEAD, the remote. It keeps nothing on disk of its own, so a second start takes the tree as it was left.
Operations: one round, and main's loop. Interacts with every other part by calls; with reviewers, merge agent and
tests through the shared working tree.
Hard: the order of seven outcomes; a fingerprint carried between rounds; what the tree holds at each of four moments
(diff, snapshot, gate, `git add -A`); being killed and started again.
Correct when: exit 0 means what the README's table says; nothing unreviewed, untested or written by a reviewer is
pushed; it always ends.

**Diff collection** (`review_loop/diff.py`, `collect_diff` 110-207, `_run_tree` 269-317, `run_preflight` 320-351).
State: the round's `diff.patch` and `audit.json`. Hard: two fallbacks to `HEAD~1`; untracked files; a scrubber that is
a process of its own and can die half-way; a preflight that runs the project's tests and must be killed with them.
Correct when: the diff is the change, and no reviewer is shown one that was not scrubbed whole.

**Secret scrubber** (`scrub_diff.py`). State: four flags over the diff's lines (`in_safe`, `in_secret`, `in_key`,
`in_hunk`, 804-850). Hard: each flag is set and cleared by different header forms. Correct when: every content line of a
key or a secret file is redacted, and an ordinary line after it is not.

**Tamper check** (`review_loop/tamper.py`). State: a snapshot string. Hard: the second snapshot may not run git when git's
control files changed (87-91). Correct when: a reviewer's write shows, and the round's own files do not.

**Findings, result extraction** (`review_loop/findings.py`, `review_loop/results.py`). State: the result files of a round.
Hard: three envelopes, a fallback from codex's file to its stdout, planted files. Correct when: a slot's result is what
its own reviewer wrote, or missing.

**Merge agent, gate, git** (`merge_agent.py`, `gate.py`, `git_ops.py`). State: a child process; the tree; HEAD and the
remote. Hard: timeouts that kill the child and not its children; an unchecked `git add`. Correct when: only what passed
the gate is committed.

**Reviewer processes** (`review_loop/reviewers.py`, `launch_reviewers` 875-934 and what it calls; `review_loop/proc.py`).
State: the tracked processes, those still pending, the private output directory, the list of scratch directories, one of
which holds a copy of a sign-in token; and in the operating system, processes, groups and their numbers.
Operations: spawn, await, give up, stop, publish, release. Interacts with the loop by its return value and by files in the
round's directory; with the reviewers by signals to their groups.
Hard: a signal at any point; helpers that outlive their leader, or escape its group; group numbers that are reused; copies
that fail half-way. Correct when: nothing is left running, no stranger is killed, what is read is what was written, no
output is lost, no token is left silently.

**Backend detection and routing** (`backends.py`, `_choose_command` and `_pick_backend` in `reviewers.py` 381-619). State: per
round, which backends are available; per slot, which were struck out. Hard: the fall-through (596). Correct when: it ends, a
slot is not left empty while a permitted backend works, and a project pinned to Bedrock is not sent elsewhere.

**Full-mode runner** (`run_full_review.sh`). State: two shells, a job and a process group per slot, done markers in two places, a
private output directory, `PUBLISHED`, `PUBLISH_TRIED`. Hard: traps (72, 119, 283-287), a watchdog racing a finishing job
(734-743), group numbers (213-240), publish-once (254-267). Correct when: as for the reviewer processes, and one result per
slot says why it is missing.

**Others**: `agy.py` (choice of a model from a list), `claude_tools.py` (parser of tool grants and the deny list it yields),
`agy_sandbox*.py` and `unix_sockets.py` (a sandbox command line and a probe of the host), `preflight/` (facts for a report),
`artifacts.py`, `validate_review_results.py`, `install.sh`.

`PROJECT.json` lists every component with its status, and under `hazards` each place where this code can go wrong in a way a
unit test would hardly reach, with the property that would show it.

## 2. The models

| Module | Stands for |
|---|---|
| `ConvergenceLoop` | the loop and everything a round calls, at the grain of one action per call or decision |
| `LoopContract` | what the loop promises a caller: reviews, verdicts, repairs, one exit code |
| `LoopProperties` | the loop's properties, its inductive invariants, and the refinement of `LoopContract` |
| `LoopProofs`, `LoopGitProofs`, `LoopRefinement` | theorems about `ConvergenceLoop`: its exits; what it commits, pushes and diffs; that it implements `LoopContract` |
| `ReviewerRound` | one round's reviewers: processes, signals, scratch directories, publishing |
| `RoundProperties`, `RoundProofs` | its properties and inductive invariants; theorems about it |
| `FullRunner` | full mode's two shells and the second one's jobs |
| `FullProperties`, `FullProofs` | its properties and inductive invariants; theorems about it |
| `Scrubber` | the scrubber's three readers, and its properties |
| `ScrubberProofs` | theorems about `Scrubber` |
| `Routing` | which CLI takes a slot, decided by the loop and by the runner |
| `AgyModel` | which model agy runs |
| `Reading` | how a slot's review is taken from what its CLI wrote, by the loop and by the runner |
| `Slots`, `SlotsProofs` | the last three in one specification; theorems about each |
| `Tamper`, `TamperProofs` | the check's two snapshots and its report, their properties and inductive invariants; theorems about them |
| `MCLoop`, `MCRound`, `MCFull`, `MCScrubber`, `MCSlots`, `MCTamper` | instances for TLC |

`ConvergenceLoop` and `ReviewerRound` meet at one call. `ReviewersFinish` and `LaunchRaises` of the first are what
`launch_reviewers` can do to its caller; the second is how it does it. In particular `ReviewersFinish` with no answer is the
round whose outputs could not be published (`reviewers.py:929-933`), and that reviewers do not write to the tree after the
check is `NothingLeftRunning` of the second, as far as their groups go.

### ConvergenceLoop

*The tree.* What is in the working tree, the index, HEAD, HEAD~1, the remote branch and a diff is a set of **marks**: one
per change of the user's, and `<<who, run, round>>` for a write by a reviewer, the tests, a merge agent (`fix`), the round
itself (`packet`, the files under `data/reviews` where the project does not ignore them) or a process left over from
an ended run (`orphan`). Two trees are equal when their marks are. A diff between trees is a set difference, so deletions
and edits of the same lines are not told apart from additions; no property asks for that.

*The repository and the command line* are the record `setup`: `--max-rounds`, `--report-only`, `--auto-commit`, whether the
base is the default, a named one that resolves or one that does not, whether a merge base exists, whether HEAD is the branch that
`origin/main` follows, whether the tests write, whether packets are ignored, which of the two necessary backends exist, and whether a slot's tools
let it run git (`git_tools`: the flags of today's backends mean to give none of them that, but `tamper.py` speaks of any reviewer).

*The tamper check.* A snapshot is the part of git's listing that this module's marks can show (`Status`): what is in the tree and not in HEAD, and what of
it is staged. A reviewer may write, stage (`git add` of its own file, or `-A`) and commit, in any order and any number of times; `TamperReport` compares the two listings,
and reports more than that if it likes (a write outside the tree). So a write that a reviewer also committed has no line in the second listing, as in the code, and
the loop goes on: the properties say which writes they are about, and section 4 has the disagreement.

*Correspondence.* `pc` is the call in progress. `round`, `previous_fp`, `blocking`, `missing`, `touched` and the exit code
are the code's variables of those names. The decision (`review_until_converged.py:180-250`) is `EndTampered`,
`EndNoResults`, `EndTouched`, `EndIncomplete`, `EndConverged`, `FingerprintRaises`, `EndStuck`, `EndReportOnly` and
`ProceedToFixes`, whose guards carry the code's order. `CollectDiff` is `collect_diff` whole, the packet it writes included.
The merge agent is a process: `MergeAgentEdits` may happen any number of times until it ends in one of three ways.

*Undone by nobody.* A timeout kills the process it waited for (`merge_agent.py:267`, `gate.py:41` through `subprocess.run`),
not what that started: `orphans` may write at any later time, also during the next run. So may what is left after SIGTERM, which
unwinds in `launch_reviewers` and the preflight only. An uncaught exception ends with 1, as "no backend" does.

*Left out.* SIGKILL of the loop, a user editing the tree during a round, a suite that passes or a merge agent that succeeds
and leaves something running, a repository without `HEAD~1`, a reviewer that pushes, deletes or rewrites history, a reviewer's write that keeps an ignored file's
size and mtime (`tamper.py:66-67` says it is not seen), and prompts, progress and wording.

*History variables* (`began`, `collected`, `seen`, `found`, `gated`) record what the properties compare; no action reads them
in a guard.

### LoopContract

The caller's view: a review, a verdict on its findings, a repair or an end, and again. It allows one exit code for each reason
and fixes when each may be given: 0 only on no findings (or on nothing to review), 2 only on a repeat, 6 only when the
rounds are used up, 3-5 only out of a repair; the remote changes at most once a repair and never otherwise. The refinement
mapping in `LoopProperties` takes the loop's thirteen program points to five phases.

### ReviewerRound

*Processes.* A leader is `none`, `running`, `stuck` (alive, ignores SIGKILL), `zombie` or `reaped`; per slot the helpers it
started may live in its group or in a session of their own, which no group kill reaches. A group's number may be
somebody else's once its leader is reaped and no helper is left in it (`NumberIsReused`), and a kill sent then sets `struck`.
`returncode` is what Popen knows, which is not always what the kernel did: a signal may cut a wait between the two
(`lost_reap`).

*Signals.* A signal does one of three things, by program point: it is noted (`signals_held`, points `Held`), it waits
(`signals_deferred`, `Deferred`), or it raises SystemExit (`signals_unwind`, `Unwinds`). `Unwind` says where the exception
goes: into `_spawn`'s own cleanup, into the finally block, or out of it. After the handlers are restored a signal kills
(`Die`). One program point stands for the few bytecodes between two calls.

*Seeing an exit* (`_exit_status`): with `os.waitid` the leader stays a zombie until the finally block; where `ps` must be asked, its
group is killed and then it is reaped. `ps` may be missing or give no answer, for one poll only or every time (`reviewers.py:827-834`): that leader is reaped first and
its group killed after. `Platforms` chooses between `waitid` and `ps`, and the answers of `ps` are free at each poll; the history variable `untold` keeps the slots it
gave none for.

*Files.* An output is none, partial or whole; what lies under its name in the round's directory is absent, planted, partial
or whole. A slot's three files are one output. `listed`, `on_disk` and `named` are the scratch directories: `out`, with the
only copies of the outputs until they are published, and `token`.

*Left out.* Which program a slot runs, what it is fed, progress reports, the size of the deadline. The instant between
`mkdtemp` and the listing of the directory is not a point of its own: the directory is empty then.

### FullRunner

*The shells.* `opc` is where the outer shell is (64-95) and `ipc` where the inner one is. A step of either is a command or a few
between which nothing can be told apart. TERM to the inner shell is handled before its next step, and what it does depends on
where it is (`InnerGetsTerm`): before the first trap the shell ends and the helpers' copy stays; under the first EXIT trap
(119) that removes it; later `exit 143` runs `finish_round`, which ignores signals once it has begun (255). A signal to
the outer shell is kept in `pending`, ends a `wait`, and is forwarded when there is an inner shell to forward it to.

*Jobs.* A job is the shell of its brace group, the CLI and what the CLI leaves behind, in one process group. Its shell marks the
slot done in `OUT_DIR`, agy's after removing its scratch. bash reaps at once, so an empty group's number may be anybody's:
`LiveGroup` takes the numbers the system reused as a parameter (`taken`), which pass only where the runner shares its caller's
session (`own_session` false, no setsid). `struck` keeps a slot whose number was killed when the group was empty already at the
time it was asked about; a group that empties between the question and the kill is in `mates`.

*Files.* An output is none or good, its name in `REVIEW_TMP` absent, planted or good; reviewers may plant under any name
there, `result-N.json` included, and all are planted to begin with. A CLI ends with 0, with `timeout`'s 124, with 137 or with anything else
(`Endings` says which of these, per slot); 137 is `timeout -k`'s KILL or anybody else's, which the runner cannot tell apart. `WhyNot` is its case over the marker (789-797). `done`, `published`, `publish_tried`, `listed` (`SCRATCH`) and
`why` are the code's. Slot 0 of the scratch directories is `PROMPT_DIR`.

*Left out.* A helper that leaves its session (no group kill reaches it, as the loop's escaped helpers), a placeholder that cannot be
written, a failed removal of `OUT_DIR` or `HELPER_ROOT`, the copies of the done markers in `REVIEW_TMP`, which the runner does not
read, and the empty workspaces of hermes and gemini, which hold nothing. Which launcher takes a slot is `Routing`'s: here a slot is skipped, taken, or
taken by agy.

### Scrubber

One line, list item or entry of an object at a time, in any number. A line's content is a record of what the patterns find in it
(`AnyContent`): a credential by its shape, by its name, a reviewed one, a URL's password read literally, a fixture of the
agent's own, and the BEGIN and END markers of a private key in their order. A value of an object is a set of
parts -- a string is one, a list or an object holds any --, each a credential by itself, an ordinary string or one too short to be a secret (`Values`); its key may be
a credential's name. `WrittenAsIs` is what of it is written out as it came, `SecretParts` what of it should not be. A diff is git's: `NextLines` says which lines may come where, and that a body
line may begin like a file header. The flags `in_safe`, `in_secret`, `in_key`, `in_hunk` are the code's; `exempt`, `secret`,
`place` and `key_open` say what the input really is, from git's rules and per version of the file: a removed line belongs to the old one, an added line to the new
one. The code has one `in_key` for both: `crossed` notes that an END of one version, or a line that is content of neither, came while a key of the other was open.
A key is known by its BEGIN, so one that began before the hunk is not known to the model either, and at a `@@` line none is open. `leaked`, `broken` and `excess` note the three ways to be wrong.

*Left out.* The regular expressions themselves, colour escapes, encodings, the nesting of a JSON document (each object and list is walked by itself,
as `walk` does), `_parse_args`' refusals.

### Routing, AgyModel, Reading, Slots

`Routing` takes a host -- what is installed, what can be made ready, what is pinned, proven and asked for -- and lets the loop and the
runner route one slot of it, each by its own code: `LoopPicks` is `_pick_backend`'s retry loop over `_choose_command`'s table
(`Preferred`), `RunnerTries` one condition of the runner's if-elif chain (`Chain`, `Allowed`). Detection is shared (`Detected`), as in the code. An installed CLI
is ready or not for the whole decision: a sandbox that is reachable at the launch though it was not at the check is `unready`. A directory for hermes's
prompt that cannot be made is no such answer: `mkdtemp` raises out of `_pick_backend` (`reviewers.py:576-582`), nobody is struck out and the round is over (`"raised"`).

`AgyModel` asks for a model several times; each listing is any set of slugs. A rank is a record, and `Below` compares two as Python compares the tuples (`Older` the versions in them).

`Reading` takes what a slot's CLI wrote -- no JSON, an object, a review, one too deep to write again, in claude's envelope, in agy's stream with
any end of turn -- and reads it by `results.py` and by `runner_cli.py`. The CLI may be any, also one whose form it is not.

The three share only the CLI, which `Reading` is given any value of. `Slots` follows one of them at a time, since their product says
nothing more.

### Tamper

Paths have kinds: in the tree, ignored, in a repository within, a control file, a program, the round's inputs, outputs and strangers, and
elsewhere. A node is absent, a link or a file with content, size and mtime, and an exec bit. `tree` is what is on disk at each path, in git's index and
in its head, and which files the loop's stdout goes to; `began` is the tree of the first snapshot. Every function of `tamper.py` is an operator of a tree. A snapshot is a set of lines, one per
path as the code prints them (`ControlLines`, `InputLines`, `StatusLines`); git's listing (`Entries`) is external. Links are followed
one at a time, at most as many times as there are paths (`Follow`): what is a link even then is a loop. Reviewers write, delete,
stage, commit and move (`git mv`); the loop's own log grows at any time, the second snapshot's two halves included. `WouldRun` is what `git status` would execute.

*Renames.* git lists a file that left the index together with a new one of the same content as one entry, under the new name; `_status_lines` prints that one and skips the old
name (`tamper.py:151-157`). `Moves` are the pairs git may see, `Renames` a largest choice of them, each file taken once. git's measure of similarity is modelled as the
same content. A copy keeps its source where it was, so skipping that name loses nothing. `NothingUnseen` accepts a report under the new name, and concedes the one case
without any: a name another's rename already had is filled by this file (`Conceded`).

*Filters.* A configured filter runs a script in the tree. It may be configured in the repository's own config (with the global and the system's), in that of a submodule in the git directory,
both of which `_filters` reads, or where it does not look: in a config that a submodule's includes, or in that of a submodule whose git directory is inside its own tree (`Configs`). `SwitchedOff` are those of the first two.

*Assumed of the start* (`RoundIsFresh`). The round's directory is new: its session is named for the second it was begun in (`review_until_converged.py:371-373`),
so there is no stranger in it, the loop has written its inputs, and no link leads to an output yet; a later round's could be led to only by what an earlier round's merge agent or
tests wrote. The names of the logs are resolved (336), so none is a link. What the reviewers do after that is not restricted: they may link to an output, and put a link in a log's place.

*Left out.* FIFOs and devices, `assume-unchanged`, renames git sees in the working tree alone (after `git add -N`), edits of `.gitignore` that hide a new file, and a process that
goes on writing during the check (`ReviewerRound`'s `NothingLeftRunning` is about that). A log that git tracks is in the model, and `NoFalseAlarm` does not speak of it: git
lists it as modified once it has grown.

## 3. The runs

| Run | Instance | Shows |
|---|---|---|
| `loop_rounds` | 2 slots, 2 findings, 2 changes, 3 rounds, ten setups | what exit 0 and exit 2 mean, and what each round is taken against |
| `loop_restarts` | 2 slots, 2 findings, 1 change, 2 rounds, 2 starts, 1 kill, four setups, two with reviewers that run git | what is committed, pushed and shown, over a restart |
| `loop_live` | the same, two setups, with fairness | every start ends; the loop implements `LoopContract` |
| `round` | 2 slots (one codex), 1 helper, 2 signals, `waitid` | nothing left running; outputs and token accounted for |
| `round_ends` | 1 slot, 2 helpers, 2 signals, both ways of seeing an exit, with fairness | kills reach the round's own groups; a round ends |
| `full_runner` | 2 slots (one agy's), two exit statuses each, 1 signal, a session of its own, with fairness | nothing left running or private; results and reasons true; the run ends |
| `scrubber` | every content the patterns tell apart, four kinds of file, objects of up to 4 of 6 keys with every kind of value | what goes through and what is redacted |
| `slots` | slots 1-3 on every host; 8 slugs, 3 questions; every output of every CLI | who answers, on which model, and what is read |
| `tamper` | 13 paths of every kind, 4 first trees, 2 writes | what is reported, and what git runs |
| `loop_trunk`, `loop_named_base`, `round_cut` | see section 4 | a disagreement each |

### The loop's properties

- `ConvergedCoversChange`: a round that converges was shown everything the run began with beyond its base and all that was
  added since. It relates the last diff to the tree and the first base, over commits in between.
- `ConvergedIsCleanBill`: exit 0 after reviewers ran: every slot answered, nothing blocked, and no reviewer of the round left a write uncommitted.
- `StuckIsRepeat`: exit 2 is two consecutive rounds with the same findings, and the same findings are never repaired twice
  running.
- `NamedBaseIsKept`: a base somebody named is what the round is taken against.
- `ReviewerWritesStop`: what a reviewer wrote in this run and did not commit itself, staged or not, reaches neither a merge agent, nor the gate, nor the loop's
  own commit and push, nor exits 0, 7 and 11. Of what it did commit this is not so (section 4).
- `PushedWasGated`, `PushedWasReviewed`: what a push adds was in the tree when the gate passed, and was shown to a reviewer
  that answered, is the round's own fix, or was committed by the round's reviewers themselves. The exceptions are part of the statement: what tests write and what an
  ended run left behind writes is committed by `git add -A` whatever it is, and so are the packets where they are not ignored; that these are pushed unseen is not caught
  by any property (the hazards say so).
- `ReportOnlyChangesNothing`: every step of a `--report-only` run.
- `OnlyScrubbedIsSeen`: a reviewer sees only a diff the scrubber returned 0 for, also when the scrubber was killed.
- `Terminates`, `ImplementsContract`: liveness and refinement.

### The round's properties

- `NothingLeftRunning`: when a round is left, by return, exception or signal, no leader runs and no group has a member.
  The exception named in it, `unwatched`, is a reviewer not yet tracked whose own cleanup a second signal cut short.
- `OnlyItsOwnGroups`: no kill reaches a reused number, except after the reap of a leader `ps` gave no answer for (`untold`), and after one that a
  signal cut short (`lost_reap`).
- `ReadsWhatTheyWrote`: after a published round the name of each slot's output holds what its reviewer wrote, or nothing. It
  excludes rounds in which an escaped helper went on writing after the stop, which `docs/ensemble-review.md` concedes.
- `OutputsAreKept`, `TokenIsGoneOrNamed`: outputs survive a failed or interrupted publish; the token goes or is named.
- `RoundEnds`: with reviewers that never exit, or ignore SIGKILL, a round still ends.

### The runner's properties

- `NothingLeftRunning`: after `finish_round` ran, no job the runner knew of has a member. A job forked when the signal came and not yet in
  `JOB_PID` is excepted (`lost`, see section 4).
- `OnlyItsOwnGroups`: in a session of its own no kill reaches a number whose group was empty when it was asked about.
- `OutputsAreKept`: what a reviewer wrote is in `REVIEW_TMP` or still in `OUT_DIR`, at every step and whichever copy fails, and an
  `OUT_DIR` that stays is named.
- `NothingPrivateIsLeft`: scratch, prompts and the helpers' copy are gone or named; after a signal before the first trap the helpers' copy may stay.
- `ResultsAreTheirOwn`: a round that says 0 has only its own reviews, and no planted one.
- `WhyIsTrue`: a placeholder's reason is what happened, though job and watchdog write the same marker: "its own timeout" for a CLI that ended with 124 or 137, "exited"
  for one that ended with anything but those and 0, and so on. Who sent the KILL behind a 137 is not asked (section 4).
- `InterruptIsForwarded`: a signal at any point after the trap is set reaches the inner shell.
- `RoundEnds`: the outer shell ends and says how, whatever reviewers do.

### The scrubber's, the slots' and the check's

- `NothingLeaks`, `StructureIsKept`, `OnlyWithReason`: the scrubber against what the input really is. `NothingLeaks` is about every line and value that is a credential by itself,
  by its file or by the key beside it, at any depth, and about the lines of a private key's body -- in a diff but for those after the other version's END (`crossed`, section 4), of
  which it asks that the exit status tells: 0 is only for an input from which nothing was redacted and in which no key is open.
- `NoEntryIsLost`: a redacted key's new name meets no other entry.
- `RoutersAgree`: two implementations of the routing tables give one answer. `AnsweredByWhoMay`: the pin is never crossed, agy is not even run where
  nobody asked for it, and no slot stays empty that somebody could answer. Both except the loop's round that hermes's prompt ended.
- `OneModelTheBest`: one model per run, and the best of what was listed, with versions compared as numbers.
- `ReadsItsOwnReview`: no failed turn, foreign form or planted file passes for a review; both readers take the same but for codex's stdout.
- `NothingUnseen`: a write is reported under its own path, its link's or, of a rename, the new one, or it is one of the named concessions (`Conceded`). `NoFalseAlarm`: no write, no report, where
  the log is not tracked. `GitRunsNothingPlanted`: the second snapshot's `git status` does not run what was rewritten, nor the script of a filter configured in a config that is read.

### Bounds

- Two slots: every decision asks whether none, some or all answered. Two findings: the fingerprints can be equal, contained,
  overlapping or disjoint, which is all `Stuck` and its plausible mistakes tell apart. Two changes: one committed and one not.
- Three rounds: a fingerprint is compared twice, once with one that was itself compared. Two rounds where two starts are
  explored: what crosses from a run to the next is the tree, git's state and the orphans, and one repair makes each of them.
- In `full_runner` one signal: a second is ignored by `finish_round` once it has begun, except in the instant before (section 4). Two
  slots: one done and one not, one agy's and one another's, one published and one not. The one may end with 0 or 137, agy's with 124 or anything else: the runner reads
  one slot's status without looking at another's, so all four are met (all four in both slots are ten times the states and show nothing more). The runner's session is its own: without
  setsid `OnlyItsOwnGroups` promises nothing, and the rest does not depend on it.
- `scrubber` has no bound on the length of a diff, text or list: its state is finite. Four keys of an object: two credentials, and two that already have
  a redacted key's name.
- `slots`: slot 4 is routed as slot 1. Three questions: the listing fails, then answers, then could answer differently. The eight slugs differ in one part each,
  `4` and `4.0` among them. `tamper`: two writes are enough to put a link in place and write through it, or to stage and then change a file; the four trees
  hold a modified file, a staged one, an untracked one, links to a startup file, a dangling program, a log in the tree and a staged rename.
- Two signals in the round: the second is the one that finds a cleanup under way; a third meets the same points. One helper with two slots
  and two with one: a helper in a group, one out of it, and both. No counter of the code is cut short: `MaxRounds` is the
  largest `--max-rounds` offered, `MaxRuns`, `MaxKills`, `MaxSignals` and `MaxHelpers` bound the environment.
- Symmetry over slots, findings and changes is used in the runs without liveness properties only.
- Deadlock is not checked: a loop that has ended, or a round that was left, stops.

### Fairness

`FairSpec` adds `WF_vars(LoopStep)`: one call of the loop that can return does. The code justifies it with deadlines on
everything it waits for: the round's (`reviewers.py:1001`), the merge agent's (`merge_agent.py:265`), the gate's (`gate.py:40`), the
preflight's (`diff.py:295`). git and the scrubber have none: that they return is assumed, and of
`git push`, which waits for another machine, it is an assumption worth naming. Nothing is assumed of orphans, of the operator or of SIGTERM. Reviewers and merge agents share
`LoopStep` with the calls that wait for them, and cannot use up its fairness: a second write of the same mark changes nothing, so
it is no step of `<<LoopStep>>_vars`, and what remains is the end of the call.

`ReviewerRound` has `WF_vars(RoundStep)`: the round's own code runs on. Nothing is assumed of reviewers, helpers or signals.

`FullRunner` has `WF_vars(OuterStep)` and `WF_vars(InnerStep)`: two processes, each of which the kernel schedules. Everything the inner one waits
for is a sleep or a command of its own (`Deadline` is enabled as long as a slot has no marker, as the clock passes whatever jobs do); the
outer one waits for the inner. Nothing is assumed of jobs or signals. `Scrubber`, `Slots` and `Tamper` have no liveness property and no fairness.

### Mutants

Every property of a passing run has a mutant: an operator beside the original one, commented as a plausible bug, with which
the same run fails. `PROJECT.json` lists them.

## 4. What disagrees

Each of these is a run that TLC ends with a counterexample.

- `loop_trunk`. On the trunk with `--auto-commit` each push moves `origin/main`. In the trace one change is committed before the start and one is not; round 1 is
  shown both, its merge agent exits without an edit, the second is committed and both are pushed; in round 2 the default diff is empty, `HEAD~1` is taken (`diff.py:156-163`), and the loop converges on a
  round that was shown the second change alone. README.md:239 says of exit 0 "No blocking findings remain". The fallback is described in `diff.py:118-123`, for work already
  pushed; that the loop itself gets there is not. The run asks only about a last round that found everything pushed (`ConvergedCoversPushed`), since there is a second way: when `git add -A` fails, what was staged is
  committed and pushed alone, and the next round's ordinary diff starts after it.
- `loop_named_base`. `git diff --merge-base` fails for a named base that resolves but has no single merge base, and `HEAD~1` is reviewed
  (`diff.py:148-155`). The docstring (`diff.py:128-131`) says this is "Deliberately not a fallback".
- `round_cut`. A signal between `finally` (`reviewers.py:916`) and the mask (`proc.py:100`, called from 921) leaves the
  block before any reviewer is stopped. The comment above says the cleanup is for every group and a second signal waits.

Smaller ones met while reading, which no run checks:

- A scrubber killed by a signal is reported as exit 8, "secrets detected" (`diff.py:195`), though README.md's exit 9 is the
  one for a scrubber that "aborted part-way through". It is not shown to a reviewer either way (`OnlyScrubbedIsSeen`).
- README.md:241 gives exit 3 for a merge agent that "returned non-JSON"; only the exit status is looked at (`merge_agent.py:275`).
- README.md:423 says "the gate runs unconditionally" with `--max-rounds 1`; it runs after a repair only.
- README.md's evidence list names `convergence.json`, which nothing writes.
- `commit_and_push` returns success without pushing when there is nothing new to commit, also when an earlier run's commit
  was never pushed (`git_ops.py:18-20`).
- "An interrupted runner also takes down the reviewers it started" (`run_full_review.sh:177-178`): not a job forked when the signal comes and not yet in
  `JOB_PID` (330-331). And `finish_round` is cut short by a second signal between the first one's `exit` and `trap '' ...` (255).
- `runner-exit` holds 143 when a signal comes while the outer shell waits and the inner one has ended by the time of `kill -0`, whatever the inner one ended with (84-87).
- A job's marker may be overwritten by the watchdog's when it ends between the test of its marker and `kill_jobs` (738-740); the placeholder then says it was killed before it finished, which was true when the
  watchdog looked. A group that empties between `live_group` and `kill` (200-202) may be somebody else's when it is killed.
- A placeholder that cannot be written is not noticed: the round still says `ROUND COMPLETE` and exits 0 (798-804). A job killed between its two writes of a marker leaves none in `REVIEW_TMP` (146-147).
- The scrubber has one `in_key` for the two versions of a file (`scrub_diff.py:807`). An END line of one version, or a line that is no body line such as
  `\ No newline at end of file`, closes it while the other version's key is open; the next body line of that key then goes through. The BEGIN line was redacted, so the status is
  1 and no reviewer is shown the diff: `NothingLeaks` excepts those lines (`crossed`) and asks for the status.
- A CLI that ended with 137 is said to have "hit its own timeout" (`run_full_review.sh:791`) whoever sent the KILL, the system for want of memory included; tests/test_runner_script.py:746 asks
  of the placeholder "a true reason". The status is all the runner has.
- A file a reviewer wrote, staged and committed has no line in either snapshot (`tamper.py:28-29` says "anything that moved is a reviewer that wrote", README.md:264 that fix mode then stops). The loop's model has this: TLC shows such a
  write repaired on, gated and pushed when `ReviewerWritesStop` is asked of `tree` instead of `tree \ head`. Programs, run directories and repositories within the tree are compared
  by size and mtime, which the docstring (66-67) concedes for ignored files only. `git rev-parse` and `git config` of the second snapshot (`paths.py:67`, `tamper.py:172`) run the program
  under git's name, the first before it is compared.
- The runner does not start with neither claude nor hermes (`run_full_review.sh:643`), where the loop would use codex, agy or gemini for the slots they may take; the list of what claude is denied can fail
  in the runner only; codex's stdout is a fallback in the loop only.
- A wait cut by a signal between the kernel's reap and Popen's note makes "Each leader is still unreaped"
  (`reviewers.py:917-919`) untrue; the model keeps it as `lost_reap`.

## 5. The proofs

Every invariant and every action property that a passing run checks is proved for all values of the constants, under the assumption named with each module, which
TLC evaluates in the runs; of three properties of the loop the theorem's antecedent leaves out the documented exception (below). Liveness stays with TLC.
TLC finds no state of the runs' instances in which one of the inductive invariants fails.

### The loop

`LoopProofs` proves, for every value of the constants under `LoopAssumption`, that is for any set of slots, findings and
changes, any command lines and repositories of the kind `SetupType` describes, and any number of rounds, runs and kills:

| Theorem | Statement |
|---|---|
| `TypeCorrect` | `Spec => []TypeOK` |
| `StuckCorrect` | `Spec => []StuckIsRepeat` |
| `ReviewerWritesCorrect` | `Spec => []ReviewerWritesStop` |
| `CleanBillCorrect` | `Spec => []ConvergedIsCleanBill` |
| `ScrubbedCorrect` | `Spec => OnlyScrubbedIsSeen`, an action property |

`LoopAssumption` says that there is a slot, that the bounds are numbers, that a base that names nothing has no merge base,
and that the user's marks are not of the shape of the others'. TLC evaluates it in every run.

None of the properties is inductive. Three invariants in `LoopProperties` are, each together with `TypeOK`:

- `FindingsInv` links the fingerprint main carries to the history of findings: `previous_fp = found[round - 1]`. It needs the
  fact that a running loop has no exit code, and that inside a round the number lies in `1..max_rounds`; otherwise `found[round]`
  is not an application the type invariant knows anything of. `StuckIsRepeat` follows.
- `WritesInv` follows a reviewer's uncommitted mark (`Left`) through the round: it is of this round or of an earlier run; it is not in the snapshot
  taken before; if it is there at the decision then `touched` holds; and past the decision there is none.
  Without the third part the decision could not be shown to stop; without the first a mark of round 1 could turn up in round 2,
  where the snapshot already has it. One in HEAD is there because a reviewer committed it, and nothing is claimed of it. That an orphan writes no reviewer's mark is part of it, since orphans write at any point.
- `CleanInv` says what either exit 0 leaves behind, and that the reviewers are launched on a diff the scrubber returned 0 for.

Each has one lemma per group of actions (those up to the verdict, the decision, the repair, the ones around the rounds), one
that the first state satisfies it, and one that it suffices; `LoopInvariant` conjoins them, and the theorems cite it.

`LoopGitProofs` goes on from there:

| Theorem | Statement |
|---|---|
| `GatedCorrect` | `Spec => PushedWasGated` |
| `ReviewedCorrect` | `Spec => (setup.merge_base => PushedWasReviewed)` |
| `ReportOnlyCorrect` | `Spec => ReportOnlyChangesNothing` |
| `CoverCorrect` | `Spec => [](setup.merge_base /\ BaseStays => ConvergedCoversChange)` |
| `NamedBaseCorrect` | `Spec => [](setup.merge_base => NamedBaseIsKept)` |

The first three are action properties. The antecedents name the two places where the code does otherwise: without a merge base the diff falls back on `HEAD~1` (`diff.py:148-163`), and on the
trunk with `--auto-commit` the base moves with the run's own pushes. Without them the statements are false, as `loop_trunk` and `loop_named_base` show of the last two (section 4); so
`loop_restarts` has repositories with a merge base only.

- `GateInv`: what is about to be committed or pushed passed the gate, but for the tests' and the orphans' writes. A killed run may leave anything staged; all that is true of `staged` throughout is that the tree has it.
- `SeenInv` follows `Unpushed`, all that a push could add, from the diff to the push: it is in the diff when the diff is taken, and what joins it later is a fix, or a reviewer's of this round.
- `ReportInv`: one round and no repair. `CoverInv`, `NamedInv`: the base is what it was when the run began, and a diff is all that was collected beyond it.

`LoopRefinement` proves `StepsAreTheContracts`, `Spec => ContractSteps`: under the refinement mapping the first state is one of `LoopContract`'s and each step is one of its steps or
a stutter. It needs `FindingsInv`, since the contract's exit 2 compares the findings with those of the last verdict.

### The scrubber

`ScrubberProofs` proves, under `ScrubberAssumption`, that is for any contents, files and keys and any bound on an object's entries -- the input's length is unbounded in the specification itself:

| Theorem | Statement |
|---|---|
| `ScrubberTypes` | `Spec => []TypeOK` |
| `LeaksCorrect` | `Spec => []NothingLeaks`, the exception for a diff's crossed keys part of it |
| `StructureCorrect` | `Spec => []StructureIsKept` |
| `ReasonCorrect` | `Spec => []OnlyWithReason` |
| `EntriesCorrect` | `Spec => []NoEntryIsLost` |

The argument is one sentence per flag (`FlagsAreTrue`): `in_safe` is `exempt`, `in_secret` is `secret`, `in_hunk` says the line is in a hunk, `in_key` implies that one of the versions has
a key open, and a key that is open anywhere means that something was redacted. The converse for `in_key` holds in text and lists, and in a diff until one version's END is `crossed` with the other's open key, which is the exception
in `NothingLeaks`.
A line's lemma (`ReadsLineFlags`) then reads the property off the flags: a body line is told by `in_hunk`, since only there a line that begins like a header is content. Of an object's value, what is written as it came and what is secret have no part in common, whatever the key and the parts. `EntriesAreTrue` says that the entries written are
of keys walked, under names that differ; `NewNames` that a free name exists, because among `Cardinality + 1` candidates one is not in a set of that cardinality.

### The reviewers' round

`RoundProofs`, under `RoundAssumption`: any number of slots, signals and helpers, either way of seeing an exit, and any answers of `ps`.

| Theorem | Statement |
|---|---|
| `RoundTypes` | `Spec => []TypeOK` |
| `NothingRunsOn` | `Spec => []NothingLeftRunning` |
| `GroupsCorrect` | `Spec => []OnlyItsOwnGroups` |
| `TokenCorrect` | `Spec => []TokenIsGoneOrNamed` |
| `OutputsCorrect` | `Spec => []OutputsAreKept` |
| `ReadsCorrect` | `Spec => []ReadsWhatTheyWrote` |

The invariants in `RoundProperties`, in the order in which they rest on each other:

- `LaunchInv`: slots are launched in order, and one whose turn has not come has no process. The type invariant needs it, as the slot at hand is a slot only while one is being launched.
- `ReapInv` relates what Popen knows to what the kernel did. A reaped leader Popen does not know of is one whose wait a signal cut. `OnlyItsOwnGroups` is inductive with it.
- `SweepInv`: who runs is tracked, is the one being launched, or was left to no one by a second signal; and when the stop is over, no tracked one has a member in its group. `Dead` says both of a slot because
  nothing but a launch brings a slot back from it: a helper is started by a running leader only.
- `ScratchInv` and `OutputInv`: a directory is listed or named; outputs are nowhere, in place, or in a directory that stays and was named.

### The runner

`FullProofs`, under `RunnerAssumption`: any number of slots and signals, whichever agy may take, any of the exit statuses in any slot, in a session of its own or not.

| Theorem | Statement |
|---|---|
| `FullTypes` | `Spec => []TypeOK` |
| `NothingRunsOn` | `Spec => []NothingLeftRunning` |
| `GroupsCorrect` | `Spec => []OnlyItsOwnGroups` |
| `OutputsCorrect` | `Spec => []OutputsAreKept` |
| `ScratchCorrect` | `Spec => []NothingPrivateIsLeft` |
| `ResultsCorrect` | `Spec => []ResultsAreTheirOwn` |
| `WhyCorrect` | `Spec => []WhyIsTrue` |
| `InterruptCorrect` | `Spec => []InterruptIsForwarded` |

The invariants in `FullProperties`: `OuterInv` says what the outer shell may know of the inner one's status; `JobsInv` that a slot that was forked is recorded, about to be, or lost to a signal between
the two; `KillInv` that the groups about to be killed are those of recorded jobs, and that once killed and `Swept` none has a member. `AtFirst` is small and indispensable: each loop over the slots starts at the first.
`OutputInv`, `ScratchInv`, `ResultInv` and `WhyInv` are one per kind of file. `WhyInv` contains `WhyIsTrue` itself and is proved slot by slot (`WhyParts`), as a marker is the job's or the watchdog's.

### Routing, model, reading

`SlotsProofs`, under `RoutingAssumption`, `ModelAssumption` and for any MaxAsked:

| Theorem | Statement |
|---|---|
| `RoutersCorrect` | `Spec => []RoutersAgree` |
| `AnsweredCorrect` | `Spec => []AnsweredByWhoMay` |
| `ModelCorrect` | `Spec => []OneModelTheBest` |
| `ReadingCorrect` | `Spec => []ReadsItsOwnReview` |

Both routers are compared with one thing, the first of the loop's table that is ready (`Preferred`): the loop reaches it by striking out what is not (`PreferredOfFewer`: what is struck out after it makes no difference), the runner
because each condition of its chain is that CLI's row of the table (`TurnsOfSecond`, `TurnsOfThird`, `TurnsOfOthers`). `RouteInv` is that, half-way. For the model, `TrimmedIsTheNumber` says that two versions
that differ in trailing zeros only are one number, `NewerIsAbove` and `SameIsOne` that the rank orders slugs as their versions, tiers and efforts are ordered; versions may have any length.
`ReadInv` says of each reader which of its files it has looked at and that it took the first that holds a review.

### The tamper check

`TamperProofs`, under `TamperAssumption`: any paths of any kinds, any trees a round may begin with, chains and loops of links among them, and any number of writes.

| Theorem | Statement |
|---|---|
| `GitRunsCorrect` | `Spec => []GitRunsNothingPlanted` |
| `UnseenCorrect` | `Spec => []NothingUnseen` |
| `QuietCorrect` | `Spec => []NoFalseAlarm` |

Two lemmas carry it. `PrintTells`: a fingerprint that is the same in two trees is the loop's own output in both, or the same bytes, links followed, or where it is cheap the same size and mtime.
`SamePrint`: two trees that differ in the loop's own output only have the same fingerprints. The invariants are `Typed`; `SnapshotsInv`, each snapshot is of the tree it was taken of, which a log that
grows between the two halves of the second does not change (`GrowthIsUnseen`); and `QuietInv`, as long as no reviewer wrote the tree is the one the round began with, but for the logs and the
outputs. The rest reads the lines: what an entry of git's listing says of its path (`ListedIs`), that there is a largest choice of renames among git's candidates
(`RenamesAre`), and that the lines of a path that no line reports are in both snapshots or in neither, so that it is as it was, renamed to a name that is reported, or conceded (`UnnamedIsConceded`).

### How

Proofs of one module are one lemma per group of actions and invariant, one that the first state satisfies it, one that conjoins the groups, and the theorem, which cites the invariant's and
combines them by `PTL`. What the recursive functions compute is proved too: `Trimmed` is a choice, and `Follow`, which is recursive, is shown to be what its definition says (`FollowIs`) and to lead to a path (`EndIs`).
Induction comes from the least-number principle over sets (`LeastOf`, `AllOf`), whose facts about `Nat` need no operator as a parameter.

*Only model-checked*: liveness under fairness -- `Terminates`, both `RoundEnds`, and of `ImplementsContract` that a review that was begun ends -- which is outside what the prover handles, as is ENABLED.
The bounds of the runs on rounds, kills, signals, helpers and writes are arbitrary constants in the proofs.

## 6. Not modelled, and the plan

In the order of importance:

1. The loop composed with `ReviewerRound` instead of its two summary actions, and the proof that the two actions are what the round does.
2. A user who edits during a round of the loop.
3. A commit whose push failed and which the next run does not push (`git_ops.py:18-20`): the loop's state has it, no property of a run is about it yet.

Not planned: the agy sandbox and its probe (their meaning is the kernel's mounts and sockets), the regular expressions of the
scrubber, `claude_tools.py` (a parser without state), the preflight's facts, prompts and reports, the validator, the installer.
