-------------------------------- MODULE Reading -------------------------------
(***************************************************************************)
(* How a slot's review is taken out of what its CLI wrote, twice over: by  *)
(* the loop (results.py, extract_results) and by full mode's runner        *)
(* (run_full_review.sh's extraction, runner_cli.py _extract).  One slot,   *)
(* its files already published; a reviewer of another slot may have        *)
(* planted a result-N.json.                                                *)
(***************************************************************************)
EXTENDS Integers, FiniteSets

(* What a text is, read from its first { to its last }: no JSON object; an *)
(* object that is no review (validate_result); a review; or one nested too *)
(* deep to be written again (encode_review).                               *)
Plain == {"prose", "object", "review", "deep"}

(* Or claude's envelope around one, or agy's stream of events: how its     *)
(* last turn ended, and its schema-checked answer beside the free text.    *)
Streams ==
  [form : {"stream"}, inner : Plain, status : {"SUCCESS", "ERROR", "CANCELED", "no result"},
   structured : {"none", "object", "review", "deep"}]

NoFile == [form |-> "missing", inner |-> "prose", status |-> "none", structured |-> "none"]

Texts ==
  {NoFile} \cup Streams
    \cup [form : {"plain", "envelope"}, inner : Plain, status : {"none"}, structured : {"none"}]

VARIABLES
  backend,      \* the CLI that ran the slot, or none
  stdout,       \* what it printed
  answer,       \* codex's answer file
  named,        \* JOB_MODEL: whether the runner names the model it launched
  loop_reads, runner_reads,        \* where each is
  loop_review, runner_review,      \* what each took: none, or the file and text
  loop_result, runner_result,      \* result-N.json: absent, planted, review
  model         \* whose model the runner's result names

readVars == <<backend, stdout, answer, named, loop_reads, runner_reads, loop_review,
              runner_review, loop_result, runner_result, model>>

ReadInit ==
  /\ backend \in {"none", "hermes", "claude", "codex", "gemini", "agy"}
  /\ stdout \in Texts
  /\ answer \in IF backend = "codex" THEN Texts ELSE {NoFile}
  /\ named \in BOOLEAN
  /\ loop_reads = "clear" /\ runner_reads = "clear"
  /\ loop_review = "none" /\ runner_review = "none"
  /\ loop_result = "planted" /\ runner_result = "planted"
  /\ model = "none"

-----------------------------------------------------------------------------
(* results.py *)

(* agy_kept_after_error: a failed turn's schema-checked review, and only   *)
(* one that has a review's shape.                                          *)
KeptAfterError(text) == text.status = "ERROR" /\ text.structured \in {"review", "deep"}

(* A plausible bug: what a failed turn said is taken for its answer. *)
AgyFailureNever(text) == text.status = "no result"

(* agy_failure: only a finished turn is a review, or a kept one.           *)
AgyFailure(text) ==
  \/ text.form # "stream" \/ text.status = "no result"
  \/ text.status # "SUCCESS" /\ ~KeptAfterError(text)

(* agy_answer: the schema-checked answer, whatever it is, else the text;   *)
(* one too deep to write is "".                                            *)
AgyAnswer(text) ==
  IF AgyFailure(text) \/ text.structured = "deep" THEN "prose"
  ELSE IF text.structured # "none" THEN text.structured ELSE text.inner

(* unwrap_envelope: by the CLI that wrote it.  Another CLI's envelope is   *)
(* an object of one key, a stream's events no object.                      *)
Unwrap(text, cli) ==
  IF cli = "agy" THEN AgyAnswer(text)
  ELSE IF text.form = "envelope" /\ cli # "claude" THEN "object"
  ELSE IF text.form = "stream" THEN "prose" ELSE text.inner

(* parse_review, validate_result and encode_review: what is left of a text *)
(* is a review that can be written.                                        *)
IsReview(text, cli) == text.form # "missing" /\ Unwrap(text, cli) = "review"

-----------------------------------------------------------------------------
(* The loop: extract_results, for the slot *)

LoopClears ==
  /\ loop_reads = "clear"
  /\ \/ loop_reads' = "answer" /\ loop_result' = "absent"
     \/ loop_reads' = "done" /\ UNCHANGED loop_result   \* said, and not read
  /\ UNCHANGED <<backend, stdout, answer, named, runner_reads, loop_review,
                 runner_review, runner_result, model>>

LoopTakes(file, text) ==
  /\ IF IsReview(text, backend)
     THEN loop_review' = file /\ loop_result' = "review" /\ loop_reads' = "done"
     ELSE /\ loop_reads' = IF file = "answer" THEN "stdout" ELSE "done"
          /\ UNCHANGED <<loop_review, loop_result>>
  /\ UNCHANGED <<backend, stdout, answer, named, runner_reads, runner_review,
                 runner_result, model>>

(* codex's answer file first, its stdout when that holds no review.        *)
LoopReads ==
  \/ loop_reads = "answer" /\ backend = "codex" /\ LoopTakes("answer", answer)
  \/ /\ loop_reads = "stdout" \/ (loop_reads = "answer" /\ backend \notin {"codex", "none"})
     /\ LoopTakes("stdout", stdout)
  \/ /\ loop_reads = "answer" /\ backend = "none" /\ loop_reads' = "done"
     /\ UNCHANGED <<backend, stdout, answer, named, runner_reads, loop_review,
                    runner_review, loop_result, runner_result, model>>

-----------------------------------------------------------------------------
(* The runner *)

(* One that cannot be removed ends the round: it would pass for a review.  *)
RunnerClears ==
  /\ runner_reads = "clear"
  /\ \/ runner_reads' = "answer" /\ runner_result' = "absent"
     \/ runner_reads' = "stopped" /\ UNCHANGED runner_result
  /\ UNCHANGED <<backend, stdout, answer, named, loop_reads, loop_review,
                 runner_review, loop_result, model>>

(* JOB_OUT: the one file the slot's CLI writes its answer to.              *)
JobOut == IF backend = "codex" THEN answer ELSE stdout

(* A result, or a placeholder that says there is none.                     *)
RunnerReads ==
  /\ runner_reads = "answer" /\ runner_reads' = "done"
  /\ IF backend # "none" /\ IsReview(JobOut, backend)
     THEN /\ runner_review' = (IF backend = "codex" THEN "answer" ELSE "stdout")
          /\ runner_result' = "review"
          /\ model' = (IF named THEN "launched" ELSE "reported")
     ELSE runner_result' = "placeholder" /\ UNCHANGED <<runner_review, model>>
  /\ UNCHANGED <<backend, stdout, answer, named, loop_reads, loop_review, loop_result>>

ReadNext == LoopClears \/ LoopReads \/ RunnerClears \/ RunnerReads

-----------------------------------------------------------------------------
(* What is a review, said of the CLI that wrote it and not of how it is    *)
(* unwrapped.                                                              *)
Wrote(text, cli) ==
  \/ /\ cli # "agy" /\ text.inner = "review"
     /\ text.form = "plain" \/ (text.form = "envelope" /\ cli = "claude")
  \/ /\ cli = "agy" /\ text.form = "stream"
     /\ \/ text.structured = "review" /\ text.status \in {"SUCCESS", "ERROR"}
        \/ text.structured = "none" /\ text.status = "SUCCESS" /\ text.inner = "review"

(* A slot's result is its own CLI's whole review, in the form that CLI has *)
(* and from the file it writes: never a turn that failed, another CLI's    *)
(* form, a planted file, or anything of a slot that did not run.  A slot   *)
(* without one has no result file, or the runner's word for it.  And both  *)
(* modes take the same, but for codex's stdout, which only the loop reads  *)
(* and only after its answer.                                              *)
ReadsItsOwnReview ==
  /\ loop_review = "answer" => Wrote(answer, backend)
  /\ loop_review = "stdout" => /\ Wrote(stdout, backend)
                               /\ backend = "codex" => ~Wrote(answer, backend)
  /\ loop_reads \notin {"clear", "done"} => loop_result # "planted"
  /\ loop_result = "review" <=> loop_review # "none"
  /\ runner_reads = "done" => runner_result \in {"review", "placeholder"}
  /\ runner_result = "review" => Wrote(JobOut, backend)
  /\ loop_reads = "done" /\ runner_reads = "done" /\ loop_result # "planted" =>
       (loop_review = runner_review
          \/ (backend = "codex" /\ loop_review = "stdout" /\ runner_review = "none"))

-----------------------------------------------------------------------------
(* What it rests on: the inductive invariant of its proof (SlotsProofs).   *)

Backends == {"none", "hermes", "claude", "codex", "gemini", "agy"}

(* Each reader has taken the first of its files that holds a review, and   *)
(* none while it still has one to look at.                                 *)
LoopReadInv ==
  /\ loop_reads \in {"clear", "answer", "stdout", "done"}
  /\ loop_review \in {"none", "answer", "stdout"}
  /\ loop_reads = "clear" => loop_result = "planted"
  /\ loop_reads \in {"answer", "stdout"} => loop_result = "absent"
  /\ loop_reads = "stdout" => backend = "codex" /\ ~IsReview(answer, backend)
  /\ loop_review # "none" => loop_reads = "done" /\ backend # "none"
  /\ loop_review = "answer" => backend = "codex" /\ IsReview(answer, backend)
  /\ loop_review = "stdout" => /\ IsReview(stdout, backend)
                               /\ backend = "codex" => ~IsReview(answer, backend)
  /\ loop_result = "review" <=> loop_review # "none"
  /\ loop_reads = "done" /\ loop_result = "absent" =>
       \/ backend = "none"
       \/ ~IsReview(stdout, backend) /\ (backend = "codex" => ~IsReview(answer, backend))
  /\ loop_result \in {"planted", "absent", "review"}

RunnerReadInv ==
  /\ runner_reads \in {"clear", "answer", "stopped", "done"}
  /\ runner_reads \in {"clear", "stopped"} => runner_result = "planted"
  /\ runner_reads = "answer" => runner_result = "absent"
  /\ runner_reads # "done" => runner_review = "none"
  /\ runner_reads = "done" =>
       IF backend # "none" /\ IsReview(JobOut, backend)
       THEN /\ runner_result = "review"
            /\ runner_review = IF backend = "codex" THEN "answer" ELSE "stdout"
       ELSE runner_result = "placeholder" /\ runner_review = "none"

ReadInv ==
  /\ backend \in Backends /\ stdout \in Texts /\ answer \in Texts
  /\ LoopReadInv /\ RunnerReadInv
=============================================================================
