---------------------------- MODULE EngineValidation ----------------------------
(***************************************************************************)
(* One headless run of the Godot engine and what it is taken for           *)
(* (engine/runner.py, engine/normalize.py), and the stages of a validation *)
(* (engine/validate.py).                                                   *)
(*                                                                         *)
(* What a run leaves behind is abstracted to the facts its classification  *)
(* is made of: the exit code, and of the output whether it tells of a      *)
(* crash and which classes of message it holds.  "fatal" is an error line, *)
(* or a fatal pattern anywhere; "unknown" a line of unknown standing;      *)
(* "noise" a shutdown message the engine version is known for, and "early  *)
(* noise" the same text before the engine has booted.                      *)
(*                                                                         *)
(* The runner keeps the first 1 MiB of each stream: kept are the classes   *)
(* of what it keeps, cut those of what it cuts off.  It notes that it did  *)
(* (stdout_truncated, stderr_truncated), but nothing reads the note.       *)
(*                                                                         *)
(* A definition marked "Slip" is not part of the model: it is a plausible  *)
(* mistake in the definition that follows it, kept to show that the        *)
(* properties of CreatorProject notice it.                                 *)
(***************************************************************************)
EXTENDS Sequences, FiniteSets

Noise == {"noise", "early noise"}
Message == {"crash", "fatal", "unknown"} \cup Noise

EngineRun ==
  [timedOut: BOOLEAN, launched: BOOLEAN, exitZero: BOOLEAN, kept: SUBSET Message, cut: SUBSET Message]

(* Slip: a process that exits with zero is taken at its word.              *)
TrustingStatus(r) ==
  IF r.timedOut \/ ~r.launched \/ ~r.exitZero THEN "fail"
  ELSE IF r.kept \cap Noise # {} THEN "warn"
  ELSE "ok"

(* normalize_process, which is given what was kept: the first that         *)
(* applies.  Where in the output a message of known noise stands, and in   *)
(* which stage, is not looked at.                                          *)
StageStatus(r) ==
  IF r.timedOut \/ ~r.launched THEN "fail"
  ELSE IF "crash" \in r.kept THEN "fail"
  ELSE IF ~r.exitZero \/ "fatal" \in r.kept THEN "fail"
  ELSE IF "unknown" \in r.kept THEN "inconclusive"
  ELSE IF r.kept \cap Noise # {} THEN "warn"
  ELSE "ok"

StagesOf(mode) == IF mode = "full" THEN <<"import", "load", "boot">> ELSE <<mode>>

(* The overall status once a stage has ended with the status.              *)
Overall(status) == IF status \in {"fail", "inconclusive"} THEN "fail" ELSE "ok"
================================================================================
