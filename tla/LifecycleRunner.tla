---------------------------- MODULE LifecycleRunner ----------------------------
(***************************************************************************)
(* Pipelines of labelled steps (lifecycle/src/runner.rs, builder.rs,       *)
(* state.rs).  A run goes through the steps in order, waits at every       *)
(* callback and hook, and hands out its state when it pauses, succeeds, or *)
(* fails with a catch step.  Such a state is a value that can be cloned:   *)
(* callers resume it any number of times, later or at the same time.       *)
(***************************************************************************)
EXTENDS Options, VaultSigner, SequencesExt

CONSTANTS
  Task,         \* callers of process and resume
  Pipelines,    \* what LifecycleBuilder may have been told to build
  RunSigner,     \* per task: the signer in its options
  MaxRuns       \* bound: calls of process and resume

Step == [label : STRING,
         kind : {"Callback", "SignWithSigner", "AttachSignature", "Pause"}]

(* ensure_unique_label.                                                    *)
UniqueLabels(steps) ==
  \A i, j \in DOMAIN steps : steps[i].label = steps[j].label => i = j

ASSUME PipelineAssumption ==
  /\ \A p \in Pipelines : /\ p.steps \in Seq(Step)
                          /\ UniqueLabels(p.steps)
                          /\ p.catch \in BOOLEAN
  /\ RunSigner \in [Task -> Signer \cup {Nil}]
  /\ MaxRuns \in Nat

VARIABLES
  pipeline,     \* the builder, with or without a catch step
  run,          \* per task: its call of process_from
  runs,         \* how many calls there were: each brings its own signature
  kept          \* the states that were handed out, and their clones

runVars == <<pipeline, run, runs, kept>>

Steps == pipeline.steps
GetIndexByLabel(l) == CHOOSE i \in DOMAIN Steps : Steps[i].label = l

(* A message is known by what was done to it: the steps it went through,   *)
(* and the signature that each put on it, with the signer that made it.    *)
(* at: the step under way, or whose hooks run.  signature:                 *)
(* options.signature.                                                      *)
Rested == [phase |-> "rest", at |-> 1, message |-> <<>>, signature |-> Nil]

RunInit ==
  /\ pipeline \in Pipelines
  /\ run = [c \in Task |-> Rested]
  /\ runs = 0
  /\ kept = {}

(* One more call, with a signature in its options or without one.          *)
Called(c, phase, at, message) ==
  /\ run[c].phase = "rest"
  /\ runs < MaxRuns
  /\ runs' = runs + 1
  /\ \E s \in {Nil, -runs'} :
       run' = [run EXCEPT ![c] = [phase |-> phase, at |-> at, message |-> message,
                                  signature |-> s]]
  /\ UNCHANGED <<pipeline, kept, vaultVars>>

Process(c) == Called(c, "step", 1, <<>>)

(* Any other state is refused.  The pause's hooks come before its next step*)
Resume(c) ==
  \E s \in kept :
    /\ s.status = "pause"
    /\ Called(c, "hooks", GetIndexByLabel(s.label), s.message)

Goes(c, phase, message, signature) ==
  /\ run' = [run EXCEPT ![c].phase = phase, ![c].message = message,
                        ![c].signature = signature]
  /\ UNCHANGED <<pipeline, runs, kept, vaultVars>>

At(c, kind) ==
  /\ run[c].phase = "step"
  /\ run[c].at \in DOMAIN Steps
  /\ Steps[run[c].at].kind = kind

With(c, signer, signature) ==
  Append(run[c].message, [label |-> Steps[run[c].at].label,
                          signer |-> signer, signature |-> signature])

CallbackStep(c) ==
  /\ At(c, "Callback")
  /\ Goes(c, "hooks", With(c, Nil, Nil), run[c].signature)

SignWithSigner(c) ==
  /\ At(c, "SignWithSigner")
  /\ RunSigner[c] # Nil /\ announced[RunSigner[c]] # 0
  /\ \E v \in Signatures(RunSigner[c]) \ {Unsigned} :
       Goes(c, "hooks", With(c, RunSigner[c], v), run[c].signature)

(* Fault: the signature stays in the options.                              *)
AttachCopy(c) ==
  /\ At(c, "AttachSignature")
  /\ run[c].signature # Nil
  /\ Goes(c, "hooks", With(c, Nil, run[c].signature), run[c].signature)

AttachSignature(c) ==
  /\ At(c, "AttachSignature")
  /\ run[c].signature # Nil
  /\ Goes(c, "hooks", With(c, Nil, run[c].signature), Nil)

(* A callback, a signer or set_signature fails, or what the step needs is  *)
(* not there.                                                              *)
StepFails(c) ==
  /\ run[c].phase = "step"
  /\ run[c].at \in DOMAIN Steps /\ Steps[run[c].at].kind # "Pause"
  /\ run' = [run EXCEPT ![c] = IF pipeline.catch THEN [@ EXCEPT !.phase = "catch"]
                               ELSE Rested]
  /\ UNCHANGED <<pipeline, runs, kept, vaultVars>>

HooksPass(c) ==
  /\ run[c].phase = "hooks"
  /\ run' = [run EXCEPT ![c].phase = "step", ![c].at = @ + 1]
  /\ UNCHANGED <<pipeline, runs, kept, vaultVars>>

(* The catch step does not see the errors of a pause's hooks.              *)
HooksFail(c) ==
  /\ run[c].phase = "hooks"
  /\ run' = [run EXCEPT ![c] =
       IF pipeline.catch /\ Steps[@.at].kind # "Pause"
       THEN [@ EXCEPT !.phase = "catch"] ELSE Rested]
  /\ UNCHANGED <<pipeline, runs, kept, vaultVars>>

(* A RunnerState.                                                          *)
HandsOut(c, status, label) ==
  /\ kept' = kept \cup {[status |-> status, label |-> label, message |-> run[c].message]}
  /\ run' = [run EXCEPT ![c] = Rested]
  /\ UNCHANGED <<pipeline, runs, vaultVars>>

Pauses(c) == At(c, "Pause") /\ HandsOut(c, "pause", Steps[run[c].at].label)

Succeeds(c) ==
  /\ run[c].phase = "step"
  /\ run[c].at \notin DOMAIN Steps
  /\ HandsOut(c, "success", "")

CatchPasses(c) == run[c].phase = "catch" /\ HandsOut(c, "error", "")

CatchFails(c) ==
  /\ run[c].phase = "catch"
  /\ run' = [run EXCEPT ![c] = Rested]
  /\ UNCHANGED <<pipeline, runs, kept, vaultVars>>

RunStep(c) ==
  \/ CallbackStep(c)
  \/ SignWithSigner(c)
  \/ AttachSignature(c)
  \/ StepFails(c)
  \/ HooksPass(c)
  \/ HooksFail(c)
  \/ Pauses(c)
  \/ Succeeds(c)
  \/ CatchPasses(c)
  \/ CatchFails(c)

RunNext == \E c \in Task : Process(c) \/ Resume(c) \/ RunStep(c)

RunSpec ==
  /\ RunInit /\ VaultInit
  /\ [][RunNext \/ (VaultNext /\ UNCHANGED runVars)]_<<runVars, vaultVars>>

-----------------------------------------------------------------------------
RunTypeOK ==
  /\ pipeline \in Pipelines
  /\ \A c \in Task :
       /\ run[c].phase \in {"rest", "step", "hooks", "catch"}
       /\ run[c].at \in 1 .. Len(Steps) + 1
       /\ run[c].phase = "hooks" => run[c].at \in DOMAIN Steps
       /\ run[c].signature \in {Nil} \cup {-n : n \in 1 .. runs}
  /\ \A s \in kept :
       /\ s.status \in {"pause", "success", "error"}
       /\ s.status = "pause" => \E i \in DOMAIN Steps : Steps[i].label = s.label

(* The labels of the steps before the i-th that leave a trace.             *)
Before(steps, i) ==
  LET labels[n \in 1 .. Len(steps) + 1] ==
        IF n = 1 THEN <<>>
        ELSE IF steps[n - 1].kind = "Pause" THEN labels[n - 1]
        ELSE Append(labels[n - 1], steps[n - 1].label)
  IN labels[i]
Labels(message) == [j \in DOMAIN message |-> message[j].label]

(* However often states are cloned and resumed, and whatever failed in     *)
(* other calls: a state that says success went through every step of the   *)
(* pipeline once and in order, a paused one through those before its pause,*)
(* one that says error through the first few; and no signature that a      *)
(* caller provided is on a message twice (runner.rs 82-105, 141).          *)
RunsAreWhole ==
  \A s \in kept :
    /\ CASE s.status = "success" -> Labels(s.message) = Before(Steps, Len(Steps) + 1)
         [] s.status = "pause" -> Labels(s.message) = Before(Steps, GetIndexByLabel(s.label))
         [] s.status = "error" -> IsPrefix(Labels(s.message), Before(Steps, Len(Steps) + 1))
    /\ \A i, j \in DOMAIN s.message :
         /\ s.message[i].signature \notin {Nil} /\ s.message[i].signer = Nil
         /\ s.message[j].signer = Nil
         /\ s.message[i].signature = s.message[j].signature
         => i = j

(* A signature verifies under the public key that its signer announces,    *)
(* unless the key was rotated in Vault after the signer was made, also when*)
(* a rotation came while it was being made (vault.rs 13-28, vault_api.rs   *)
(* 83-136).                                                                *)
SignedAsAnnounced ==
  \A m \in {run[c].message : c \in Task} \cup {s.message : s \in kept} :
    \A i \in DOMAIN m :
      m[i].signer \notin outdated \cup {Nil} => m[i].signature = announced[m[i].signer]
================================================================================
