----------------------------- MODULE FocusTimer -----------------------------
(***************************************************************************)
(* PomodoroController of focus.dart and the store it records into          *)
(* (StudyStore).  The controller's state is that of the store's module     *)
(* plus its own; its save of a focus stage is one of the store's calls.    *)
(* Remaining time is abstracted to whether it has run out, and the         *)
(* generation of a stage to whether a save still belongs to it.            *)
(***************************************************************************)
EXTENDS StudyStore, FiniteSets

CONSTANTS
  Breaks,         \* config.breakDuration > 0
  MaxPomodoros    \* bound on the focus sessions a day record counts

VARIABLES
  status,     \* PomodoroState.status
  previous,   \* PomodoroState.previousStatus, None for null
  expired,    \* no time remains of the stage
  armed,      \* _ticker and _completionTimer are set
  saver,      \* the save _completeStage awaits for the stage of the moment
  saves       \* history: how often the focus stage has been recorded

timerVars == <<status, previous, expired, armed, saver, saves>>
vars == <<storeVars, timerVars>>

Active == {"focusing", "breaking"}
Statuses == Active \cup {"idle", "paused", "finished"}

ASSUME TimerAssumption == None \notin Active

Init ==
  /\ StoreInit
  /\ status = "idle"
  /\ previous = None
  /\ expired = FALSE
  /\ armed = FALSE
  /\ saver = None
  /\ saves = 0

-----------------------------------------------------------------------------
(***************************************************************************)
(* Stages.  Leaving a stage (_cancelStage) stops the timers and advances   *)
(* the generation: an answer of its save is ignored from then on.          *)
(***************************************************************************)
\* Fault: the generation does not advance.
CancelKeepsGeneration ==
  /\ armed' = FALSE
  /\ UNCHANGED saver

CancelStage ==
  /\ armed' = FALSE
  /\ saver' = None

BeginStage(stage) ==
  /\ status' = stage
  /\ previous' = None
  /\ expired' = FALSE
  /\ armed' = TRUE
  /\ saver' = None

ResetToIdle ==
  /\ CancelStage
  /\ status' = "idle"
  /\ previous' = None
  /\ expired' = FALSE

AfterFocus ==
  IF Breaks THEN BeginStage("breaking") ELSE ResetToIdle

SkipStage(stage) ==
  IF stage = "focusing" THEN AfterFocus ELSE ResetToIdle

(***************************************************************************)
(* The commands of the host.                                               *)
(***************************************************************************)

\* The bound: on any day one more focus session can be counted, whatever the
\* operations under way and the backups write.
RoomForOneMore ==
  \A d \in Day : \A n \in Count \cup {Counted(cache[RecordKey(d)])} :
    n + Cardinality({c \in Call : call[c].op = "addFocusSession"}) < MaxPomodoros

Start ==
  /\ RoomForOneMore
  /\ status \in {"idle", "finished"}
  /\ BeginStage("focusing")
  /\ saves' = 0

Pause ==
  /\ status \in Active
  /\ CancelStage
  /\ status' = "paused"
  /\ previous' = status
  /\ UNCHANGED <<expired, saves>>

\* Fault: resume starts the stage again although no time remains of it.
ResumeAnyway ==
  /\ status = "paused"
  /\ BeginStage(previous)
  /\ UNCHANGED saves

Resume ==
  /\ status = "paused"
  /\ IF expired THEN SkipStage(previous) ELSE BeginStage(previous)
  /\ UNCHANGED saves

Skip ==
  /\ \/ status \in Active /\ SkipStage(status)
     \/ status = "paused" /\ SkipStage(previous)
  /\ UNCHANGED saves

EndStages ==
  /\ status \notin {"idle", "finished"}
  /\ CancelStage
  /\ status' = "finished"
  /\ previous' = None
  /\ expired' = TRUE
  /\ UNCHANGED saves

\* Refused while a stage is active; the new durations are left out.
SetConfig ==
  /\ status \in {"idle", "finished"}
  /\ ResetToIdle
  /\ UNCHANGED saves

\* dispose, and the next controller on the store (_setStore of focus_ui.dart).
Reopen ==
  /\ status # "idle"
  /\ status' = "idle" /\ previous' = None /\ expired' = FALSE
  /\ CancelStage
  /\ saves' = 0

Command ==
  /\ Start \/ Pause \/ Resume \/ Skip \/ EndStages \/ SetConfig \/ Reopen
  /\ UNCHANGED storeVars

-----------------------------------------------------------------------------
(***************************************************************************)
(* Time.                                                                   *)
(***************************************************************************)

\* The stage's time runs out; its timers are due but have not run yet.
Elapse ==
  /\ armed /\ ~expired
  /\ expired' = TRUE
  /\ UNCHANGED <<storeVars, status, previous, armed, saver, saves>>

\* _completeStage of a focus stage, by the ticker or the completion timer; the
\* day is that of the moment.
CompleteFocus(c, d) ==
  /\ status = "focusing" /\ armed /\ expired
  /\ AddFocusSession(c, d)
  /\ armed' = FALSE
  /\ saver' = c
  /\ saves' = saves + 1
  /\ UNCHANGED <<status, previous, expired>>

CompleteBreak ==
  /\ status = "breaking" /\ armed /\ expired
  /\ ResetToIdle
  /\ UNCHANGED <<storeVars, saves>>

\* The answer of the store to operation c: the stage goes on if it still is
\* the one that was saved.
Answered(c) ==
  /\ Saved(c)
  /\ IF c = saver THEN AfterFocus
                  ELSE UNCHANGED <<status, previous, expired, armed, saver>>
  /\ UNCHANGED saves

SaveFailed(c) ==
  /\ MutationFails(c)
  /\ IF c = saver
       THEN /\ status' = "finished" /\ previous' = None /\ expired' = TRUE
            /\ saver' = None
            /\ UNCHANGED armed
       ELSE UNCHANGED <<status, previous, expired, armed, saver>>
  /\ UNCHANGED saves

Store(c) ==
  /\ Submit(c) \/ Proceed(c)
  /\ UNCHANGED timerVars

Kill ==
  /\ Crash
  /\ status' = "idle" /\ previous' = None /\ expired' = FALSE
  /\ CancelStage
  /\ saves' = 0

Next ==
  \/ Command
  \/ Elapse
  \/ CompleteBreak
  \/ \E c \in Call, d \in Day : CompleteFocus(c, d)
  \/ \E c \in Call : Answered(c) \/ SaveFailed(c) \/ Store(c)
  \/ Kill

Spec == Init /\ [][Next]_vars
\* The host drives the controller and the store as it likes and may stop.
\* Time passes, timers fire, and the platform answers each write; a timer
\* that is due needs no free slot in Call, so no use of the slots by the host
\* can keep it from firing (hence SF).
Fairness ==
  /\ WF_vars(Elapse)
  /\ SF_vars(\E c \in Call, d \in Day : CompleteFocus(c, d))
  /\ WF_vars(CompleteBreak)
  /\ \A c \in Call : WF_vars(Answered(c) \/ SaveFailed(c)
                             \/ (Proceed(c) /\ UNCHANGED timerVars))

FairSpec == Spec /\ Fairness

-----------------------------------------------------------------------------
(***************************************************************************)
(* Properties.                                                             *)
(***************************************************************************)
TypeOK ==
  /\ StoreTypeOK
  /\ status \in Statuses
  /\ previous \in Active \cup {None}
  /\ (previous # None) <=> (status = "paused")
  /\ expired \in BOOLEAN /\ armed \in BOOLEAN
  /\ saver \in Call \cup {None}
  /\ saves \in Nat

\* A focus stage is recorded at most once, although it can be paused and
\* resumed while the store is still saving it.
FocusSavedOnce == saves <= 1

\* A running stage always has what ends it: its timers, or a save that is
\* under way and whose answer it waits for.
StageHasAnEnd ==
  status \in Active =>
    \/ armed
    \/ /\ saver \in Call
       /\ call[saver].op = "addFocusSession"

\* A break begins from a focus stage or from a pause only: the answer of a
\* save that comes after the stage was ended, skipped or started anew does
\* not bring the timer back.
BreakFollowsFocus ==
  [][status # "breaking" /\ status' = "breaking"
       => status \in {"focusing", "paused"} /\ (status = "focusing" => expired \/ saver = None)]_vars

\* A focus stage that nobody touches ends: neither the queue of the store
\* nor its failures can hold the timer.
FocusEnds == (status = "focusing") ~> (status # "focusing")
=============================================================================
