------------------------------ MODULE ConsoleReset ------------------------------
(***************************************************************************)
(* IronicDriver._get_node_console_with_reset, the serial console session  *)
(* controller, against an ironic conductor that applies console mode      *)
(* changes asynchronously.                                                 *)
(*                                                                         *)
(* A request reads the console (_get_console); a console found disabled   *)
(* is refused.  A console found enabled is reset: it is disabled, then    *)
(* enabled, each stage a set_console_mode call followed by _wait_state    *)
(* polls under a BackOffLoopingCall that gives up with a timeout.  A      *)
(* failed disable stage is not fatal, the enable stage follows it; a      *)
(* failed enable stage raises ConsoleNotAvailable.  While a mode change  *)
(* is in progress the conductor holds the node lock: another change is    *)
(* accepted only once it is released, or fails once the client's 409     *)
(* retries are used up.  Several callers may ask for the console of the   *)
(* node at once.                                                           *)
(***************************************************************************)
EXTENDS Naturals

CONSTANTS
  Requests,   \* the callers of get_serial_console
  MaxPolls,   \* polls after which the back-off loop has surely timed out
  NoValue     \* None

ASSUME MaxPolls >= 1

VARIABLES
  enabled,    \* console_enabled of the node, as the conductor reports it
  target,     \* the mode change the conductor is applying, or NoValue
  pc,         \* pc[r]: "idle", "read", "set", "wait" or "answered"
  mode,       \* mode[r]: the mode the current stage sets (FALSE: disable)
  polls,      \* polls[r]: unsuccessful polls of the current stage
  ans         \* ans[r]: "session", "unavailable" or NoValue

vars == <<enabled, target, pc, mode, polls, ans>>

Init ==
  /\ enabled \in BOOLEAN
  /\ target = NoValue
  /\ pc = [r \in Requests |-> "idle"]
  /\ mode = [r \in Requests |-> FALSE]
  /\ polls = [r \in Requests |-> 0]
  /\ ans = [r \in Requests |-> NoValue]

Answer(r, a) ==
  /\ pc' = [pc EXCEPT ![r] = "answered"]
  /\ ans' = [ans EXCEPT ![r] = a]
  /\ UNCHANGED <<mode, polls>>

\* get_serial_console calls _get_node_console_with_reset.
Request(r) ==
  /\ pc[r] \in {"idle", "answered"}
  /\ pc' = [pc EXCEPT ![r] = "read"]
  /\ ans' = [ans EXCEPT ![r] = NoValue]
  /\ UNCHANGED <<enabled, target, mode, polls>>

\* console = _get_console(): an SDKException, or a disabled console, is
\* ConsoleNotAvailable; an enabled one is reset, starting with disable.
Read(r) ==
  /\ pc[r] = "read"
  /\ \/ Answer(r, "unavailable")
     \/ ~enabled /\ Answer(r, "unavailable")
     \/ /\ enabled
        /\ pc' = [pc EXCEPT ![r] = "set"]
        /\ mode' = [mode EXCEPT ![r] = FALSE]
        /\ UNCHANGED <<polls, ans>>
  /\ UNCHANGED <<enabled, target>>

\* A stage that raised ConsoleNotAvailable: after disable, enable anyway;
\* after enable, the request fails.
StageFailed(r) ==
  IF ~mode[r]
  THEN /\ pc' = [pc EXCEPT ![r] = "set"]
       /\ mode' = [mode EXCEPT ![r] = TRUE]
       /\ UNCHANGED <<polls, ans>>
  ELSE Answer(r, "unavailable")

\* LoopingCallDone(retvalue=console): after disable, enable; after enable,
\* "if console['console_enabled']" returns the console_info.
StageDone(r) ==
  IF ~mode[r]
  THEN /\ pc' = [pc EXCEPT ![r] = "set"]
       /\ mode' = [mode EXCEPT ![r] = TRUE]
       /\ UNCHANGED <<polls, ans>>
  ELSE Answer(r, "session")

\* _enable_console(mode): enable_node_console or disable_node_console is
\* accepted once the node lock is free; an SDKException (a 409 whose
\* retries ran out among them) fails the stage.
SetMode(r) ==
  /\ pc[r] = "set"
  /\ \/ /\ target = NoValue
        /\ target' = mode[r]
        /\ pc' = [pc EXCEPT ![r] = "wait"]
        /\ polls' = [polls EXCEPT ![r] = 0]
        /\ UNCHANGED <<mode, ans>>
     \/ StageFailed(r) /\ UNCHANGED target
  /\ UNCHANGED enabled

\* Faulty variant: the loop polls on past its timeout.
PollUnbounded(r) ==
  /\ pc[r] = "wait"
  /\ \/ StageFailed(r)
     \/ enabled = mode[r] /\ StageDone(r)
     \/ /\ enabled # mode[r]
        /\ polls' = [polls EXCEPT ![r] = @ + 1]
        /\ UNCHANGED <<pc, mode, ans>>
  /\ UNCHANGED <<enabled, target>>

\* _wait_state(state): an SDKException of _get_console fails the stage; the
\* console in the mode ends it; otherwise the loop backs off and polls again.
Poll(r) ==
  /\ pc[r] = "wait" /\ polls[r] < MaxPolls
  /\ \/ StageFailed(r)
     \/ enabled = mode[r] /\ StageDone(r)
     \/ /\ enabled # mode[r]
        /\ polls' = [polls EXCEPT ![r] = @ + 1]
        /\ UNCHANGED <<pc, mode, ans>>
  /\ UNCHANGED <<enabled, target>>

\* Faulty variant: LoopingCallTimeOut taken as the end of the wait.
TimeoutAsDone(r) ==
  /\ pc[r] = "wait" /\ polls[r] >= 1
  /\ StageDone(r)
  /\ UNCHANGED <<enabled, target>>

\* LoopingCallTimeOut after an unsuccessful poll: ConsoleNotAvailable.
Timeout(r) ==
  /\ pc[r] = "wait" /\ polls[r] >= 1
  /\ StageFailed(r)
  /\ UNCHANGED <<enabled, target>>

\* The conductor finishes the mode change and releases the lock, or fails
\* it and leaves the console as it was.
Apply ==
  /\ target # NoValue
  /\ enabled' \in {target, enabled}
  /\ target' = NoValue
  /\ UNCHANGED <<pc, mode, polls, ans>>

Step(r) == Read(r) \/ SetMode(r) \/ Poll(r) \/ Timeout(r)

Next ==
  \/ \E r \in Requests : Request(r) \/ Step(r)
  \/ Apply

\* Each request runs in its own green thread, which the hub schedules again
\* after every back-off sleep; the conductor is given no fairness at all.
Spec == Init /\ [][Next]_vars /\ \A r \in Requests : WF_vars(Step(r))

-----------------------------------------------------------------------------
(* Properties *)

TypeOK ==
  /\ enabled \in BOOLEAN
  /\ target \in BOOLEAN \cup {NoValue}
  /\ \A r \in Requests :
       /\ pc[r] \in {"idle", "read", "set", "wait", "answered"}
       /\ polls[r] \in 0..MaxPolls
       /\ ans[r] \in {"session", "unavailable", NoValue}
       /\ (pc[r] = "answered") = (ans[r] # NoValue)

\* The state of a request as its caller sees it.
Status(r) ==
  CASE pc[r] = "idle"     -> "idle"
    [] pc[r] = "answered" -> ans[r]
    [] OTHER              -> "busy"

Abs == INSTANCE SerialConsole WITH
         on <- enabled,
         status <- [r \in Requests |-> Status(r)]

(* The controller implements the console contract: a session is handed  *)
(* out only while the conductor reports the console enabled, and every    *)
(* request is answered even if the conductor never finishes, or finishes *)
(* a mode change only after the poll loop timed out.                      *)
ConsoleContract == Abs!ASpec

=============================================================================
