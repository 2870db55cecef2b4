----------------------------- MODULE SerialConsole -----------------------------
(***************************************************************************)
(* What the console session controller promises its callers (section 4.4  *)
(* of the design): every console request is answered, either with a       *)
(* session or with "console unavailable"; a session is handed out only    *)
(* while the backend reports the node's console enabled.  The backend may *)
(* change the console mode at any time.                                    *)
(***************************************************************************)
CONSTANTS Requests   \* the callers asking for a console of one node

VARIABLES
  on,       \* console_enabled as the backend reports it
  status    \* status[r]: "idle", "busy", "session" or "unavailable"

avars == <<on, status>>

Answered == {"session", "unavailable"}

AInit ==
  /\ on \in BOOLEAN
  /\ status = [r \in Requests |-> "idle"]

\* get_serial_console is called.
ARequest(r) ==
  /\ status[r] \in {"idle"} \cup Answered
  /\ status' = [status EXCEPT ![r] = "busy"]
  /\ UNCHANGED on

\* The request returns a session: only while the console is enabled.
ASession(r) ==
  /\ status[r] = "busy" /\ on
  /\ status' = [status EXCEPT ![r] = "session"]
  /\ UNCHANGED on

\* The request raises ConsoleNotAvailable.
AUnavailable(r) ==
  /\ status[r] = "busy"
  /\ status' = [status EXCEPT ![r] = "unavailable"]
  /\ UNCHANGED on

\* The backend enables or disables the console.
ABackend ==
  /\ on' = ~on
  /\ UNCHANGED status

ANext ==
  \/ \E r \in Requests : ARequest(r) \/ ASession(r) \/ AUnavailable(r)
  \/ ABackend

\* A request in progress is eventually answered, whatever the backend does.
ASpec ==
  /\ AInit /\ [][ANext]_avars
  /\ \A r \in Requests : WF_avars(ASession(r) \/ AUnavailable(r))

=============================================================================
