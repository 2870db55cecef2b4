----------------------------- MODULE Notifications -----------------------------
(***************************************************************************)
(* The versioned_notifications sphinx directive of doc/ext: it walks the  *)
(* object registry for notification classes, collects the sample files    *)
(* they name into one table keyed by file name, refusing a file named     *)
(* twice, and writes one table row per sample: event type, notification  *)
(* class, payload class and the sample file's JSON.                       *)
(*                                                                         *)
(* The registry is a sequence of entries in registration order (the      *)
(* order of NovaObjectRegistry.obj_classes()), each the newest version    *)
(* of a class: its name, whether it is a proper subclass of              *)
(* NotificationBase, the name of its payload field's object and its      *)
(* samples.  Class names are numbers ordered as the strings are; sample  *)
(* file names are sequences of character codes.                          *)
(***************************************************************************)
EXTENDS Naturals, Sequences, SequencesExt

CONSTANTS
  Names,        \* names of the registered classes
  PayloadNames, \* names a payload field may refer to (registered or not)
  SampleFiles,  \* sample file names the classes may declare
  Existing,     \* the files present in doc/notification_samples
  Malformed,    \* present files that, or a file their "$ref"s name, are not JSON
  RegistrySize, \* number of registered classes
  MaxSamples,   \* samples a class declares at most
  NoValue       \* None

Entries == [name : Names, notif : BOOLEAN, payload : PayloadNames,
            samples : BoundedSeq(SampleFiles, MaxSamples)]

VARIABLES
  ovos,           \* the registry
  i, j,           \* the class and the sample being looked at (j = 0: not entered)
  payload,        \* payload_cls.__name__ of the class being looked at
  notifications,  \* sample -> <<class name, payload class name, sample>>
  rows,           \* the table rows written so far
  todo,           \* the sorted notifications still to be written
  phase,          \* "collect", "markup" or "done"
  error           \* the exception the directive raised, or NoValue

vars == <<ovos, i, j, payload, notifications, rows, todo, phase, error>>

Dot == 46
Hyphen == 45
\* sample_file[0: -5]: the file name without ".json"
Stem(f) == SubSeq(f, 1, Len(f) - 5)
\* sample_file[0: -5].replace('-', '.')
EventType(f) == ReplaceAll(Stem(f), Hyphen, Dot)

\* Python's ordering of strings and of the rows' tuples.
RECURSIVE StrLess(_, _)
StrLess(a, b) ==
  IF a = <<>> THEN b # <<>>
  ELSE IF b = <<>> THEN FALSE
  ELSE IF Head(a) # Head(b) THEN Head(a) < Head(b)
  ELSE StrLess(Tail(a), Tail(b))
TupleLess(a, b) ==
  \/ a[1] < b[1]
  \/ a[1] = b[1] /\ a[2] < b[2]
  \/ a[1] = b[1] /\ a[2] = b[2] /\ StrLess(a[3], b[3])

Registries ==
  {r \in [1..RegistrySize -> Entries] :
     \A a, b \in 1..RegistrySize : a # b => r[a].name # r[b].name}

Init ==
  /\ ovos \in Registries
  /\ i = 1 /\ j = 0 /\ payload = NoValue
  /\ notifications = [f \in {} |-> NoValue]
  /\ rows = <<>> /\ todo = <<>>
  /\ phase = "collect" /\ error = NoValue

Registered == {ovos[k].name : k \in 1..RegistrySize}

\* A class of the registry that is not a notification is passed over.
SkipClass ==
  /\ phase = "collect" /\ i <= RegistrySize /\ j = 0
  /\ ~ovos[i].notif
  /\ i' = i + 1
  /\ UNCHANGED <<ovos, j, payload, notifications, rows, todo, phase, error>>

\* payload_cls = ovos[payload_name][0]: a KeyError if it is not registered.
EnterClass ==
  /\ phase = "collect" /\ i <= RegistrySize /\ j = 0
  /\ ovos[i].notif
  /\ IF ovos[i].payload \in Registered
     THEN /\ payload' = ovos[i].payload /\ j' = 1
          /\ UNCHANGED <<phase, error>>
     ELSE /\ phase' = "done" /\ error' = "KeyError"
          /\ UNCHANGED <<j, payload>>
  /\ UNCHANGED <<ovos, i, notifications, rows, todo>>

\* Faulty variant: a sample named twice overwrites the earlier row.
CollectSampleNoCheck ==
  /\ phase = "collect" /\ i <= RegistrySize /\ j >= 1
  /\ j <= Len(ovos[i].samples)
  /\ LET f == ovos[i].samples[j] IN
       notifications' = (f :> <<ovos[i].name, payload, f>>) @@ notifications
  /\ j' = j + 1
  /\ UNCHANGED <<ovos, i, payload, rows, todo, phase, error>>

\* One sample of the class: a ValueError if an earlier one had the name.
CollectSample ==
  /\ phase = "collect" /\ i <= RegistrySize /\ j >= 1
  /\ j <= Len(ovos[i].samples)
  /\ LET f == ovos[i].samples[j] IN
       IF f \in DOMAIN notifications
       THEN /\ phase' = "done" /\ error' = "ValueError"
            /\ UNCHANGED <<notifications, j>>
       ELSE /\ notifications' = (f :> <<ovos[i].name, payload, f>>) @@ notifications
            /\ j' = j + 1
            /\ UNCHANGED <<phase, error>>
  /\ UNCHANGED <<ovos, i, payload, rows, todo>>

LeaveClass ==
  /\ phase = "collect" /\ i <= RegistrySize /\ j >= 1
  /\ j > Len(ovos[i].samples)
  /\ i' = i + 1 /\ j' = 0 /\ payload' = NoValue
  /\ UNCHANGED <<ovos, notifications, rows, todo, phase, error>>

\* Faulty variant: sorted(notifications), the sample names, not the rows.
CollectedKeys == SetToSortSeq(DOMAIN notifications, StrLess)

\* sorted(notifications.values())
Collected == SetToSortSeq(Range(notifications), TupleLess)

\* return sorted(notifications.values()); _build_markup starts the table.
EndCollect ==
  /\ phase = "collect" /\ i > RegistrySize
  /\ todo' = Collected
  /\ phase' = "markup"
  /\ UNCHANGED <<ovos, i, j, payload, notifications, rows, error>>

\* One row: the event type, the two class names and the sample's JSON,
\* in a toggled block whose HTML ids are the file name without ".json".
\* open() raises IOError on a missing file; jsonutils.loads, or
\* json_ref.resolve_refs reading a referenced file, raises ValueError on
\* text that is not JSON.
WriteRow ==
  /\ phase = "markup" /\ todo # <<>>
  /\ LET t == Head(todo) IN
       CASE t[3] \notin Existing ->
              /\ phase' = "done" /\ error' = "IOError"
              /\ UNCHANGED <<rows, todo>>
         [] t[3] \in Malformed ->
              /\ phase' = "done" /\ error' = "ValueError"
              /\ UNCHANGED <<rows, todo>>
         [] OTHER ->
              /\ rows' = Append(rows, [event |-> EventType(t[3]), name |-> t[1],
                                       payload |-> t[2], id |-> Stem(t[3]),
                                       sample |-> t[3]])
              /\ todo' = Tail(todo)
              /\ UNCHANGED <<phase, error>>
  /\ UNCHANGED <<ovos, i, j, payload, notifications>>

EndMarkup ==
  /\ phase = "markup" /\ todo = <<>>
  /\ phase' = "done"
  /\ UNCHANGED <<ovos, i, j, payload, notifications, rows, todo, error>>

Next ==
  \/ SkipClass \/ EnterClass \/ CollectSample \/ LeaveClass \/ EndCollect
  \/ WriteRow \/ EndMarkup

Spec == Init /\ [][Next]_vars

-----------------------------------------------------------------------------
(* Properties *)

TypeOK ==
  /\ ovos \in Registries
  /\ phase \in {"collect", "markup", "done"}
  /\ error \in {NoValue, "KeyError", "ValueError", "IOError"}
  /\ DOMAIN notifications \subseteq SampleFiles
  /\ todo \in Seq(Names \X PayloadNames \X SampleFiles)

\* The samples the notification classes of the registry declare.
Occurrences ==
  {<<k, a>> \in (1..RegistrySize) \X (1..MaxSamples) :
     ovos[k].notif /\ a <= Len(ovos[k].samples)}
File(o) == ovos[o[1]].samples[o[2]]

(* When the directive finishes without an exception, the table has one   *)
(* row per sample a notification class declares, with that class and its *)
(* payload class, in sorted order; it raises ValueError only when some    *)
(* sample file is declared twice or a declared sample is not JSON.        *)
SamplesTabled ==
  phase = "done" =>
    /\ error = "ValueError" =>
         \/ \E o1, o2 \in Occurrences : o1 # o2 /\ File(o1) = File(o2)
         \/ \E o \in Occurrences : File(o) \in Malformed
    /\ error = NoValue =>
         /\ Len(rows) = Cardinality(Occurrences)
         /\ \A o \in Occurrences : \E r \in 1..Len(rows) :
              rows[r] = [event |-> EventType(File(o)), name |-> ovos[o[1]].name,
                         payload |-> ovos[o[1]].payload, id |-> Stem(File(o)),
                         sample |-> File(o)]
         /\ \A a, b \in 1..Len(rows) : a < b =>
              TupleLess(<<rows[a].name, rows[a].payload, rows[a].sample>>,
                        <<rows[b].name, rows[b].payload, rows[b].sample>>)

=============================================================================
