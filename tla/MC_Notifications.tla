--------------------------- MODULE MC_Notifications ---------------------------
EXTENDS Notifications

\* "a.json", "a-b.json", "b.json" and "c.json" as character codes.
MCJson == <<46, 106, 115, 111, 110>>
MCA == <<97>> \o MCJson
MCAB == <<97, 45, 98>> \o MCJson
MCB == <<98>> \o MCJson
MCC == <<99>> \o MCJson
MCSampleFiles == {MCA, MCAB, MCB, MCC}
\* b.json has no file in doc/notification_samples; c.json is not JSON.
MCExisting == {MCA, MCAB, MCC}
MCMalformed == {MCC}

=============================================================================
