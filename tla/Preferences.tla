----------------------------- MODULE Preferences -----------------------------
(***************************************************************************)
(* The notification settings of a user (PUT /notifications, PATCH          *)
(* /profile) and the threads that read them after a run has ended          *)
(* (notify_execution_complete).  No index keeps notification_settings to   *)
(* one row for each user.  Whether a message arrives is not modelled.      *)
(***************************************************************************)
EXTENDS Naturals, FiniteSets

CONSTANTS
    PutThreads,    \* threads that serve requests
    Notes,         \* notification threads
    PutBodies,     \* bodies of PUT /notifications
    MaxPrefCalls,  \* bound on requests
    Unset          \* a field that is not provided, no row

Outcomes == {"success", "failure"}
NotifyOn == {"failure_only", "always", "never"}

\* chat and mail stand for a chat id, an address, that is not empty.
Setting == [telegram : BOOLEAN, chat : BOOLEAN, email : BOOLEAN, on : NotifyOn]
Defaults == [telegram |-> FALSE, chat |-> FALSE, email |-> FALSE,
             on |-> "failure_only"]
Body == [telegram : BOOLEAN \union {Unset}, chat : BOOLEAN \union {Unset},
         email : BOOLEAN \union {Unset}, on : NotifyOn \union {Unset}]

ASSUME PreferencesAssumption ==
    /\ PutBodies \subseteq Body
    /\ MaxPrefCalls \in Nat
    /\ Unset \notin Setting

VARIABLES
    settings,   \* the table: a row for each id, or Unset
    mail,       \* whether the profile has an address
    put,        \* the request of each thread
    note,       \* the notification threads
    prefCalls,  \* requests so far
    overlaps    \* history: requests that began before there was a row, while
                \* another was between its look and its write

prefVars == <<settings, mail, put, note, prefCalls, overlaps>>

Ids == 1..MaxPrefCalls
Put == [at : {"idle", "write"}, id : 0..MaxPrefCalls,
        seen : Setting \union {Unset}, body : PutBodies \union {Unset}]
Note == [at : {"none", "row", "mail", "send", "done"},
         outcome : Outcomes \union {Unset},
         row : Setting \union {Unset},    \* the row it read
         mail : BOOLEAN,                  \* the address it read
         sent : SUBSET {"telegram", "email"},
         rows : SUBSET Setting,           \* history: rows since the run ended
         mails : SUBSET BOOLEAN]          \* history: the same of the address

NoPut == [at |-> "idle", id |-> 0, seen |-> Unset, body |-> Unset]
NoNote == [at |-> "none", outcome |-> Unset, row |-> Unset, mail |-> FALSE,
           sent |-> {}, rows |-> {}, mails |-> {}]

PreferencesTypeOK ==
    /\ settings \in [Ids -> Setting \union {Unset}]
    /\ mail \in BOOLEAN
    /\ put \in [PutThreads -> Put]
    /\ note \in [Notes -> Note]
    /\ prefCalls \in 0..MaxPrefCalls
    /\ overlaps \in Nat

PreferencesInit ==
    /\ settings = [i \in Ids |-> Unset]
    /\ mail = FALSE
    /\ put = [h \in PutThreads |-> NoPut]
    /\ note = [n \in Notes |-> NoNote]
    /\ prefCalls = 0
    /\ overlaps = 0

-----------------------------------------------------------------------------
Saved == {i \in Ids : settings[i] # Unset}
InForce(table) == {table[i] : i \in {i \in Ids : table[i] # Unset}}

\* Each notification not yet sent has seen one more state of the settings.
Witnessed(table, address) ==
    note' = [n \in Notes |->
        IF note[n].at \in {"none", "done"} THEN note[n]
        ELSE [note[n] EXCEPT !.rows = @ \union InForce(table),
                             !.mails = @ \union {address}]]

\* PATCH /profile with an address, or an empty one.
Profile(address) ==
    /\ prefCalls < MaxPrefCalls
    /\ prefCalls' = prefCalls + 1
    /\ mail' = address
    /\ Witnessed(settings, address)
    /\ UNCHANGED <<settings, put, overlaps>>

\* Another request is between its look and its write, and there is no row yet.
Overlapping(h) ==
    Saved = {} /\ \E g \in PutThreads \ {h} : put[g].at = "write"

\* Seeded bug for OneRow: the row is looked for under another user's id, and
\* never found.
PutCheck_NotFound(h, body) ==
    /\ put[h].at = "idle"
    /\ prefCalls < MaxPrefCalls
    /\ prefCalls' = prefCalls + 1
    /\ body.email = TRUE => mail
    /\ put' = [put EXCEPT ![h] = [at |-> "write", id |-> 0, seen |-> Defaults,
                                  body |-> body]]
    /\ overlaps' = overlaps + IF Overlapping(h) THEN 1 ELSE 0
    /\ UNCHANGED <<settings, mail, note>>

\* PUT /notifications: email needs an address, and the row is looked for.
PutCheck(h, body) ==
    /\ put[h].at = "idle"
    /\ prefCalls < MaxPrefCalls
    /\ prefCalls' = prefCalls + 1
    /\ body.email = TRUE => mail
    /\ \/ \E i \in Saved :
             put' = [put EXCEPT ![h] = [at |-> "write", id |-> i,
                                        seen |-> settings[i], body |-> body]]
       \/ /\ Saved = {}
          /\ put' = [put EXCEPT ![h] = [at |-> "write", id |-> 0,
                                        seen |-> Defaults, body |-> body]]
    /\ overlaps' = overlaps + IF Overlapping(h) THEN 1 ELSE 0
    /\ UNCHANGED <<settings, mail, note>>

\* The row is inserted, or what differs from the row as read is written.
PutWrite(h) ==
    LET p == put[h]
        id == IF p.id # 0 THEN p.id
              ELSE CHOOSE i \in Ids :
                      settings[i] = Unset /\ \A k \in 1..(i - 1) : k \in Saved
        old == IF p.id # 0 THEN settings[id] ELSE Defaults
    IN  /\ p.at = "write"
        /\ settings' = [settings EXCEPT ![id] = [f \in DOMAIN old |->
              IF p.body[f] # Unset /\ p.body[f] # p.seen[f]
              THEN p.body[f] ELSE old[f]]]
        /\ put' = [put EXCEPT ![h] = NoPut]
        /\ Witnessed(settings', mail)
        /\ UNCHANGED <<mail, prefCalls, overlaps>>

\* A run has ended, and its thread is started.
RunEnds(n, outcome) ==
    /\ note[n].at = "none"
    /\ note' = [note EXCEPT ![n] = [NoNote EXCEPT !.at = "row",
                   !.outcome = outcome, !.rows = InForce(settings),
                   !.mails = {mail}]]
    /\ UNCHANGED <<settings, mail, put, prefCalls, overlaps>>

\* first() of the rows, in no order: any of them.
NoteRow(n) ==
    /\ note[n].at = "row"
    /\ \/ \E i \in Saved : note' = [note EXCEPT ![n].at = "mail",
                                                 ![n].row = settings[i]]
       \/ Saved = {} /\ note' = [note EXCEPT ![n].at = "done"]
    /\ UNCHANGED <<settings, mail, put, prefCalls, overlaps>>

NoteMail(n) ==
    /\ note[n].at = "mail"
    /\ note' = [note EXCEPT ![n].at = "send", ![n].mail = mail]
    /\ UNCHANGED <<settings, mail, put, prefCalls, overlaps>>

\* Seeded bug for SentAsAsked: never is forgotten.
Silent_NotNever(row, outcome) == row.on = "failure_only" /\ outcome # "failure"

Silent(row, outcome) ==
    \/ row.on = "never"
    \/ row.on = "failure_only" /\ outcome # "failure"

NoteSend(n) ==
    LET m == note[n] IN
    /\ m.at = "send"
    /\ note' = [note EXCEPT ![n].at = "done", ![n].sent =
          IF Silent(m.row, m.outcome) THEN {}
          ELSE {c \in {"telegram", "email"} :
                  \/ c = "telegram" /\ m.row.telegram /\ m.row.chat
                  \/ c = "email" /\ m.row.email /\ m.mail}]
    /\ UNCHANGED <<settings, mail, put, prefCalls, overlaps>>

PreferencesNext ==
    \/ \E address \in BOOLEAN : Profile(address)
    \/ \E h \in PutThreads :
          (\E body \in PutBodies : PutCheck(h, body)) \/ PutWrite(h)
    \/ \E n \in Notes :
          \/ \E outcome \in Outcomes : RunEnds(n, outcome)
          \/ NoteRow(n) \/ NoteMail(n) \/ NoteSend(n)

PreferencesSpec == PreferencesInit /\ [][PreferencesNext]_prefVars

-----------------------------------------------------------------------------
(* Properties *)

\* A user has one row of settings, and one more for each request that began
\* before there was a row and while another was on its way to insert it: no
\* request makes a second row by itself, before such a race or after it.
OneRow == Cardinality(Saved) <= 1 + overlaps

\* What a notification sends is what one row and one address that were in force
\* between the end of the run and the sending ask for: always means every run,
\* failure_only the failed ones, and never none.
SentAsAsked ==
    \A n \in Notes : note[n].at = "done" =>
        LET m == note[n]
            wanted(row) == [failure_only |-> m.outcome = "failure",
                            always |-> TRUE, never |-> FALSE][row.on]
        IN  \/ \E row \in m.rows, address \in m.mails :
                 /\ "telegram" \in m.sent <=>
                       wanted(row) /\ row.telegram /\ row.chat
                 /\ "email" \in m.sent <=> wanted(row) /\ row.email /\ address
            \/ m.row = Unset /\ m.sent = {}

=============================================================================
