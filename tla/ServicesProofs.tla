---------------------------- MODULE ServicesProofs ----------------------------
(***************************************************************************)
(* Theorems about the services that answer requests out of a store of      *)
(* their own: requirements.txt, the notification settings, the rate        *)
(* limiter, the variables of jobs and the refresh tokens; of all the parts *)
(* of MCRequests together; and of the days that are shown for a job.       *)
(***************************************************************************)
EXTENDS MCRequests, JobRequestsProofs, Cron

-----------------------------------------------------------------------------
(* Requirements.  Two requests at work have crossed; so the file is what a *)
(* request that has not been crossed left in it.                           *)

Busy(t) == reqCall[t].at \notin {"idle", "answered"}

\* What a request that met no other finds in the file, and has read.
OwnFile(c) ==
    ~c.crossed =>
        /\ c.at = "fill" => reqFile = EmptyText
        /\ c.at = "pip" => reqFile = c.text
        /\ c.at = "install" => c.read = c.text
        /\ c.code = 200 => c.read = c.text

\* Only an answer has a code.
CodeIsLast(c) == c.at # "answered" => c.code = 0

\* While writes do not overlap, the one that is open will leave the newest
\* content, and between writes the file has it.
OneWriter ==
    ~spoiled =>
        /\ \A t \in ReqThreads : reqCall[t].at = "fill" =>
              /\ reqFile = EmptyText /\ reqCall[t].text = newest
              /\ \A u \in ReqThreads : reqCall[u].at = "fill" => u = t
        /\ (\A t \in ReqThreads : reqCall[t].at # "fill") => reqFile = newest

ReqInv ==
    /\ ReqTypeOK
    /\ \A t \in ReqThreads : OwnFile(reqCall[t]) /\ CodeIsLast(reqCall[t])
    /\ \A t, u \in ReqThreads :
          t # u /\ Busy(t) /\ Busy(u) => reqCall[t].crossed
    /\ OneWriter

LEMMA ReqInitHolds == ReqInit => ReqInv
<1>. SUFFICES ASSUME ReqInit PROVE ReqInv
  OBVIOUS
<1>1. /\ \A t \in ReqThreads : reqCall[t] = ReqIdle
      /\ reqFile = NoText /\ newest = NoText
      /\ spoiled \in BOOLEAN /\ reqCalls = 0
  BY DEF ReqInit
<1>2. ReqIdle \in ReqRequest
  BY DEF ReqIdle, ReqRequest, ReqFileText
<1>3. reqCall \in [ReqThreads -> ReqRequest]
  BY <1>2 DEF ReqInit
<1>4. ReqTypeOK
  BY <1>1, <1>3, RequirementsAssumption DEF ReqTypeOK, ReqFileText
<1>5. \A t \in ReqThreads :
         /\ reqCall[t].at = "idle" /\ reqCall[t].code = 0
         /\ reqCall[t].read = NoText /\ reqCall[t].text = NoText
  BY <1>1 DEF ReqIdle
<1>. QED BY <1>1, <1>4, <1>5 DEF ReqInv, OwnFile, CodeIsLast, OneWriter, Busy

LEMMA ReqStep ==
    ASSUME ReqInv, [ReqNext]_reqVars
    PROVE  ReqInv'
<1> USE RequirementsAssumption DEF ReqInv
<1>1. ASSUME NEW t \in ReqThreads, NEW text \in ReqTexts, PutOpen(t, text)
      PROVE  ReqInv'
  <2>1. /\ reqCall'[t] = [ReqIdle EXCEPT !.at = "fill", !.text = text,
                                         !.crossed = AtWork(t) # {}]
        /\ \A u \in ReqThreads \ {t} :
              reqCall'[u] = [reqCall[u] EXCEPT !.crossed = @ \/ u \in AtWork(t)]
    BY <1>1 DEF PutOpen
  <2>2. \A u \in ReqThreads \ {t} : u \in AtWork(t) <=> Busy(u)
    BY DEF AtWork, Busy
  <2>3. /\ reqCall'[t].at = "fill" /\ reqCall'[t].text = text
        /\ reqCall'[t].code = 0 /\ reqCall'[t].read = NoText
        /\ reqCall'[t].crossed = (AtWork(t) # {})
    BY <2>1 DEF ReqIdle
  <2>4. ASSUME NEW u \in ReqThreads \ {t}
        PROVE  /\ reqCall'[u].at = reqCall[u].at
               /\ reqCall'[u].text = reqCall[u].text
               /\ reqCall'[u].read = reqCall[u].read
               /\ reqCall'[u].code = reqCall[u].code
               /\ reqCall'[u].crossed = (reqCall[u].crossed \/ Busy(u))
    <3>1. reqCall[u] \in ReqRequest
      BY DEF ReqTypeOK
    <3>2. reqCall'[u] = [reqCall[u] EXCEPT !.crossed = @ \/ Busy(u)]
      BY <2>1, <2>2
    <3>. QED BY ONLY <3>1, <3>2 DEF ReqRequest
  <2>5. /\ reqFile' = EmptyText /\ newest' = text
        /\ spoiled' = (Filling(t) # {})
    BY <1>1 DEF PutOpen
  <2>6. ReqTypeOK'
    <3>1. ASSUME NEW u \in ReqThreads PROVE reqCall'[u] \in ReqRequest
      <4>1. CASE u = t
        <5>. DEFINE crossed == AtWork(t) # {}
        <5>1. crossed \in BOOLEAN
          OBVIOUS
        <5>2. reqCall'[u] = [ReqIdle EXCEPT !.at = "fill", !.text = text,
                                            !.crossed = crossed]
          BY <2>1, <4>1
        <5>. HIDE DEF crossed
        <5>3. reqCall'[u] = [at |-> "fill", text |-> text, read |-> NoText,
                             code |-> 0, crossed |-> crossed]
          BY ONLY <5>2 DEF ReqIdle
        <5>4. text \in ReqTexts \union {NoText} /\ NoText \in ReqFileText
          BY DEF ReqFileText
        <5>. QED BY ONLY <5>1, <5>3, <5>4 DEF ReqRequest
      <4>2. CASE u # t
        <5>1. reqCall[u] \in ReqRequest
          BY DEF ReqTypeOK
        <5>2. reqCall'[u] = [reqCall[u] EXCEPT !.crossed = @ \/ u \in AtWork(t)]
          BY <2>1, <4>2
        <5>. DEFINE crossed == reqCall[u].crossed \/ u \in AtWork(t)
        <5>3. crossed \in BOOLEAN
          OBVIOUS
        <5>4. reqCall'[u] = [reqCall[u] EXCEPT !.crossed = crossed]
          BY <5>2
        <5>. HIDE DEF crossed
        <5>. QED BY ONLY <5>1, <5>3, <5>4 DEF ReqRequest
      <4>. QED BY <4>1, <4>2
    <3>2. reqCall' \in [ReqThreads -> ReqRequest]
      BY <1>1, <3>1 DEF PutOpen
    <3>3. reqCalls' \in 0..MaxReqCalls
      <4>1. reqCalls < MaxReqCalls /\ reqCalls' = reqCalls + 1
        BY <1>1 DEF PutOpen
      <4>. QED BY <4>1 DEF ReqTypeOK
    <3>. QED BY <2>5, <3>2, <3>3 DEF ReqTypeOK, ReqFileText
  <2>7. ASSUME NEW u \in ReqThreads
        PROVE  OwnFile(reqCall[u])' /\ CodeIsLast(reqCall[u])'
    <3>1. CASE u = t
      BY <2>3, <2>5, <3>1 DEF OwnFile, CodeIsLast
    <3>2. CASE u # t
      <4>1. reqCall'[u].at \in {"idle", "answered"} \/ reqCall'[u].crossed
        BY <2>4, <3>2 DEF Busy
      <4>2. ~reqCall'[u].crossed => ~reqCall[u].crossed
        BY <2>4, <3>2
      <4>. QED BY <2>4, <3>2, <4>1, <4>2 DEF OwnFile, CodeIsLast
    <3>. QED BY <3>1, <3>2
  <2>8. ASSUME NEW u \in ReqThreads, NEW w \in ReqThreads, u # w, Busy(u)', Busy(w)'
        PROVE  reqCall'[u].crossed
    <3>1. CASE u = t
      <4>1. w \in AtWork(t)
        BY <2>2, <2>4, <2>8, <3>1 DEF Busy
      <4>. QED BY <2>3, <3>1, <4>1
    <3>2. CASE u # t
      BY <2>4, <2>8, <3>2 DEF Busy
    <3>. QED BY <3>1, <3>2
  <2>9. OneWriter'
    <3>1. ASSUME NEW u \in ReqThreads, ~spoiled', reqCall'[u].at = "fill"
          PROVE  u = t
      BY <2>4, <2>5, <3>1 DEF Filling
    <3>. QED BY <2>3, <2>5, <3>1 DEF OneWriter
  <2>. QED BY <2>6, <2>7, <2>8, <2>9
<1>2. ASSUME NEW t \in ReqThreads, PutFill(t) PROVE ReqInv'
  <2>1. /\ reqCall' = [reqCall EXCEPT ![t].at = "pip"]
        /\ UNCHANGED <<reqCalls, newest, spoiled>>
        /\ reqCall[t].at = "fill"
        /\ reqFile' \in ReqFileText
        /\ reqFile = EmptyText => reqFile' = reqCall[t].text
    BY <1>2 DEF PutFill, ReqTypeOK, ReqRequest, ReqFileText
  <2>2. /\ reqCall'[t].at = "pip" /\ reqCall'[t].text = reqCall[t].text
        /\ reqCall'[t].code = reqCall[t].code
        /\ reqCall'[t].crossed = reqCall[t].crossed
        /\ \A u \in ReqThreads \ {t} : reqCall'[u] = reqCall[u]
    BY <2>1 DEF ReqTypeOK, ReqRequest
  <2>3. ReqTypeOK'
    BY <2>1 DEF ReqTypeOK, ReqRequest
  <2>4. ASSUME NEW u \in ReqThreads
        PROVE  OwnFile(reqCall[u])' /\ CodeIsLast(reqCall[u])'
    <3>1. CASE u = t
      BY <2>1, <2>2, <3>1 DEF OwnFile, CodeIsLast
    <3>2. CASE u # t
      <4>1. reqCall'[u] = reqCall[u]
        BY <2>2, <3>2
      <4>2. Busy(u) => reqCall[u].crossed
        BY <2>1, <3>2 DEF Busy
      <4>. QED BY <4>1, <4>2 DEF OwnFile, CodeIsLast, Busy
    <3>. QED BY <3>1, <3>2
  <2>5. \A u, w \in ReqThreads :
           u # w /\ Busy(u)' /\ Busy(w)' => reqCall'[u].crossed
    BY <2>1, <2>2 DEF Busy
  <2>6. OneWriter'
    BY <2>1, <2>2 DEF OneWriter
  <2>. QED BY <2>3, <2>4, <2>5, <2>6
<1>9. ASSUME NEW t \in ReqThreads, PutFails(t) PROVE ReqInv'
  <2>1. /\ reqCall' = [reqCall EXCEPT ![t].at = "answered", ![t].code = 500]
        /\ UNCHANGED <<reqCalls, newest>>
        /\ reqCall[t].at = "fill" /\ spoiled' = TRUE
        /\ reqFile' \in {reqFile, MixedText}
    BY <1>9 DEF PutFails
  <2>2. /\ reqCall'[t].at = "answered" /\ reqCall'[t].text = reqCall[t].text
        /\ reqCall'[t].code = 500
        /\ reqCall'[t].crossed = reqCall[t].crossed
        /\ \A u \in ReqThreads \ {t} : reqCall'[u] = reqCall[u]
    BY <2>1 DEF ReqTypeOK, ReqRequest
  <2>3. ReqTypeOK'
    <3>1. reqCall[t] \in ReqRequest
      BY DEF ReqTypeOK
    <3>2. [reqCall[t] EXCEPT !.at = "answered", !.code = 500] \in ReqRequest
      <4> DEFINE c == [reqCall[t] EXCEPT !.at = "answered"]
      <4>1. c \in ReqRequest
        BY ONLY <3>1 DEF ReqRequest
      <4>2. [reqCall[t] EXCEPT !.at = "answered", !.code = 500] =
               [c EXCEPT !.code = 500]
        OBVIOUS
      <4> HIDE DEF c
      <4>3. [c EXCEPT !.code = 500] \in ReqRequest
        BY ONLY <4>1 DEF ReqRequest
      <4>. QED BY ONLY <4>2, <4>3
    <3>. QED BY <2>1, <3>2 DEF ReqTypeOK, ReqFileText
  <2>4. ASSUME NEW u \in ReqThreads
        PROVE  OwnFile(reqCall[u])' /\ CodeIsLast(reqCall[u])'
    <3>1. CASE u = t
      BY <2>1, <2>2, <3>1 DEF OwnFile, CodeIsLast
    <3>2. CASE u # t
      <4>1. reqCall'[u] = reqCall[u]
        BY <2>2, <3>2
      <4>2. Busy(u) => reqCall[u].crossed
        BY <2>1, <3>2 DEF Busy
      <4>. QED BY <4>1, <4>2 DEF OwnFile, CodeIsLast, Busy
    <3>. QED BY <3>1, <3>2
  <2>5. \A u, w \in ReqThreads :
           u # w /\ Busy(u)' /\ Busy(w)' => reqCall'[u].crossed
    <3>1. \A u \in ReqThreads : Busy(u)' => u # t /\ Busy(u)
      BY <2>2 DEF Busy
    <3>2. \A u \in ReqThreads : Busy(u)' => reqCall'[u] = reqCall[u]
      BY <2>2, <3>1
    <3>. QED BY <3>1, <3>2
  <2>6. OneWriter'
    BY <2>1 DEF OneWriter
  <2>. QED BY <2>3, <2>4, <2>5, <2>6
<1>3. ASSUME NEW t \in ReqThreads, PipReads(t) PROVE ReqInv'
  <2>1. /\ reqCall' = [reqCall EXCEPT ![t].at = "install", ![t].read = reqFile]
        /\ UNCHANGED <<reqFile, reqCalls, newest, spoiled>>
        /\ reqCall[t].at = "pip"
    BY <1>3 DEF PipReads
  <2>2. /\ reqCall'[t].at = "install" /\ reqCall'[t].text = reqCall[t].text
        /\ reqCall'[t].code = reqCall[t].code /\ reqCall'[t].read = reqFile
        /\ reqCall'[t].crossed = reqCall[t].crossed
        /\ \A u \in ReqThreads \ {t} : reqCall'[u] = reqCall[u]
    BY <2>1 DEF ReqTypeOK, ReqRequest
  <2>3. ReqTypeOK'
    <3>1. reqCall[t] \in ReqRequest /\ reqFile \in ReqFileText
      BY DEF ReqTypeOK
    <3>2. ASSUME NEW c \in ReqRequest, NEW f \in ReqFileText
          PROVE  [c EXCEPT !.at = "install", !.read = f] \in ReqRequest
      <4>1. [c EXCEPT !.at = "install"] \in ReqRequest
        BY ONLY c \in ReqRequest DEF ReqRequest
      <4>2. ASSUME NEW d \in ReqRequest PROVE [d EXCEPT !.read = f] \in ReqRequest
        BY ONLY <4>2, f \in ReqFileText DEF ReqRequest
      <4>3. [c EXCEPT !.at = "install", !.read = f]
               = [[c EXCEPT !.at = "install"] EXCEPT !.read = f]
        OBVIOUS
      <4>. QED BY ONLY <4>1, <4>2, <4>3, f \in ReqFileText
    <3>3. [reqCall[t] EXCEPT !.at = "install", !.read = reqFile] \in ReqRequest
      BY ONLY <3>1, <3>2
    <3>. QED BY <2>1, <3>3 DEF ReqTypeOK
  <2>4. ASSUME NEW u \in ReqThreads
        PROVE  OwnFile(reqCall[u])' /\ CodeIsLast(reqCall[u])'
    <3>1. OwnFile(reqCall[u]) /\ CodeIsLast(reqCall[u])
      OBVIOUS
    <3>2. CASE u = t
      BY <2>1, <2>2, <3>1, <3>2 DEF OwnFile, CodeIsLast
    <3>3. CASE u # t
      <4>1. reqCall'[u] = reqCall[u] /\ reqFile' = reqFile
        BY <2>1, <2>2, <3>3
      <4>. QED BY ONLY <3>1, <4>1 DEF OwnFile, CodeIsLast
    <3>. QED BY <3>2, <3>3
  <2>5. \A u, w \in ReqThreads :
           u # w /\ Busy(u)' /\ Busy(w)' => reqCall'[u].crossed
    BY <2>1, <2>2 DEF Busy
  <2>6. OneWriter'
    <3>1. /\ \A u \in ReqThreads :
                (reqCall[u].at = "fill")' <=> reqCall[u].at = "fill"
          /\ \A u \in ReqThreads : reqCall'[u].text = reqCall[u].text
      BY <2>1, <2>2
    <3>. QED BY <2>1, <3>1 DEF OneWriter
  <2>. QED BY <2>3, <2>4, <2>5, <2>6
<1>4. ASSUME NEW t \in ReqThreads, NEW code \in {200, 207}, PipEnds(t, code)
      PROVE  ReqInv'
  <2>1. /\ reqCall' = [reqCall EXCEPT ![t].at = "answered", ![t].code = code]
        /\ UNCHANGED <<reqFile, reqCalls, newest, spoiled>>
        /\ \/ reqCall[t].at = "install"
           \/ reqCall[t].at = "pip" /\ code = 207
    BY <1>4 DEF PipEnds
  <2>0. /\ reqFile' = reqFile /\ newest' = newest /\ spoiled' = spoiled
        /\ reqCall[t].at # "fill"
    BY <2>1
  <2>2. /\ reqCall'[t].at = "answered" /\ reqCall'[t].text = reqCall[t].text
        /\ reqCall'[t].code = code /\ reqCall'[t].read = reqCall[t].read
        /\ reqCall'[t].crossed = reqCall[t].crossed
        /\ \A u \in ReqThreads \ {t} : reqCall'[u] = reqCall[u]
    BY <2>1 DEF ReqTypeOK, ReqRequest
  <2>3. ReqTypeOK'
    <3>1. reqCall[t] \in ReqRequest /\ reqFile \in ReqFileText
      BY DEF ReqTypeOK
    <3>2. [reqCall[t] EXCEPT !.at = "answered", !.code = code] \in ReqRequest
      <4> DEFINE c == [reqCall[t] EXCEPT !.at = "answered"]
      <4>1. c \in ReqRequest
        BY ONLY <3>1 DEF ReqRequest
      <4>2. [reqCall[t] EXCEPT !.at = "answered", !.code = code] =
               [c EXCEPT !.code = code]
        OBVIOUS
      <4> HIDE DEF c
      <4>3. [c EXCEPT !.code = code] \in ReqRequest
        BY ONLY <4>1, code \in {200, 207} DEF ReqRequest
      <4>. QED BY ONLY <4>2, <4>3
    <3>. QED BY <2>1, <3>2 DEF ReqTypeOK
  <2>4. ASSUME NEW u \in ReqThreads
        PROVE  OwnFile(reqCall[u])' /\ CodeIsLast(reqCall[u])'
    <3>1. OwnFile(reqCall[u]) /\ CodeIsLast(reqCall[u])
      OBVIOUS
    <3>2. CASE u = t
      <4>1. code = 200 => reqCall[t].at = "install"
        BY <2>1
      <4>. QED BY <2>1, <2>2, <3>1, <3>2, <4>1 DEF OwnFile, CodeIsLast
    <3>3. CASE u # t
      BY ONLY <2>2, <2>0, <3>1, <3>3, u \in ReqThreads DEF OwnFile, CodeIsLast
    <3>. QED BY <3>2, <3>3
  <2>5. \A u, w \in ReqThreads :
           u # w /\ Busy(u)' /\ Busy(w)' => reqCall'[u].crossed
    BY <2>1, <2>2 DEF Busy
  <2>6. OneWriter'
    <3>1. \A u \in ReqThreads :
             /\ (reqCall'[u].at = "fill") <=> (reqCall[u].at = "fill")
             /\ reqCall'[u].text = reqCall[u].text
      BY ONLY <2>2, <2>0
    <3>. QED BY <2>0, <3>1 DEF OneWriter
  <2>. QED BY <2>3, <2>4, <2>5, <2>6
<1>5. CASE ReqRestart
  <2>1. /\ reqCall' = [t \in ReqThreads |-> ReqIdle]
        /\ UNCHANGED <<reqFile, newest>>
        /\ spoiled' = (spoiled \/ \E t \in ReqThreads : reqCall[t].at = "fill")
        /\ reqCalls < MaxReqCalls /\ reqCalls' = reqCalls + 1
    BY <1>5 DEF ReqRestart
  <2>2. ReqIdle \in ReqRequest
    BY DEF ReqIdle, ReqRequest, ReqFileText
  <2>3. \A t \in ReqThreads : reqCall'[t].at = "idle" /\ reqCall'[t].code = 0
    BY <2>1 DEF ReqIdle
  <2>4. ReqTypeOK'
    BY <2>1, <2>2 DEF ReqTypeOK
  <2>5. OneWriter'
    BY <2>1, <2>3 DEF OneWriter
  <2>. QED BY <2>3, <2>4, <2>5 DEF OwnFile, CodeIsLast, Busy
<1>6. CASE UNCHANGED reqVars
  <2>1. /\ reqCall' = reqCall /\ reqFile' = reqFile /\ newest' = newest
        /\ spoiled' = spoiled /\ reqCalls' = reqCalls
    BY <1>6 DEF reqVars
  <2>2. ReqTypeOK' /\ OneWriter'
    BY <2>1 DEF ReqTypeOK, OneWriter
  <2>. QED BY <2>1, <2>2 DEF OwnFile, CodeIsLast, Busy
<1>. QED BY <1>1, <1>2, <1>3, <1>4, <1>5, <1>6, <1>9 DEF ReqNext

LEMMA ReqInvHolds == ReqSpec => []ReqInv
BY ReqInitHolds, ReqStep, PTL DEF ReqSpec

\* A PUT answered with 200 that no other request crossed has had its own
\* content installed, and the file shows the newest content between writes.
THEOREM InstalledHolds == ReqSpec => []AnsweredIsInstalled
<1>1. ReqInv => AnsweredIsInstalled
  BY DEF ReqInv, OwnFile, OneWriter, AnsweredIsInstalled
<1>. QED BY <1>1, ReqInvHolds, PTL

-----------------------------------------------------------------------------
(* The notification settings.  No row is ever deleted, and only a request  *)
(* that found none inserts one: so there are never more rows and inserts   *)
(* on their way than one, and one for each request that overlapped.        *)

\* A request that has found a row will find it again.
RowKept ==
    \A h \in PutThreads : put[h].at = "write" =>
        /\ put[h].body \in PutBodies
        /\ IF put[h].id # 0 THEN put[h].id \in Saved
           ELSE put[h].seen = Defaults

Inserting == {h \in PutThreads : put[h].at = "write" /\ put[h].id = 0}

Counted ==
    /\ IsFiniteSet(Inserting)
    /\ Cardinality(Saved) + Cardinality(Inserting) <= 1 + overlaps

LEMMA SavedFinite ==
    IsFiniteSet(Saved) /\ Cardinality(Saved) \in Nat
<1>1. Saved \subseteq Ids /\ IsFiniteSet(Ids)
  BY FS_Interval, PreferencesAssumption DEF Saved, Ids
<1>. QED BY <1>1, FS_Subset, FS_CardinalityType

\* What SentAsAsked says of one notification.
Asked(m) ==
    LET wanted(row) == [failure_only |-> m.outcome = "failure",
                        always |-> TRUE, never |-> FALSE][row.on]
    IN  \/ \E row \in m.rows, address \in m.mails :
             /\ "telegram" \in m.sent <=>
                   wanted(row) /\ row.telegram /\ row.chat
             /\ "email" \in m.sent <=> wanted(row) /\ row.email /\ address
        \/ m.row = Unset /\ m.sent = {}

\* A notification at work knows the settings now in force, and what it has
\* read of them was in force.
OnItsWay(m, these, address) ==
    /\ m.at \notin {"none", "done"} => these \subseteq m.rows /\ address \in m.mails
    /\ m.at # "done" => m.sent = {}
    /\ m.at = "row" => m.row = Unset
    /\ m.at \in {"mail", "send"} => m.row \in m.rows
    /\ m.at = "send" => m.mail \in m.mails
    /\ m.at = "done" => Asked(m)

PrefInv ==
    /\ PreferencesTypeOK
    /\ RowKept
    /\ Counted
    /\ \A n \in Notes : OnItsWay(note[n], InForce(settings), mail)

LEMMA RowsInForce ==
    ASSUME NEW table \in [Ids -> Setting \union {Unset}]
    PROVE  InForce(table) \subseteq Setting
  BY DEF InForce

\* A change of the settings that every notification at work witnesses.
LEMMA NotesWitness ==
    ASSUME PrefInv, NEW table \in [Ids -> Setting \union {Unset}],
           NEW address \in BOOLEAN, Witnessed(table, address)
    PROVE  /\ note' \in [Notes -> Note]
           /\ \A n \in Notes : OnItsWay(note'[n], InForce(table), address)
<1>1. ASSUME NEW n \in Notes
      PROVE  note'[n] \in Note /\ OnItsWay(note'[n], InForce(table), address)
  <2> DEFINE m == note[n]
             these == InForce(table)
  <2>1. m \in Note /\ OnItsWay(m, InForce(settings), mail)
    BY DEF PrefInv, PreferencesTypeOK
  <2>2. these \subseteq Setting
    BY RowsInForce
  <2>3. note'[n] = IF m.at \in {"none", "done"} THEN m
                   ELSE [m EXCEPT !.rows = @ \union these,
                                  !.mails = @ \union {address}]
    BY DEF Witnessed
  <2> HIDE DEF m, these
  <2>4. CASE m.at \in {"none", "done"}
    BY <2>1, <2>3, <2>4 DEF OnItsWay
  <2>5. CASE m.at \notin {"none", "done"}
    <3>1. note'[n] = [m EXCEPT !.rows = m.rows \union these,
                               !.mails = m.mails \union {address}]
      BY <2>3, <2>5
    <3>2. note'[n] \in Note
      <4> DEFINE r == m.rows \union these
                 a == m.mails \union {address}
      <4>1. r \in SUBSET Setting /\ a \in SUBSET BOOLEAN
        BY <2>1, <2>2 DEF Note
      <4>2. note'[n] = [m EXCEPT !.rows = r, !.mails = a]
        BY <3>1
      <4> HIDE DEF r, a
      <4>. QED BY ONLY <2>1, <4>1, <4>2 DEF Note
    <3>3. /\ note'[n].at = m.at /\ note'[n].row = m.row
          /\ note'[n].mail = m.mail /\ note'[n].sent = m.sent
          /\ note'[n].rows = m.rows \union these
          /\ note'[n].mails = m.mails \union {address}
      BY ONLY <2>1, <3>1 DEF Note
    <3>. QED BY <2>1, <2>5, <3>2, <3>3 DEF OnItsWay, these
  <2>. QED BY <2>4, <2>5
<1>2. DOMAIN note' = Notes /\ note' = [n \in Notes |-> note'[n]]
  BY DEF Witnessed
<1>. QED BY <1>1, <1>2

\* A step of one notification that leaves the settings alone.
LEMMA OneNoteMoves ==
    ASSUME PrefInv, NEW n \in Notes, NEW m \in Note,
           note' = [note EXCEPT ![n] = m],
           OnItsWay(m, InForce(settings), mail),
           UNCHANGED <<settings, mail, put, prefCalls, overlaps>>
    PROVE  PrefInv'
<1>1. note' \in [Notes -> Note]
  BY DEF PrefInv, PreferencesTypeOK
<1>2. PreferencesTypeOK'
  BY <1>1 DEF PrefInv, PreferencesTypeOK
<1>3. InForce(settings)' = InForce(settings)
  OBVIOUS
<1>4. ASSUME NEW o \in Notes PROVE OnItsWay(note[o], InForce(settings), mail)'
  <2>1. OnItsWay(note'[o], InForce(settings), mail)
    BY DEF PrefInv, PreferencesTypeOK
  <2>. QED BY <1>3, <2>1
<1>5. RowKept' /\ Counted'
  BY DEF PrefInv, RowKept, Counted, Inserting, Saved
<1>. QED BY <1>2, <1>4, <1>5 DEF PrefInv

LEMMA PrefInitHolds == PreferencesInit => PrefInv
<1>. SUFFICES ASSUME PreferencesInit PROVE PrefInv
  OBVIOUS
<1>1. NoNote \in Note /\ NoPut \in Put
  BY PreferencesAssumption DEF NoNote, Note, NoPut, Put
<1>2. PreferencesTypeOK
  <2>1. mail \in BOOLEAN /\ overlaps = 0 /\ prefCalls = 0
    BY DEF PreferencesInit
  <2>2. put \in [PutThreads -> Put] /\ note \in [Notes -> Note]
    BY <1>1 DEF PreferencesInit
  <2>3. settings \in [Ids -> Setting \union {Unset}]
    BY DEF PreferencesInit
  <2>. QED BY <2>1, <2>2, <2>3, PreferencesAssumption DEF PreferencesTypeOK
<1>3. Saved = {} /\ \A h \in PutThreads : put[h].at = "idle"
  BY DEF PreferencesInit, Saved, NoPut
<1>4. \A n \in Notes : OnItsWay(note[n], InForce(settings), mail)
  BY DEF PreferencesInit, OnItsWay, NoNote
<1>5. Inserting = {}
  BY <1>3 DEF Inserting
<1>6. Counted
  <2>1. overlaps = 0
    BY DEF PreferencesInit
  <2>. QED BY <1>3, <1>5, <2>1, FS_EmptySet DEF Counted
<1>. QED BY <1>2, <1>3, <1>4, <1>6 DEF PrefInv, RowKept

LEMMA PrefStep ==
    ASSUME PrefInv, [PreferencesNext]_prefVars
    PROVE  PrefInv'
<1> USE PreferencesAssumption
<1>1. ASSUME NEW address \in BOOLEAN, Profile(address) PROVE PrefInv'
  <2>1. /\ Witnessed(settings, address) /\ mail' = address
        /\ settings' = settings /\ put' = put /\ overlaps' = overlaps
        /\ prefCalls < MaxPrefCalls /\ prefCalls' = prefCalls + 1
    BY <1>1 DEF Profile
  <2>2. settings \in [Ids -> Setting \union {Unset}]
    BY DEF PrefInv, PreferencesTypeOK
  <2>3. /\ note' \in [Notes -> Note]
        /\ \A n \in Notes : OnItsWay(note'[n], InForce(settings), address)
    BY <2>1, <2>2, NotesWitness
  <2>4. PreferencesTypeOK'
    BY <2>1, <2>3 DEF PrefInv, PreferencesTypeOK
  <2>5. RowKept' /\ Counted'
    BY <2>1 DEF PrefInv, RowKept, Counted, Inserting, Saved
  <2>6. \A n \in Notes : OnItsWay(note[n], InForce(settings), mail)'
    BY <2>1, <2>3
  <2>. QED BY <2>4, <2>5, <2>6 DEF PrefInv
<1>2. ASSUME NEW h \in PutThreads, NEW body \in PutBodies, PutCheck(h, body)
      PROVE  PrefInv'
  <2>1. PICK p \in Put :
           /\ put' = [put EXCEPT ![h] = p]
           /\ p.body = body
           /\ IF p.id # 0 THEN p.id \in Saved
              ELSE p.seen = Defaults /\ Saved = {}
    <3>1. CASE Saved = {}
      <4> DEFINE p == [at |-> "write", id |-> 0, seen |-> Defaults, body |-> body]
      <4>1. put' = [put EXCEPT ![h] = p]
        BY <1>2, <3>1 DEF PutCheck
      <4>2. p \in Put
        BY DEF Put, Setting, Defaults, NotifyOn
      <4>3. p.id = 0 /\ p.seen = Defaults /\ p.body = body
        OBVIOUS
      <4> HIDE DEF p
      <4>. QED BY <3>1, <4>1, <4>2, <4>3
    <3>2. CASE Saved # {}
      <4>1. PICK i \in Saved :
               put' = [put EXCEPT ![h] = [at |-> "write", id |-> i,
                                          seen |-> settings[i], body |-> body]]
        BY <1>2, <3>2 DEF PutCheck
      <4> DEFINE p == [at |-> "write", id |-> i, seen |-> settings[i],
                       body |-> body]
      <4>2. i \in Ids /\ i # 0 /\ i \in 0..MaxPrefCalls
            /\ settings[i] \in Setting \union {Unset}
        BY DEF Saved, Ids, PrefInv, PreferencesTypeOK
      <4>3. p \in Put
        BY <4>2 DEF Put
      <4>. QED BY <4>1, <4>2, <4>3
    <3>. QED BY <3>1, <3>2
  <2>2. /\ settings' = settings /\ mail' = mail /\ note' = note
        /\ overlaps' = overlaps + (IF Overlapping(h) THEN 1 ELSE 0)
        /\ prefCalls < MaxPrefCalls /\ prefCalls' = prefCalls + 1
        /\ put[h].at = "idle"
    BY <1>2 DEF PutCheck
  <2>3. PreferencesTypeOK'
    <3>1. overlaps' \in Nat
      BY <2>2 DEF PrefInv, PreferencesTypeOK
    <3>. QED BY <2>1, <2>2, <3>1 DEF PrefInv, PreferencesTypeOK
  <2>4. RowKept'
    BY <2>1, <2>2 DEF PrefInv, RowKept, Saved, PreferencesTypeOK
  <2>5. \A n \in Notes : OnItsWay(note[n], InForce(settings), mail)'
    BY <2>2 DEF PrefInv
  <2>6. Counted'
    <3> DEFINE s == Cardinality(Saved)
               c == Cardinality(Inserting)
               k == Cardinality(Inserting')
    <3>1. /\ IsFiniteSet(Inserting) /\ s + c <= 1 + overlaps
          /\ overlaps \in Nat
      BY DEF PrefInv, PreferencesTypeOK, Counted
    <3>2. s \in Nat /\ c \in Nat
      BY <3>1, SavedFinite, FS_CardinalityType
    <3>3. Saved' = Saved
      BY <2>2 DEF Saved
    <3>4. Inserting' \subseteq Inserting \union {h} /\ h \notin Inserting
      BY <2>1, <2>2 DEF Inserting
    <3>5. /\ IsFiniteSet(Inserting \union {h})
          /\ Cardinality(Inserting \union {h}) = c + 1
      BY <3>1, <3>4, FS_AddElement
    <3>6. IsFiniteSet(Inserting') /\ k <= c + 1 /\ k \in Nat
      BY <3>4, <3>5, FS_Subset, FS_CardinalityType
    <3>7. CASE Saved # {}
      <4>1. p.id # 0
        BY <2>1, <3>7
      <4>2. Inserting' = Inserting
        BY <2>1, <2>2, <4>1 DEF Inserting, PrefInv, PreferencesTypeOK
      <4>3. overlaps' = overlaps
        BY <2>2, <3>1, <3>7 DEF Overlapping
      <4>. QED BY <3>1, <3>3, <4>2, <4>3 DEF Counted
    <3>8. CASE Saved = {} /\ Overlapping(h)
      <4>1. overlaps' = overlaps + 1
        BY <2>2, <3>8
      <4>2. s + k <= 1 + overlaps'
        <5> HIDE DEF s, c, k
        <5>. QED BY ONLY <3>1, <3>2, <3>6, <4>1
      <4>. QED BY <3>3, <3>6, <4>2 DEF Counted
    <3>9. CASE Saved = {} /\ ~Overlapping(h)
      <4>1. Inserting = {} /\ s = 0
        BY <2>2, <3>9, FS_EmptySet DEF Inserting, Overlapping
      <4>2. c = 0 /\ overlaps' = overlaps
        BY <2>2, <3>1, <3>9, <4>1, FS_EmptySet
      <4>3. s + k <= 1 + overlaps'
        <5> HIDE DEF s, c, k
        <5>. QED BY ONLY <3>1, <3>6, <4>1, <4>2
      <4>. QED BY <3>3, <3>6, <4>3 DEF Counted
    <3>. QED BY <3>7, <3>8, <3>9
  <2>. QED BY <2>3, <2>4, <2>5, <2>6 DEF PrefInv
<1>3. ASSUME NEW h \in PutThreads, PutWrite(h) PROVE PrefInv'
  <2> DEFINE p == put[h]
             id == IF p.id # 0 THEN p.id
                   ELSE CHOOSE i \in Ids : settings[i] = Unset /\
                                           \A k \in 1..(i - 1) : k \in Saved
             old == IF p.id # 0 THEN settings[id] ELSE Defaults
             new == [f \in DOMAIN old |->
                        IF p.body[f] # Unset /\ p.body[f] # p.seen[f]
                        THEN p.body[f] ELSE old[f]]
  <2>1. /\ p.at = "write" /\ settings' = [settings EXCEPT ![id] = new]
        /\ put' = [put EXCEPT ![h] = NoPut]
        /\ overlaps' = overlaps
        /\ Witnessed(settings', mail)
        /\ mail' = mail /\ prefCalls' = prefCalls
    BY <1>3 DEF PutWrite
  <2>2. /\ p \in Put /\ p.body \in Body
        /\ p.id # 0 => p.id \in Saved
    BY <2>1 DEF PrefInv, PreferencesTypeOK, RowKept
  <2>3. old \in Setting
    BY <2>2 DEF PrefInv, PreferencesTypeOK, Saved, Defaults, Setting, NotifyOn
  <2> HIDE DEF p, id, old
  <2>4. new \in Setting
    <3>1. DOMAIN old = {"telegram", "chat", "email", "on"}
      BY <2>3 DEF Setting
    <3>2. /\ old["telegram"] \in BOOLEAN /\ old["chat"] \in BOOLEAN
          /\ old["email"] \in BOOLEAN /\ old["on"] \in NotifyOn
      BY <2>3 DEF Setting
    <3>3. /\ p.body["telegram"] \in BOOLEAN \union {Unset}
          /\ p.body["chat"] \in BOOLEAN \union {Unset}
          /\ p.body["email"] \in BOOLEAN \union {Unset}
          /\ p.body["on"] \in NotifyOn \union {Unset}
      BY <2>2 DEF Body
    <3>4. /\ new["telegram"] \in BOOLEAN /\ new["chat"] \in BOOLEAN
          /\ new["email"] \in BOOLEAN /\ new["on"] \in NotifyOn
      BY <3>1, <3>2, <3>3
    <3>5. new = [telegram |-> new["telegram"], chat |-> new["chat"],
                 email |-> new["email"], on |-> new["on"]]
      BY <3>1
    <3>. QED BY <3>4, <3>5 DEF Setting
  <2> HIDE DEF new
  <2>5. settings' \in [Ids -> Setting \union {Unset}]
    BY <2>1, <2>4 DEF PrefInv, PreferencesTypeOK
  <2>6. /\ note' \in [Notes -> Note]
        /\ \A n \in Notes : OnItsWay(note'[n], InForce(settings'), mail)
    <3>1. mail \in BOOLEAN
      BY DEF PrefInv, PreferencesTypeOK
    <3>. QED BY <2>1, <2>5, <3>1, NotesWitness
  <2>7. PreferencesTypeOK'
    <3>1. NoPut \in Put
      BY DEF NoPut, Put
    <3>2. overlaps' \in Nat /\ put' \in [PutThreads -> Put]
      BY <2>1, <3>1 DEF PrefInv, PreferencesTypeOK
    <3>. QED BY <2>1, <2>5, <2>6, <3>2 DEF PrefInv, PreferencesTypeOK
  <2>8. Saved \subseteq Saved' /\ Saved' \subseteq Saved \union {id}
    BY <2>1, <2>4 DEF Saved, PrefInv, PreferencesTypeOK
  <2>9. RowKept'
    <3>1. \A g \in PutThreads \ {h} : put'[g] = put[g]
      BY <2>1
    <3>2. put'[h].at = "idle"
      BY <2>1 DEF PrefInv, PreferencesTypeOK, NoPut
    <3>. QED BY <2>8, <3>1, <3>2 DEF PrefInv, RowKept
  <2>10. Counted'
    <3> DEFINE s == Cardinality(Saved)
               t == Cardinality(Saved')
               c == Cardinality(Inserting)
               k == Cardinality(Inserting')
    <3>1. /\ IsFiniteSet(Inserting) /\ s + c <= 1 + overlaps
          /\ overlaps \in Nat
      BY DEF PrefInv, PreferencesTypeOK, Counted
    <3>2. /\ IsFiniteSet(Saved) /\ s \in Nat /\ c \in Nat
      BY <3>1, SavedFinite, FS_CardinalityType
    <3>3. Inserting' = Inserting \ {h}
      BY <2>1 DEF Inserting, NoPut, PrefInv, PreferencesTypeOK
    <3>4. CASE p.id # 0
      <4>1. Saved' = Saved
        BY <2>2, <2>8, <3>4 DEF id
      <4>2. Inserting' = Inserting
        BY <3>3, <3>4 DEF Inserting, p
      <4>. QED BY <2>1, <3>1, <4>1, <4>2 DEF Counted
    <3>5. CASE p.id = 0
      <4>1. h \in Inserting
        BY <2>1, <3>5 DEF Inserting, p
      <4>2. IsFiniteSet(Inserting') /\ k = c - 1
        BY <3>1, <3>3, <4>1, FS_RemoveElement
      <4>3. /\ IsFiniteSet(Saved \union {id})
            /\ Cardinality(Saved \union {id}) \in Nat
            /\ Cardinality(Saved \union {id}) <= s + 1
        <5>1. CASE id \in Saved
          <6>1. Saved \union {id} = Saved
            BY <5>1
          <6>2. s <= s + 1
            <7> HIDE DEF s
            <7>. QED BY <3>2
          <6>. QED BY <3>2, <6>1, <6>2
        <5>2. CASE id \notin Saved
          <6>1. /\ IsFiniteSet(Saved \union {id})
                /\ Cardinality(Saved \union {id}) = s + 1
            BY <3>2, <5>2, FS_AddElement
          <6>2. s + 1 \in Nat /\ s + 1 <= s + 1
            <7> HIDE DEF s
            <7>. QED BY <3>2
          <6>. QED BY <6>1, <6>2
        <5>. QED BY <5>1, <5>2
      <4>4. t \in Nat /\ t <= Cardinality(Saved \union {id})
        BY <2>8, <4>3, FS_Subset, FS_CardinalityType
      <4>5. t + k <= 1 + overlaps
        <5> DEFINE u == Cardinality(Saved \union {id})
        <5> HIDE DEF s, t, c, k, u
        <5>1. u \in Nat /\ u <= s + 1 /\ t <= u
          BY <4>3, <4>4 DEF u
        <5>. QED BY ONLY <3>1, <3>2, <4>2, <4>4, <5>1
      <4>. QED BY <2>1, <4>2, <4>5 DEF Counted
    <3>. QED BY <3>4, <3>5
  <2>. QED BY <2>1, <2>6, <2>7, <2>9, <2>10 DEF PrefInv
<1>4. ASSUME NEW n \in Notes, NEW outcome \in Outcomes, RunEnds(n, outcome)
      PROVE  PrefInv'
  <2> DEFINE m == [NoNote EXCEPT !.at = "row", !.outcome = outcome,
                      !.rows = InForce(settings), !.mails = {mail}]
  <2>1. /\ note' = [note EXCEPT ![n] = m]
        /\ UNCHANGED <<settings, mail, put, prefCalls, overlaps>>
    BY <1>4 DEF RunEnds
  <2>2. InForce(settings) \subseteq Setting /\ mail \in BOOLEAN
    BY RowsInForce DEF PrefInv, PreferencesTypeOK
  <2>3. /\ NoNote \in Note /\ NoNote.row = Unset /\ NoNote.sent = {}
        /\ NoNote.mail \in BOOLEAN
    BY DEF NoNote, Note
  <2>4. /\ m \in Note
        /\ m.at = "row" /\ m.row = Unset /\ m.sent = {}
        /\ m.rows = InForce(settings) /\ m.mails = {mail}
    BY <2>2, <2>3 DEF Note
  <2>5. OnItsWay(m, InForce(settings), mail)
    BY <2>4 DEF OnItsWay
  <2> HIDE DEF m
  <2>. QED BY <2>1, <2>4, <2>5, OneNoteMoves
<1>5. ASSUME NEW n \in Notes, NoteRow(n) PROVE PrefInv'
  <2>1. note[n] \in Note /\ OnItsWay(note[n], InForce(settings), mail)
    BY DEF PrefInv, PreferencesTypeOK
  <2>2. note[n].at = "row" /\ UNCHANGED <<settings, mail, put, prefCalls, overlaps>>
    BY <1>5 DEF NoteRow
  <2>3. ASSUME NEW i \in Saved,
               note' = [note EXCEPT ![n].at = "mail", ![n].row = settings[i]]
        PROVE  PrefInv'
    <3> DEFINE m == [note[n] EXCEPT !.at = "mail", !.row = settings[i]]
    <3>1. settings[i] \in InForce(settings) /\ settings[i] \in Setting \union {Unset}
      BY DEF Saved, InForce, PrefInv, PreferencesTypeOK
    <3>2. note' = [note EXCEPT ![n] = m]
      BY <2>3
    <3>3. m \in Note
      BY <2>1, <3>1 DEF Note
    <3>4. /\ m.at = "mail" /\ m.row = settings[i] /\ m.sent = note[n].sent
          /\ m.rows = note[n].rows /\ m.mails = note[n].mails
      BY <2>1 DEF Note
    <3>5. OnItsWay(m, InForce(settings), mail)
      BY <2>1, <2>2, <3>1, <3>4 DEF OnItsWay
    <3> HIDE DEF m
    <3>. QED BY <2>2, <3>2, <3>3, <3>5, OneNoteMoves
  <2>4. ASSUME note' = [note EXCEPT ![n].at = "done"] PROVE PrefInv'
    <3> DEFINE m == [note[n] EXCEPT !.at = "done"]
    <3>1. note' = [note EXCEPT ![n] = m]
      BY <2>4
    <3>2. m \in Note
      BY <2>1 DEF Note
    <3>3. /\ m.at = "done" /\ m.row = note[n].row /\ m.sent = note[n].sent
      BY <2>1 DEF Note
    <3>4. OnItsWay(m, InForce(settings), mail)
      BY <2>1, <2>2, <3>3 DEF OnItsWay, Asked
    <3> HIDE DEF m
    <3>. QED BY <2>2, <3>1, <3>2, <3>4, OneNoteMoves
  <2>. QED BY <1>5, <2>3, <2>4 DEF NoteRow
<1>6. ASSUME NEW n \in Notes, NoteMail(n) PROVE PrefInv'
  <2> DEFINE m == [note[n] EXCEPT !.at = "send", !.mail = mail]
  <2>1. note[n] \in Note /\ OnItsWay(note[n], InForce(settings), mail)
    BY DEF PrefInv, PreferencesTypeOK
  <2>2. /\ note' = [note EXCEPT ![n] = m] /\ note[n].at = "mail"
        /\ UNCHANGED <<settings, mail, put, prefCalls, overlaps>>
    BY <1>6 DEF NoteMail
  <2>3. mail \in BOOLEAN
    BY DEF PrefInv, PreferencesTypeOK
  <2>4. m \in Note
    BY <2>1, <2>3 DEF Note
  <2>5. /\ m.at = "send" /\ m.row = note[n].row /\ m.sent = note[n].sent
        /\ m.rows = note[n].rows /\ m.mails = note[n].mails /\ m.mail = mail
    BY <2>1 DEF Note
  <2>6. OnItsWay(m, InForce(settings), mail)
    BY <2>1, <2>2, <2>5 DEF OnItsWay
  <2> HIDE DEF m
  <2>. QED BY <2>2, <2>4, <2>6, OneNoteMoves
<1>7. ASSUME NEW n \in Notes, NoteSend(n) PROVE PrefInv'
  <2> DEFINE old == note[n]
             sent == IF Silent(old.row, old.outcome) THEN {}
                     ELSE {c \in {"telegram", "email"} :
                             \/ c = "telegram" /\ old.row.telegram /\ old.row.chat
                             \/ c = "email" /\ old.row.email /\ old.mail}
             m == [old EXCEPT !.at = "done", !.sent = sent]
  <2>1. old \in Note /\ OnItsWay(old, InForce(settings), mail)
    BY DEF PrefInv, PreferencesTypeOK
  <2>2. /\ note' = [note EXCEPT ![n] = m] /\ old.at = "send"
        /\ UNCHANGED <<settings, mail, put, prefCalls, overlaps>>
    BY <1>7 DEF NoteSend
  <2>3. sent \in SUBSET {"telegram", "email"}
    OBVIOUS
  <2>4. /\ old.row \in old.rows /\ old.mail \in old.mails
        /\ old.row \in Setting /\ old.mail \in BOOLEAN
    BY <2>1, <2>2 DEF OnItsWay, Note
  <2>5. /\ "telegram" \in sent <=>
              ~Silent(old.row, old.outcome) /\ old.row.telegram /\ old.row.chat
        /\ "email" \in sent <=>
              ~Silent(old.row, old.outcome) /\ old.row.email /\ old.mail
    OBVIOUS
  <2>6. ~Silent(old.row, old.outcome) <=>
           [failure_only |-> old.outcome = "failure",
            always |-> TRUE, never |-> FALSE][old.row.on]
    <3>1. old.row.on \in {"failure_only", "always", "never"}
      BY <2>4 DEF Setting, NotifyOn
    <3> DEFINE w == [failure_only |-> old.outcome = "failure",
                     always |-> TRUE, never |-> FALSE]
    <3>2. /\ w["failure_only"] <=> old.outcome = "failure"
          /\ w["always"] /\ ~w["never"]
      BY Zenon
    <3> HIDE DEF w
    <3>3. ~Silent(old.row, old.outcome) <=> w[old.row.on]
      <4>1. CASE old.row.on = "never"
        BY <3>2, <4>1 DEF Silent
      <4>2. CASE old.row.on = "always"
        BY <3>2, <4>2 DEF Silent
      <4>3. CASE old.row.on = "failure_only"
        BY <3>2, <4>3 DEF Silent
      <4>. QED BY <3>1, <4>1, <4>2, <4>3
    <3>. QED BY <3>3 DEF w
  <2> HIDE DEF sent
  <2>7. m \in Note
    BY <2>1, <2>3 DEF Note
  <2>8. /\ m.at = "done" /\ m.sent = sent /\ m.rows = old.rows
        /\ m.mails = old.mails /\ m.outcome = old.outcome
    BY <2>1 DEF Note
  <2> HIDE DEF m, old
  <2>9. OnItsWay(m, InForce(settings), mail)
    <3>1. Asked(m)
      BY <2>4, <2>5, <2>6, <2>8 DEF Asked
    <3>. QED BY <2>8, <3>1 DEF OnItsWay
  <2>. QED BY <2>2, <2>7, <2>9, OneNoteMoves
<1>8. CASE UNCHANGED prefVars
  <2>1. /\ settings' = settings /\ mail' = mail /\ put' = put /\ note' = note
        /\ prefCalls' = prefCalls /\ overlaps' = overlaps
    BY <1>8 DEF prefVars
  <2>. QED BY <2>1 DEF PrefInv, PreferencesTypeOK, RowKept, Counted, Inserting, Saved
<1>. QED
  BY <1>1, <1>2, <1>3, <1>4, <1>5, <1>6, <1>7, <1>8 DEF PreferencesNext

LEMMA PrefInvHolds == PreferencesSpec => []PrefInv
  BY PrefInitHolds, PrefStep, PTL DEF PreferencesSpec

\* Without an index on the table, the settings of a user have at most one row
\* more than the requests that began while another was about to insert the
\* first one: a request that meets no such race makes no second row.
THEOREM OneRowHolds == PreferencesSpec => []OneRow
<1>1. ASSUME PrefInv PROVE OneRow
  <2> DEFINE s == Cardinality(Saved)
             c == Cardinality(Inserting)
  <2>1. /\ IsFiniteSet(Inserting) /\ s + c <= 1 + overlaps /\ overlaps \in Nat
    BY <1>1 DEF PrefInv, PreferencesTypeOK, Counted
  <2>2. s \in Nat /\ c \in Nat
    BY <2>1, SavedFinite, FS_CardinalityType
  <2> HIDE DEF s, c
  <2>3. s <= 1 + overlaps
    BY ONLY <2>1, <2>2
  <2>. QED BY <2>3 DEF OneRow, s
<1>. QED BY PrefInvHolds, <1>1, PTL

\* Every notification asks for what one row and one address that were in force
\* after its run had ended ask for, whatever requests its reads met.
THEOREM SentHolds == PreferencesSpec => []SentAsAsked
<1>1. PrefInv => SentAsAsked
  BY DEF PrefInv, OnItsWay, Asked, SentAsAsked
<1>. QED BY PrefInvHolds, <1>1, PTL

-----------------------------------------------------------------------------
(* The rate limiter.  Every request let through in the window shortened by *)
(* MaxWait still has its timestamp in the store, and under another number; *)
(* so those timestamps count the requests.                                 *)

Span == Window - MaxWait

\* The requests that RateBound counts, for the window that ends at end.
Passed(key, end) ==
    {a \in accepted : a.key = key /\ a.at \in (end - Span + 1)..end}

StoredFor(key) == {r \in store : r.key = key}

\* A request has waited no longer than MaxWait, under a number of its own.
WaitsItsTurn ==
    /\ \A c \in Clients : \A r \in waiting[c] :
          /\ r.stamp \in (clock - MaxWait)..clock
          /\ r.id <= attempts
          /\ \A a \in accepted : a.id # r.id
    /\ \A c, d \in Clients : \A r \in waiting[c], q \in waiting[d] :
          c # d => r.id # q.id

\* Requests let through have numbers of their own, and the recent ones their
\* timestamps.
Numbered ==
    /\ \A a \in accepted : a.at <= clock /\ a.id <= attempts
    /\ \A a, b \in accepted : a.id = b.id => a = b

StampKept(a) ==
    \E r \in store : r.id = a.id /\ r.key = a.key /\ r.stamp >= a.at - MaxWait
Remembered == \A a \in accepted : a.at > clock - Span => StampKept(a)

RateInv ==
    /\ LimiterTypeOK
    /\ IsFiniteSet(store) /\ IsFiniteSet(accepted)
    /\ WaitsItsTurn
    /\ Numbered
    /\ Remembered
    /\ \A key \in Keys :
          /\ Cardinality(StoredFor(key)) <= Limit[key]
          /\ \A end \in 0..clock : Cardinality(Passed(key, end)) <= Limit[key]

LEMMA LimiterNumbers ==
    /\ \A key \in Keys : Limit[key] \in Nat
    /\ MaxWait \in Nat /\ Window \in Nat /\ Span \in Nat
    /\ MaxClock \in Nat /\ MaxAttempts \in Nat
  BY LimiterAssumption DEF Span

LEMMA RateInitHolds == LimiterInit => RateInv
<1>. SUFFICES ASSUME LimiterInit PROVE RateInv
  OBVIOUS
<1>1. LimiterTypeOK
  BY LimiterNumbers DEF LimiterInit, LimiterTypeOK
<1>2. IsFiniteSet(store) /\ IsFiniteSet(accepted)
  BY FS_EmptySet DEF LimiterInit
<1>3. ASSUME NEW key \in Keys
      PROVE  /\ Cardinality(StoredFor(key)) <= Limit[key]
             /\ \A end \in 0..clock : Cardinality(Passed(key, end)) <= Limit[key]
  <2>1. StoredFor(key) = {} /\ \A end : Passed(key, end) = {}
    BY DEF LimiterInit, StoredFor, Passed
  <2>2. Cardinality({}) = 0
    BY ONLY FS_EmptySet
  <2>3. Limit[key] \in Nat
    BY LimiterNumbers
  <2>. QED BY ONLY <2>1, <2>2, <2>3
<1>4. WaitsItsTurn /\ Numbered /\ Remembered
  BY DEF LimiterInit, WaitsItsTurn, Numbered, Remembered
<1>. QED BY <1>1, <1>2, <1>3, <1>4 DEF RateInv

\* The timestamps that the clean-up leaves count the requests of the window
\* that ends now.
LEMMA StampsCount ==
    ASSUME RateInv, NEW key \in Keys
    PROVE  /\ Cardinality(Passed(key, clock)) <= Count(key)
           /\ IsFiniteSet(Passed(key, clock))
<1> DEFINE S == Passed(key, clock)
           T == {r \in Cleaned(key) : r.key = key}
           f == [a \in S |-> CHOOSE r \in store :
                    /\ r.id = a.id /\ r.key = a.key
                    /\ r.stamp >= a.at - MaxWait]
<1>1. clock \in Nat /\ store \subseteq Attempt /\ accepted \subseteq Accepted
  BY LimiterNumbers DEF RateInv, LimiterTypeOK
<1>2. IsFiniteSet(T)
  BY FS_Subset DEF RateInv, Cleaned
<1>3. ASSUME NEW a \in S
      PROVE  f[a] \in T /\ f[a].id = a.id
  <2>1. /\ a \in accepted /\ a.key = key /\ a.at \in Nat
        /\ a.at > clock - Span
    BY <1>1, LimiterNumbers DEF Passed, Accepted
  <2>2. \E r \in store :
           r.id = a.id /\ r.key = a.key /\ r.stamp >= a.at - MaxWait
    BY <2>1 DEF RateInv, Remembered, StampKept
  <2>3. /\ f[a] \in store /\ f[a].id = a.id /\ f[a].key = a.key
        /\ f[a].stamp >= a.at - MaxWait
    BY <2>2
  <2>4. f[a].stamp \in Nat
    BY <1>1, <2>3, LimiterNumbers DEF Attempt
  <2>5. f[a].stamp > clock - Window
    BY <1>1, <2>1, <2>3, <2>4, LimiterNumbers DEF Span
  <2>. QED BY <2>1, <2>3, <2>5 DEF Cleaned
<1> HIDE DEF T
<1>4. f \in [S -> T]
  BY <1>3
<1> HIDE DEF f
<1>5. ASSUME NEW a \in S, NEW b \in S, f[a] = f[b] PROVE a = b
  <2>1. a \in accepted /\ b \in accepted
    BY DEF Passed
  <2>2. a.id = b.id
    BY <1>3, <1>5
  <2>. QED BY <2>1, <2>2 DEF RateInv, Numbered
<1> HIDE DEF S
<1>6. f \in Injection(S, T)
  BY <1>4, <1>5 DEF Injection, IsInjective
<1>7. IsFiniteSet(S) /\ Cardinality(S) <= Cardinality(T)
  BY <1>2, <1>6, FS_Injection
<1>. QED BY <1>7 DEF Count, S, T

LEMMA RateStep ==
    ASSUME RateInv, [LimiterNext]_limiterVars
    PROVE  RateInv'
<1>0. /\ clock \in Nat /\ attempts \in Nat
      /\ clock \in 0..MaxClock /\ attempts \in 0..MaxAttempts
      /\ waiting \in [Clients -> SUBSET Attempt]
      /\ store \subseteq Attempt /\ accepted \subseteq Accepted
  BY LimiterNumbers DEF RateInv, LimiterTypeOK
<1>1. ASSUME NEW c \in Clients, NEW key \in Keys, Arrive(c, key) PROVE RateInv'
  <2> DEFINE r == [id |-> attempts + 1, key |-> key, stamp |-> clock]
  <2>1. /\ attempts < MaxAttempts /\ attempts' = attempts + 1
        /\ waiting' = [waiting EXCEPT ![c] = {r}]
        /\ clock' = clock /\ store' = store /\ accepted' = accepted
    BY <1>1 DEF Arrive
  <2>2. r \in Attempt /\ r.id = attempts + 1 /\ r.stamp = clock
    BY <1>0, <2>1, LimiterNumbers DEF Attempt
  <2> HIDE DEF r
  <2>3. LimiterTypeOK'
    <3>1. waiting' \in [Clients -> SUBSET Attempt]
      BY <1>0, <2>1, <2>2
    <3>2. attempts' \in 0..MaxAttempts
      BY <1>0, <2>1, LimiterNumbers
    <3>. QED BY <1>0, <2>1, <3>1, <3>2 DEF LimiterTypeOK
  <2>4. WaitsItsTurn'
    <3>1. \A d \in Clients : \A q \in waiting'[d] :
             \/ d = c /\ q = r
             \/ d # c /\ q \in waiting[d]
      BY <1>0, <2>1
    <3>2. \A d \in Clients : \A q \in waiting[d] :
             /\ q.stamp \in (clock - MaxWait)..clock
             /\ q.id \in Nat /\ q.id <= attempts
             /\ \A a \in accepted : a.id # q.id
      BY <1>0 DEF RateInv, WaitsItsTurn, Attempt
    <3>3. \A a \in accepted : a.id \in Nat /\ a.id <= attempts
      BY <1>0 DEF RateInv, Numbered, Accepted
    <3>4. ASSUME NEW d \in Clients, NEW q \in waiting'[d]
          PROVE  /\ q.stamp \in (clock - MaxWait)..clock
                 /\ q.id <= attempts + 1
                 /\ \A a \in accepted : a.id # q.id
      <4>1. CASE d = c /\ q = r
        BY <1>0, <2>2, <3>3, <4>1, LimiterNumbers
      <4>2. CASE d # c /\ q \in waiting[d]
        BY <1>0, <3>2, <4>2
      <4>. QED BY <3>1, <4>1, <4>2
    <3>5. ASSUME NEW d \in Clients, NEW e \in Clients, d # e,
                 NEW q \in waiting'[d], NEW p \in waiting'[e]
          PROVE  q.id # p.id
      <4>1. CASE d = c
        BY <1>0, <2>2, <3>1, <3>2, <3>5, <4>1
      <4>2. CASE e = c
        BY <1>0, <2>2, <3>1, <3>2, <3>5, <4>2
      <4>3. CASE d # c /\ e # c
        BY <3>1, <3>5, <4>3 DEF RateInv, WaitsItsTurn
      <4>. QED BY <4>1, <4>2, <4>3
    <3>. QED BY <2>1, <3>4, <3>5 DEF WaitsItsTurn
  <2>5. Numbered'
    <3>1. \A a \in accepted : a.id \in Nat
      BY <1>0 DEF Accepted
    <3>. QED BY <1>0, <2>1, <3>1 DEF RateInv, Numbered
  <2>6. Remembered'
    BY <2>1 DEF RateInv, Remembered, StampKept
  <2>7. \A k \in Keys :
           /\ StoredFor(k)' = StoredFor(k)
           /\ \A end : Passed(k, end)' = Passed(k, end)
    BY <2>1 DEF StoredFor, Passed
  <2>. QED BY <2>1, <2>3, <2>4, <2>5, <2>6, <2>7 DEF RateInv
<1>2. ASSUME NEW c \in Clients, NEW r \in waiting[c], Decide(c, r) PROVE RateInv'
  <2> DEFINE key == r.key
             new == [id |-> r.id, key |-> r.key, at |-> clock]
  <2>1. /\ waiting' = [waiting EXCEPT ![c] = {}]
        /\ clock' = clock /\ attempts' = attempts
    BY <1>2 DEF Decide
  <2>2. \/ /\ Count(key) >= Limit[key]
           /\ store' = Cleaned(key) /\ accepted' = accepted
        \/ /\ ~(Count(key) >= Limit[key])
           /\ store' = Cleaned(key) \union {r}
           /\ accepted' = accepted \union {new}
    BY <1>2 DEF Decide
  <2>3. r \in Attempt /\ key \in Keys /\ r.id \in Nat /\ r.stamp \in Nat
    BY <1>0, LimiterNumbers DEF Attempt
  <2>4. /\ r.stamp \in (clock - MaxWait)..clock /\ r.id <= attempts
        /\ \A a \in accepted : a.id # r.id
    BY DEF RateInv, WaitsItsTurn
  <2>5. new \in Accepted /\ new.id = r.id /\ new.key = key /\ new.at = clock
    BY <1>0, <2>3 DEF Accepted, Attempt
  <2> HIDE DEF new
  <2>6. /\ Cleaned(key) \subseteq store /\ IsFiniteSet(Cleaned(key))
        /\ \A q \in store \ Cleaned(key) :
              q.key = key /\ ~(q.stamp > clock - Window)
    BY FS_Subset DEF Cleaned, RateInv
  <2>7. /\ store' \subseteq Cleaned(key) \union {r} /\ Cleaned(key) \subseteq store'
        /\ accepted \subseteq accepted' /\ accepted' \subseteq accepted \union {new}
        /\ new \in accepted' \ accepted => r \in store'
    BY <2>2
  <2>8. LimiterTypeOK'
    <3>1. waiting' \in [Clients -> SUBSET Attempt]
      BY <1>0, <2>1
    <3>. QED BY <1>0, <2>1, <2>3, <2>5, <2>6, <2>7, <3>1 DEF LimiterTypeOK
  <2>9. IsFiniteSet(store') /\ IsFiniteSet(accepted')
    BY <2>2, <2>6, FS_AddElement DEF RateInv
  <2>10. WaitsItsTurn'
    <3>1. \A d \in Clients : \A q \in waiting'[d] : d # c /\ q \in waiting[d]
      BY <1>0, <2>1
    <3>2. \A d \in Clients \ {c} : \A q \in waiting[d] : q.id # r.id
      BY DEF RateInv, WaitsItsTurn
    <3>3. \A d \in Clients : \A q \in waiting'[d] :
             /\ q.stamp \in (clock - MaxWait)..clock
             /\ q.id <= attempts
             /\ \A a \in accepted : a.id # q.id
             /\ q.id # r.id
      BY <3>1, <3>2 DEF RateInv, WaitsItsTurn
    <3>4. \A d, e \in Clients : \A q \in waiting'[d], p \in waiting'[e] :
             d # e => q.id # p.id
      BY <3>1 DEF RateInv, WaitsItsTurn
    <3>. QED BY <2>1, <2>5, <2>7, <3>3, <3>4 DEF WaitsItsTurn
  <2>11. Numbered'
    <3>1. \A a \in accepted' :
             \/ a \in accepted /\ a.id # r.id
             \/ a = new
      BY <2>4, <2>7
    <3>2. \A a \in accepted' : a.at <= clock /\ a.id <= attempts
      BY <1>0, <2>4, <2>5, <3>1 DEF RateInv, Numbered
    <3>3. \A a, b \in accepted' : a.id = b.id => a = b
      BY <2>5, <3>1 DEF RateInv, Numbered
    <3>. QED BY <2>1, <3>2, <3>3 DEF Numbered
  <2>12. Remembered'
    <3>1. ASSUME NEW a \in accepted', a.at > clock - Span
          PROVE  \E q \in store' :
                    q.id = a.id /\ q.key = a.key /\ q.stamp >= a.at - MaxWait
      <4>1. CASE a \in accepted
        <5>1. PICK q \in store :
                 q.id = a.id /\ q.key = a.key /\ q.stamp >= a.at - MaxWait
          BY <3>1, <4>1 DEF RateInv, Remembered, StampKept
        <5>2. a.at \in Nat /\ q.stamp \in Nat
          BY <1>0, <4>1, <5>1, LimiterNumbers DEF Accepted, Attempt
        <5>3. q.stamp > clock - Window
          BY <1>0, <3>1, <5>1, <5>2, LimiterNumbers DEF Span
        <5>4. q \in store'
          BY <2>6, <2>7, <5>3
        <5>. QED BY <5>1, <5>4
      <4>2. CASE a \notin accepted
        <5>1. a = new /\ r \in store'
          BY <2>7, <4>2
        <5>. QED BY <1>0, <2>3, <2>4, <2>5, <5>1, LimiterNumbers
      <4>. QED BY <4>1, <4>2
    <3>. QED BY <2>1, <3>1 DEF Remembered, StampKept
  <2>13. ASSUME NEW k \in Keys
         PROVE  Cardinality(StoredFor(k)') <= Limit[k]
    <3> DEFINE old == {q \in Cleaned(key) : q.key = k}
    <3>1. IsFiniteSet(StoredFor(k)) /\ Cardinality(StoredFor(k)) <= Limit[k]
      BY FS_Subset DEF RateInv, StoredFor
    <3>2. old \in SUBSET StoredFor(k)
      BY <2>6 DEF StoredFor
    <3>3. /\ IsFiniteSet(old) /\ Cardinality(old) <= Limit[k]
          /\ Cardinality(old) \in Nat
      <4>1. IsFiniteSet(old) /\ Cardinality(old) <= Cardinality(StoredFor(k))
        BY <3>1, <3>2, FS_Subset
      <4>2. Cardinality(old) \in Nat /\ Cardinality(StoredFor(k)) \in Nat
        BY <3>1, <4>1, FS_CardinalityType
      <4>. QED BY <3>1, <4>1, <4>2, LimiterNumbers
    <3>4. CASE accepted' = accepted /\ store' = Cleaned(key)
      <4>1. StoredFor(k)' = old
        BY <3>4 DEF StoredFor
      <4>. QED BY <3>3, <4>1
    <3>5. CASE /\ ~(Count(key) >= Limit[key])
               /\ store' = Cleaned(key) \union {r}
      <4>1. CASE k = key
        <5>1. StoredFor(k)' = old \union {r}
          BY <3>5, <4>1 DEF StoredFor
        <5>2. Cardinality(old) < Limit[k]
          BY <3>3, <3>5, <4>1, LimiterNumbers DEF Count
        <5>3. Cardinality(old \union {r}) <= Cardinality(old) + 1
          <6>1. Cardinality(old \union {r}) =
                   IF r \in old THEN Cardinality(old) ELSE Cardinality(old) + 1
            BY <3>3, FS_AddElement
          <6>. QED BY <3>3, <6>1
        <5>4. Cardinality(old \union {r}) \in Nat
          BY <3>3, FS_AddElement, FS_CardinalityType
        <5>. QED BY <3>3, <5>1, <5>2, <5>3, <5>4, LimiterNumbers
      <4>2. CASE k # key
        <5>1. StoredFor(k)' = old
          BY <3>5, <4>2 DEF StoredFor
        <5>. QED BY <3>3, <5>1
      <4>. QED BY <4>1, <4>2
    <3>. QED BY <2>2, <3>4, <3>5
  <2>14. ASSUME NEW k \in Keys, NEW end \in 0..clock
         PROVE  Cardinality(Passed(k, end)') <= Limit[k]
    <3>1. Cardinality(Passed(k, end)) <= Limit[k]
      BY DEF RateInv
    <3>2. Passed(k, end)' = {a \in accepted' :
                                a.key = k /\ a.at \in (end - Span + 1)..end}
      BY DEF Passed, Span
    <3>3. CASE accepted' = accepted \/ end # clock \/ k # key
      <4>1. accepted' = accepted \/ accepted' = accepted \union {new}
        BY <2>2
      <4>2. CASE accepted' = accepted
        BY <3>1, <3>2, <4>2 DEF Passed
      <4>3. CASE accepted' = accepted \union {new} /\ (end # clock \/ k # key)
        <5>1. ~(new.key = k /\ new.at \in (end - Span + 1)..end)
          BY <1>0, <2>5, <4>3, LimiterNumbers
        <5>2. Passed(k, end)' = Passed(k, end)
          BY <3>2, <4>3, <5>1 DEF Passed
        <5>. QED BY <3>1, <5>2
      <4>. QED BY <3>3, <4>1, <4>2, <4>3
    <3>4. CASE accepted' # accepted /\ end = clock /\ k = key
      <4> DEFINE W == Passed(k, clock)
      <4>1. /\ ~(Count(key) >= Limit[key]) /\ accepted' = accepted \union {new}
        BY <2>2, <3>4
      <4>2. IsFiniteSet(W) /\ Cardinality(W) <= Count(key)
        BY <2>3, <3>4, StampsCount
      <4>3. Cardinality(W) \in Nat /\ Count(key) \in Nat /\ Limit[key] \in Nat
        <5>1. IsFiniteSet({q \in Cleaned(key) : q.key = key})
          BY <2>6, FS_Subset
        <5>. QED BY <2>3, <4>2, <5>1, FS_CardinalityType, LimiterNumbers DEF Count
      <4>4. Cardinality(W) + 1 <= Limit[key]
        BY <4>1, <4>2, <4>3
      <4>5. Passed(k, end)' \in SUBSET (W \union {new})
        BY <3>2, <3>4, <4>1 DEF Passed
      <4>6. /\ IsFiniteSet(W \union {new})
            /\ Cardinality(W \union {new}) <= Cardinality(W) + 1
        <5>1. \/ Cardinality(W \union {new}) = Cardinality(W)
              \/ Cardinality(W \union {new}) = Cardinality(W) + 1
          BY <4>2, FS_AddElement
        <5>2. IsFiniteSet(W \union {new})
          BY <4>2, FS_AddElement
        <5>. QED BY ONLY <4>3, <5>1, <5>2
      <4>7. /\ Cardinality(Passed(k, end)') <= Cardinality(W \union {new})
            /\ IsFiniteSet(Passed(k, end)')
        BY <4>5, <4>6, FS_Subset
      <4>8. /\ Cardinality(Passed(k, end)') \in Nat
            /\ Cardinality(W \union {new}) \in Nat
        BY <4>6, <4>7, FS_CardinalityType
      <4>. QED BY <3>4, <4>3, <4>4, <4>6, <4>7, <4>8
    <3>. QED BY <3>3, <3>4
  <2>. QED BY <2>1, <2>8, <2>9, <2>10, <2>11, <2>12, <2>13, <2>14 DEF RateInv
<1>3. CASE LimiterTick
  <2>1. /\ clock < MaxClock /\ clock' = clock + 1
        /\ \A c \in Clients : \A r \in waiting[c] : clock - r.stamp < MaxWait
        /\ attempts' = attempts /\ waiting' = waiting
        /\ store' = store /\ accepted' = accepted
    BY <1>3 DEF LimiterTick
  <2>2. LimiterTypeOK'
    BY <1>0, <2>1, LimiterNumbers DEF LimiterTypeOK
  <2>3. WaitsItsTurn'
    <3>1. ASSUME NEW c \in Clients, NEW r \in waiting[c]
          PROVE  /\ r.stamp \in (clock' - MaxWait)..clock'
                 /\ r.id <= attempts /\ \A a \in accepted : a.id # r.id
      <4>1. r.stamp \in Nat
        BY <1>0, LimiterNumbers DEF Attempt
      <4>. QED BY <1>0, <2>1, <4>1, LimiterNumbers DEF RateInv, WaitsItsTurn
    <3>. QED BY <2>1, <3>1 DEF RateInv, WaitsItsTurn
  <2>4. Numbered' /\ Remembered'
    <3>1. \A a \in accepted : a.at \in Nat
      BY <1>0, LimiterNumbers DEF Accepted
    <3>2. Numbered'
      BY <1>0, <2>1, <3>1 DEF RateInv, Numbered
    <3>3. \A a \in accepted : a.at > clock' - Span => a.at > clock - Span
      BY <1>0, <2>1, <3>1, LimiterNumbers
    <3>4. Remembered'
      BY <2>1, <3>3 DEF RateInv, Remembered, StampKept
    <3>. QED BY <3>2, <3>4
  <2>5. ASSUME NEW k \in Keys, NEW end \in 0..clock'
        PROVE  Cardinality(Passed(k, end)') <= Limit[k]
    <3>1. Passed(k, end)' = Passed(k, end)
      BY <2>1 DEF Passed, Span
    <3>2. CASE end \in 0..clock
      BY <3>1, <3>2 DEF RateInv
    <3>3. CASE end = clock + 1
      <4>1. Passed(k, end) \in SUBSET Passed(k, clock)
        <5>1. ASSUME NEW a \in Passed(k, end) PROVE a \in Passed(k, clock)
          <6>1. a \in accepted /\ a.key = k /\ a.at \in (end - Span + 1)..end
            BY DEF Passed
          <6>2. a.at \in Nat /\ a.at <= clock
            BY <1>0, <6>1, LimiterNumbers DEF Accepted, RateInv, Numbered
          <6>. QED BY <1>0, <3>3, <6>1, <6>2, LimiterNumbers DEF Passed
        <5>. QED BY <5>1
      <4>2. /\ IsFiniteSet(Passed(k, clock)) /\ IsFiniteSet(Passed(k, end))
            /\ Cardinality(Passed(k, end)) <= Cardinality(Passed(k, clock))
        BY <4>1, StampsCount, FS_Subset
      <4>3. Cardinality(Passed(k, clock)) <= Limit[k]
        BY <1>0 DEF RateInv
      <4>4. /\ Cardinality(Passed(k, end)) \in Nat
            /\ Cardinality(Passed(k, clock)) \in Nat
        BY <4>2, FS_CardinalityType
      <4>. QED BY <3>1, <4>2, <4>3, <4>4, LimiterNumbers
    <3>. QED BY <1>0, <2>1, <3>2, <3>3
  <2>6. \A k \in Keys : StoredFor(k)' = StoredFor(k)
    BY <2>1 DEF StoredFor
  <2>. QED BY <2>1, <2>2, <2>3, <2>4, <2>5, <2>6 DEF RateInv
<1>4. CASE UNCHANGED limiterVars
  <2>1. /\ clock' = clock /\ attempts' = attempts /\ waiting' = waiting
        /\ store' = store /\ accepted' = accepted
    BY <1>4 DEF limiterVars
  <2>2. \A k : StoredFor(k)' = StoredFor(k)
               /\ \A end : Passed(k, end)' = Passed(k, end)
    BY <2>1 DEF StoredFor, Passed
  <2>3. LimiterTypeOK' /\ WaitsItsTurn' /\ Numbered' /\ Remembered'
    BY <2>1 DEF RateInv, LimiterTypeOK, WaitsItsTurn, Numbered, Remembered,
                StampKept
  <2>. QED BY <2>1, <2>2, <2>3 DEF RateInv
<1>. QED BY <1>1, <1>2, <1>3, <1>4 DEF LimiterNext

LEMMA RateInvHolds == LimiterSpec => []RateInv
BY RateInitHolds, RateStep, PTL DEF LimiterSpec

\* No more than Limit requests of a key pass in any window shortened by the
\* longest wait for the lock, and the store never holds more than Limit of
\* their timestamps.
THEOREM RateHolds == LimiterSpec => []RateBound
<1>1. RateInv => RateBound
  BY DEF RateInv, RateBound, Passed, StoredFor, Span
<1>. QED BY <1>1, RateInvHolds, PTL

-----------------------------------------------------------------------------
(* The variables of jobs.  What a request that met no other has found is   *)
(* all the job has: nobody else may add to it until it answers.            *)

\* Ids of jobs come once, and a request is about a job whose id has come.
IdsOnce ==
    /\ envLive \cap envFresh = {}
    /\ \A t \in EnvThreads :
          envCall[t].at # "idle" => envCall[t].job \notin envFresh

\* POST has one name.
OneName ==
    \A t \in EnvThreads : envCall[t].at = "write" =>
        \E k \in EnvKeys : NamesIn(envCall[t].sets) = {k}

Company ==
    \A t, u \in EnvThreads :
        /\ t # u /\ envCall[t].job = envCall[u].job
        /\ envCall[t].at # "idle" /\ envCall[u].at # "idle"
        => ~envCall[t].alone

FoundAll ==
    \A t \in EnvThreads :
        envCall[t].at \in {"lock", "replace"} /\ envCall[t].alone
        => RowsOf(envCall[t].job) \subseteq envCall[t].found

EnvInv == EnvTypeOK /\ IdsOnce /\ OneName /\ Company /\ FoundAll

LEMMA EnvInitHolds == EnvInit => EnvInv
<1>. SUFFICES ASSUME EnvInit PROVE EnvInv
  OBVIOUS
<1>1. Resting \in EnvRequest /\ Resting.at = "idle"
  BY EnvAssumption DEF Resting, EnvRequest, Nothing
<1>2. \A t \in EnvThreads : envCall[t] = Resting
  BY DEF EnvInit
<1>3. secret \in SecretKeys
  BY EnvAssumption DEF EnvInit
<1>4. EnvTypeOK
  BY <1>1, <1>3, EnvAssumption DEF EnvInit, EnvTypeOK
<1>5. envLive \cap envFresh = {}
  BY DEF EnvInit
<1>. QED
  BY <1>1, <1>2, <1>4, <1>5
  DEF EnvInv, IdsOnce, OneName, Company, FoundAll

\* A request begins.
LEMMA EnvBegins ==
    ASSUME EnvInv, NEW t \in EnvThreads, NEW call \in EnvRequest,
           EnvBegin(t, call), call.at # "idle",
           call.at = "write" => \E k \in EnvKeys : NamesIn(call.sets) = {k},
           call.at \in {"lock", "replace"} => RowsOf(call.job) \subseteq call.found
    PROVE  EnvInv'
<1> DEFINE met == {u \in EnvThreads \ {t} :
                      envCall[u].at # "idle" /\ envCall[u].job = call.job}
<1>1. /\ call.job \in envLive /\ envCall[t].at = "idle"
      /\ envCall' = [u \in EnvThreads |->
            IF u = t THEN [call EXCEPT !.alone = (met = {})]
            ELSE [envCall[u] EXCEPT !.alone = @ /\ u \notin met]]
      /\ envTable' = envTable /\ envLive' = envLive /\ envFresh' = envFresh
      /\ secret' = secret
      /\ envCalls < MaxEnvCalls /\ envCalls' = envCalls + 1
  BY DEF EnvBegin, Instant
<1>2. /\ envCall'[t] \in EnvRequest
      /\ envCall'[t].at = call.at /\ envCall'[t].job = call.job
      /\ envCall'[t].sets = call.sets /\ envCall'[t].found = call.found
      /\ envCall'[t].alone <=> met = {}
  <2> DEFINE alone == (met = {})
  <2>1. envCall'[t] = [call EXCEPT !.alone = alone]
    BY <1>1
  <2>2. alone \in BOOLEAN
    OBVIOUS
  <2> HIDE DEF alone
  <2>3. /\ envCall'[t] \in EnvRequest
        /\ envCall'[t].at = call.at /\ envCall'[t].job = call.job
        /\ envCall'[t].sets = call.sets /\ envCall'[t].found = call.found
        /\ envCall'[t].alone = alone
    BY <2>1, <2>2 DEF EnvRequest
  <2>. QED BY <2>3 DEF alone
<1>3. ASSUME NEW u \in EnvThreads, u # t
      PROVE  /\ envCall'[u] \in EnvRequest
             /\ envCall'[u].at = envCall[u].at
             /\ envCall'[u].job = envCall[u].job
             /\ envCall'[u].sets = envCall[u].sets
             /\ envCall'[u].found = envCall[u].found
             /\ envCall'[u].alone <=> envCall[u].alone /\ u \notin met
  <2> DEFINE alone == envCall[u].alone /\ u \notin met
             c == envCall[u]
  <2>1. c \in EnvRequest
    BY DEF EnvInv, EnvTypeOK
  <2>2. alone \in BOOLEAN
    OBVIOUS
  <2>3. envCall'[u] = [c EXCEPT !.alone = alone]
    BY <1>1, <1>3
  <2> HIDE DEF alone, c
  <2>4. /\ envCall'[u] \in EnvRequest
        /\ envCall'[u].at = c.at /\ envCall'[u].job = c.job
        /\ envCall'[u].sets = c.sets /\ envCall'[u].found = c.found
        /\ envCall'[u].alone = alone
    BY ONLY <2>1, <2>2, <2>3 DEF EnvRequest
  <2>. QED BY <2>4 DEF alone, c
<1>4. EnvTypeOK'
  <2>1. envCall' \in [EnvThreads -> EnvRequest]
    <3>1. \A u \in EnvThreads : envCall'[u] \in EnvRequest
      BY <1>2, <1>3
    <3>2. envCall' = [u \in EnvThreads |-> envCall'[u]]
      BY <1>1
    <3>. QED BY <3>1, <3>2
  <2>2. envCalls' \in 0..MaxEnvCalls
    BY <1>1, EnvAssumption DEF EnvInv, EnvTypeOK
  <2>. QED BY <1>1, <2>1, <2>2 DEF EnvInv, EnvTypeOK
<1>5. \A u \in met : u # t
  OBVIOUS
<1>6. IdsOnce'
  BY <1>1, <1>2, <1>3 DEF EnvInv, IdsOnce
<1>7. OneName'
  <2>1. \A u \in EnvThreads : NamesIn(envCall[u].sets)' = NamesIn(envCall'[u].sets)
    BY DEF NamesIn
  <2>. QED BY <1>2, <1>3, <2>1 DEF EnvInv, OneName
<1>8. \A u \in EnvThreads :
         u \in met <=> u # t /\ envCall[u].at # "idle" /\ envCall[u].job = call.job
  OBVIOUS
<1> HIDE DEF met
<1>9. Company'
  <2>1. ASSUME NEW v \in EnvThreads, NEW u \in EnvThreads, v # u,
               envCall'[v].job = envCall'[u].job,
               envCall'[v].at # "idle", envCall'[u].at # "idle"
        PROVE  ~envCall'[v].alone
    <3>1. CASE v = t
      BY <1>2, <1>3, <1>8, <2>1, <3>1
    <3>2. CASE u = t
      BY <1>2, <1>3, <1>8, <2>1, <3>2
    <3>3. CASE v # t /\ u # t
      BY <1>3, <2>1, <3>3 DEF EnvInv, Company
    <3>. QED BY <3>1, <3>2, <3>3
  <2>. QED BY <2>1 DEF Company
<1>10. FoundAll'
  <2>1. ASSUME NEW v \in EnvThreads,
               envCall'[v].at \in {"lock", "replace"}, envCall'[v].alone
        PROVE  RowsOf(envCall'[v].job) \subseteq envCall'[v].found
    <3>1. CASE v = t
      BY <1>2, <2>1, <3>1
    <3>2. CASE v # t
      BY <1>3, <2>1, <3>2 DEF EnvInv, FoundAll
    <3>. QED BY <3>1, <3>2
  <2>2. \A v \in EnvThreads : RowsOf(envCall[v].job)' = RowsOf(envCall'[v].job)
    BY <1>1 DEF RowsOf
  <2>. QED BY <2>1, <2>2 DEF FoundAll
<1>. QED BY <1>4, <1>6, <1>7, <1>9, <1>10 DEF EnvInv

\* A request is answered, having changed the rows of its own job at most.
LEMMA EnvAnswers ==
    ASSUME EnvInv, NEW t \in EnvThreads, envCall[t].at # "idle", EnvAnswer(t),
           envTable' \in [EnvJobs \X EnvKeys -> EnvRow \union {NoRow}],
           \A j \in EnvJobs : j # envCall[t].job => RowsOf(j)' \subseteq RowsOf(j)
    PROVE  EnvInv'
<1>1. /\ envCall' = [envCall EXCEPT ![t] = Resting]
      /\ envLive' = envLive /\ envFresh' = envFresh
      /\ envCalls' = envCalls /\ secret' = secret
  BY DEF EnvAnswer
<1>2. Resting \in EnvRequest /\ Resting.at = "idle"
  BY EnvAssumption DEF Resting, EnvRequest, Nothing
<1>3. EnvTypeOK'
  BY <1>1, <1>2 DEF EnvInv, EnvTypeOK
<1>4. /\ envCall'[t].at = "idle"
      /\ \A u \in EnvThreads \ {t} : envCall'[u] = envCall[u]
  BY <1>1, <1>2 DEF EnvInv, EnvTypeOK
<1>5. IdsOnce' /\ OneName' /\ Company'
  <2>1. IdsOnce'
    BY <1>1, <1>4 DEF EnvInv, IdsOnce
  <2>2. OneName'
    BY <1>4 DEF EnvInv, OneName, NamesIn
  <2>3. Company'
    BY <1>4 DEF EnvInv, Company
  <2>. QED BY <2>1, <2>2, <2>3
<1>6. ASSUME NEW u \in EnvThreads,
             envCall'[u].at \in {"lock", "replace"}, envCall'[u].alone
      PROVE  RowsOf(envCall[u].job)' \subseteq envCall'[u].found
  <2>1. u # t /\ envCall'[u] = envCall[u]
    BY <1>4, <1>6
  <2>2. envCall[u].job # envCall[t].job
    BY <1>6, <2>1 DEF EnvInv, Company
  <2>3. envCall[u].job \in EnvJobs
    BY DEF EnvInv, EnvTypeOK, EnvRequest
  <2>4. RowsOf(envCall[u].job)' \subseteq RowsOf(envCall[u].job)
    <3> DEFINE j == envCall[u].job
    <3>1. j' = j
      BY <2>1
    <3>. QED BY <2>2, <2>3, <3>1 DEF RowsOf
  <2>. QED BY <1>6, <2>1, <2>4 DEF EnvInv, FoundAll
<1>7. FoundAll'
  BY <1>6 DEF FoundAll
<1>. QED BY <1>3, <1>5, <1>7 DEF EnvInv

\* The table changes under the requests, and no job a request is about has
\* more rows than before.
LEMMA EnvShrinks ==
    ASSUME EnvInv, envCall' = envCall, EnvTypeOK',
           envLive' \cap envFresh' = {}, envFresh' \subseteq envFresh,
           \A j \in EnvJobs \ envFresh : RowsOf(j)' \subseteq RowsOf(j)
    PROVE  EnvInv'
<1>1. IdsOnce'
  BY DEF EnvInv, IdsOnce
<1>2. OneName' /\ Company'
  BY DEF EnvInv, OneName, Company, NamesIn
<1>3. ASSUME NEW u \in EnvThreads,
             envCall[u].at \in {"lock", "replace"}, envCall[u].alone
      PROVE  RowsOf(envCall[u].job)' \subseteq envCall[u].found
  <2>1. envCall[u].job \in EnvJobs \ envFresh
    BY <1>3 DEF EnvInv, EnvTypeOK, EnvRequest, IdsOnce
  <2>2. RowsOf(envCall[u].job)' \subseteq RowsOf(envCall[u].job)
    <3> DEFINE j == envCall[u].job
    <3>1. j' = j
      OBVIOUS
    <3>. QED BY <2>1, <3>1 DEF RowsOf
  <2>. QED BY <1>3, <2>2 DEF EnvInv, FoundAll
<1>4. FoundAll'
  BY <1>3 DEF FoundAll
<1>. QED BY <1>1, <1>2, <1>4 DEF EnvInv

LEMMA RowsTyped ==
    ASSUME EnvInv, NEW j \in EnvJobs
    PROVE  RowsOf(j) \in SUBSET (EnvKeys \X Nat)
<1>1. ASSUME NEW k \in EnvKeys, envTable[<<j, k>>] # NoRow
      PROVE  envTable[<<j, k>>].id \in Nat
  <2>1. envTable[<<j, k>>] \in EnvRow
    BY <1>1 DEF EnvInv, EnvTypeOK
  <2>. QED BY <2>1 DEF EnvRow
<1>2. ASSUME NEW r \in RowsOf(j) PROVE r \in EnvKeys \X Nat
  <2>1. PICK k \in EnvKeys :
           envTable[<<j, k>>] # NoRow /\ r = <<k, envTable[<<j, k>>].id>>
    BY DEF RowsOf
  <2>. QED BY <1>1, <2>1
<1>. QED BY <1>2

LEMMA SetLoadStep ==
    ASSUME EnvInv, NEW t \in EnvThreads, NEW j \in EnvJobs, NEW k \in EnvKeys,
           NEW value \in EnvValues, SetLoad(t, j, k, value)
    PROVE  EnvInv'
<1> DEFINE found == {r \in RowsOf(j) : r[1] = k}
           sets == [Nothing EXCEPT ![k] = value]
           call == [Resting EXCEPT !.at = "write", !.id = envCalls + 1, !.job = j,
                       !.sets[k] = value, !.found = found]
<1>1. EnvBegin(t, call)
  BY DEF SetLoad
<1>2. found \in SUBSET (EnvKeys \X Nat)
  BY RowsTyped
<1>3. sets \in [EnvKeys -> EnvValues \union {NoRow}] /\ NamesIn(sets) = {k}
  BY EnvAssumption DEF Nothing, NamesIn
<1>4. Resting \in EnvRequest /\ Resting.sets = Nothing
  BY EnvAssumption DEF Resting, EnvRequest, Nothing
<1>5. envCalls + 1 \in Nat
  BY EnvAssumption DEF EnvInv, EnvTypeOK
<1>6. call = [Resting EXCEPT !.at = "write", !.id = envCalls + 1, !.job = j,
                             !.sets = sets, !.found = found]
  BY <1>4
<1> HIDE DEF found, sets
<1>7. call \in EnvRequest /\ call.at = "write" /\ call.sets = sets
  BY <1>2, <1>3, <1>4, <1>5, <1>6 DEF EnvRequest
<1> HIDE DEF call
<1>. QED BY <1>1, <1>3, <1>7, EnvBegins

LEMMA BulkDeleteStep ==
    ASSUME EnvInv, NEW t \in EnvThreads, NEW j \in EnvJobs,
           NEW sets \in [EnvKeys -> EnvValues \union {NoRow}],
           NEW twice \in BOOLEAN, BulkDelete(t, j, sets, twice)
    PROVE  EnvInv'
<1> DEFINE found == RowsOf(j)
           call == [Resting EXCEPT !.at = "lock", !.id = envCalls + 1, !.job = j,
                       !.sets = sets, !.twice = twice, !.found = found]
<1>1. EnvBegin(t, call)
  BY DEF BulkDelete
<1>2. found \in SUBSET (EnvKeys \X Nat)
  BY RowsTyped
<1>3. Resting \in EnvRequest
  BY EnvAssumption DEF Resting, EnvRequest, Nothing
<1>4. envCalls + 1 \in Nat
  BY EnvAssumption DEF EnvInv, EnvTypeOK
<1> HIDE DEF found
<1>5. /\ call \in EnvRequest /\ call.at = "lock" /\ call.job = j
      /\ call.found = found
  BY <1>2, <1>3, <1>4 DEF EnvRequest
<1> HIDE DEF call
<1>6. RowsOf(call.job) \subseteq call.found
  BY <1>5 DEF found
<1>. QED BY <1>1, <1>5, <1>6, EnvBegins

\* What a POST leaves in the table.
LEMMA SetWrites ==
    ASSUME EnvInv, NEW t \in EnvThreads, SetWrite(t)
    PROVE  /\ envCall[t].at = "write" /\ EnvAnswer(t)
           /\ envTable' \in [EnvJobs \X EnvKeys -> EnvRow \union {NoRow}]
           /\ \/ envTable' = envTable
              \/ \E k \in EnvKeys, id \in Nat :
                    /\ NamesIn(envCall[t].sets) = {k}
                    /\ envTable' = [envTable EXCEPT ![<<envCall[t].job, k>>] =
                                       Encrypt(envCall[t].sets[k], id)]
<1> DEFINE c == envCall[t]
           k == CHOOSE k \in EnvKeys : c.sets[k] # NoRow
           now == {r \in RowsOf(c.job) : r[1] = k}
           old == CHOOSE r \in c.found : TRUE
           id == IF c.found = {} THEN c.id ELSE old[2]
           new == Encrypt(c.sets[k], id)
<1>1. /\ c.at = "write" /\ EnvAnswer(t)
      /\ \/ envTable' = envTable
         \/ envTable' = [envTable EXCEPT ![<<c.job, k>>] = new]
  BY DEF SetWrite
<1>2. /\ c \in EnvRequest /\ c.job \in EnvJobs /\ c.id \in Nat
      /\ c.found \subseteq EnvKeys \X Nat
      /\ c.sets \in [EnvKeys -> EnvValues \union {NoRow}]
  BY DEF EnvInv, EnvTypeOK, EnvRequest
<1>3. \E x \in EnvKeys : NamesIn(c.sets) = {x}
  BY <1>1 DEF EnvInv, OneName
<1> HIDE DEF c
<1>4. k \in EnvKeys /\ NamesIn(c.sets) = {k} /\ c.sets[k] \in EnvValues
  <2>1. \E x \in EnvKeys : c.sets[x] # NoRow
    BY <1>3 DEF NamesIn
  <2>2. k \in EnvKeys /\ c.sets[k] # NoRow
    BY <2>1
  <2> HIDE DEF k
  <2>. QED BY <1>2, <1>3, <2>2 DEF NamesIn
<1>5. id \in Nat
  BY <1>2
<1> HIDE DEF k, id
<1>6. new \in EnvRow
  BY <1>4, <1>5 DEF Encrypt, EnvRow, EnvInv, EnvTypeOK
<1>7. envTable' \in [EnvJobs \X EnvKeys -> EnvRow \union {NoRow}]
  <2>1. envTable \in [EnvJobs \X EnvKeys -> EnvRow \union {NoRow}]
    BY DEF EnvInv, EnvTypeOK
  <2> HIDE DEF new
  <2>. QED BY <1>1, <1>6, <2>1
<1>. QED BY <1>1, <1>4, <1>5, <1>7 DEF c

LEMMA SetWriteStep ==
    ASSUME EnvInv, NEW t \in EnvThreads, SetWrite(t)
    PROVE  EnvInv'
<1>1. /\ envCall[t].at # "idle" /\ EnvAnswer(t)
      /\ envTable' \in [EnvJobs \X EnvKeys -> EnvRow \union {NoRow}]
  BY SetWrites
<1>2. ASSUME NEW j \in EnvJobs, j # envCall[t].job
      PROVE  RowsOf(j)' \subseteq RowsOf(j)
  <2>1. envCall[t].job \in EnvJobs
    BY DEF EnvInv, EnvTypeOK, EnvRequest
  <2>2. \A k \in EnvKeys : envTable'[<<j, k>>] = envTable[<<j, k>>]
    BY <1>2, <2>1, SetWrites DEF EnvInv, EnvTypeOK
  <2>. QED BY <2>2 DEF RowsOf
<1>. QED BY <1>1, <1>2, EnvAnswers

LEMMA BulkLockStep ==
    ASSUME EnvInv, NEW t \in EnvThreads, BulkLock(t)
    PROVE  EnvInv'
<1> DEFINE c == envCall[t]
           found == c.found \cap RowsOf(c.job)
           new == [c EXCEPT !.at = "replace", !.found = found]
<1>1. /\ c.at = "lock" /\ envCall' = [envCall EXCEPT ![t] = new]
      /\ UNCHANGED <<envTable, envLive, envFresh, envCalls, secret>>
  BY DEF BulkLock
<1>2. c \in EnvRequest
  BY DEF EnvInv, EnvTypeOK
<1>3. found \in SUBSET (EnvKeys \X Nat)
  BY <1>2 DEF EnvRequest
<1>4. /\ c.at = "lock"
      /\ c.alone => found = RowsOf(c.job)
  BY <1>1 DEF EnvInv, FoundAll
<1> HIDE DEF found, c
<1>5. /\ new \in EnvRequest /\ new.at = "replace" /\ new.job = c.job
      /\ new.sets = c.sets /\ new.found = found /\ new.alone = c.alone
  BY <1>2, <1>3 DEF EnvRequest
<1> HIDE DEF new
<1>6. /\ envCall'[t] = new
      /\ \A u \in EnvThreads \ {t} : envCall'[u] = envCall[u]
  BY <1>1 DEF EnvInv, EnvTypeOK
<1>7. EnvTypeOK'
  BY <1>1, <1>5 DEF EnvInv, EnvTypeOK
<1>8. IdsOnce'
  BY <1>1, <1>4, <1>5, <1>6 DEF EnvInv, IdsOnce, c
<1>9. OneName'
  BY <1>5, <1>6 DEF EnvInv, OneName, NamesIn
<1>10. Company'
  BY <1>4, <1>5, <1>6 DEF EnvInv, Company, c
<1>11. FoundAll'
  <2>1. \A u \in EnvThreads : RowsOf(envCall[u].job)' = RowsOf(envCall'[u].job)
    BY <1>1 DEF RowsOf
  <2>2. ASSUME NEW u \in EnvThreads,
               envCall'[u].at \in {"lock", "replace"}, envCall'[u].alone
        PROVE  RowsOf(envCall'[u].job) \subseteq envCall'[u].found
    <3>1. CASE u = t
      BY <1>4, <1>5, <1>6, <2>2, <3>1
    <3>2. CASE u # t
      BY <1>6, <2>2, <3>2 DEF EnvInv, FoundAll
    <3>. QED BY <3>1, <3>2
  <2>. QED BY <2>1, <2>2 DEF FoundAll
<1>. QED BY <1>7, <1>8, <1>9, <1>10, <1>11 DEF EnvInv

\* What a PUT leaves in the table: nothing new, or its body, beside the rows
\* it did not find, whose names are not in the body.
LEMMA BulkCommits ==
    ASSUME EnvInv, NEW t \in EnvThreads, BulkCommit(t)
    PROVE  LET c == envCall[t]
               kept == RowsOf(c.job) \ c.found
               names == NamesIn(c.sets)
               clash == c.twice \/ \E r \in kept : r[1] \in names
           IN  /\ c.at = "replace" /\ EnvAnswer(t)
               /\ c \in EnvRequest
               /\ envTable' \in [EnvJobs \X EnvKeys -> EnvRow \union {NoRow}]
               /\ clash \/ c.job \notin envLive => envTable' = envTable
               /\ ~clash /\ c.job \in envLive =>
                     \A j \in EnvJobs, k \in EnvKeys :
                        envTable'[<<j, k>>] =
                          IF j # c.job \/ \E x \in kept : x[1] = k
                          THEN envTable[<<j, k>>]
                          ELSE IF k \in names THEN Encrypt(c.sets[k], c.id)
                          ELSE NoRow
<1> DEFINE c == envCall[t]
           names == NamesIn(c.sets)
           kept == RowsOf(c.job) \ c.found
           clash == c.twice \/ \E r \in kept : r[1] \in names
           new(r) == IF r[1] # c.job \/ \E x \in kept : x[1] = r[2]
                     THEN envTable[r]
                     ELSE IF r[2] \in names THEN Encrypt(c.sets[r[2]], c.id)
                     ELSE NoRow
<1>1. /\ c.at = "replace" /\ EnvAnswer(t)
      /\ envTable' = IF clash \/ c.job \notin envLive THEN envTable
                     ELSE [r \in DOMAIN envTable |-> new(r)]
  BY DEF BulkCommit
<1>2. c \in EnvRequest
  BY DEF EnvInv, EnvTypeOK
<1>3. envTable \in [EnvJobs \X EnvKeys -> EnvRow \union {NoRow}]
  BY DEF EnvInv, EnvTypeOK
<1>4. \A k \in names : Encrypt(c.sets[k], c.id) \in EnvRow
  BY <1>2 DEF EnvRequest, NamesIn, Encrypt, EnvRow, EnvInv, EnvTypeOK
<1> HIDE DEF c, names, kept
<1>5. ASSUME NEW r \in EnvJobs \X EnvKeys PROVE new(r) \in EnvRow \union {NoRow}
  BY <1>3, <1>4
<1>6. envTable' \in [EnvJobs \X EnvKeys -> EnvRow \union {NoRow}]
  <2>1. CASE clash \/ c.job \notin envLive
    BY <1>1, <1>3, <2>1
  <2>2. CASE ~(clash \/ c.job \notin envLive)
    <3>1. envTable' = [r \in EnvJobs \X EnvKeys |-> new(r)]
      BY <1>1, <1>3, <2>2
    <3>. QED BY <1>5, <3>1
  <2>. QED BY <2>1, <2>2
<1>7. ASSUME ~clash, c.job \in envLive, NEW j \in EnvJobs, NEW k \in EnvKeys
      PROVE  envTable'[<<j, k>>] =
               IF j # c.job \/ \E x \in kept : x[1] = k THEN envTable[<<j, k>>]
               ELSE IF k \in names THEN Encrypt(c.sets[k], c.id)
               ELSE NoRow
  <2>1. envTable' = [r \in EnvJobs \X EnvKeys |-> new(r)]
    BY <1>1, <1>3, <1>7
  <2>2. <<j, k>> \in EnvJobs \X EnvKeys /\ <<j, k>>[1] = j /\ <<j, k>>[2] = k
    OBVIOUS
  <2>3. envTable'[<<j, k>>] = new(<<j, k>>)
    BY <2>1, <2>2
  <2>. QED BY <2>2, <2>3
<1>. QED BY <1>1, <1>2, <1>6, <1>7 DEF c, names, kept

LEMMA BulkCommitStep ==
    ASSUME EnvInv, NEW t \in EnvThreads, BulkCommit(t)
    PROVE  EnvInv'
<1>1. /\ envCall[t].at = "replace" /\ EnvAnswer(t)
      /\ envTable' \in [EnvJobs \X EnvKeys -> EnvRow \union {NoRow}]
  BY BulkCommits
<1>2. ASSUME NEW j \in EnvJobs, j # envCall[t].job
      PROVE  RowsOf(j)' \subseteq RowsOf(j)
  <2>1. \A k \in EnvKeys : envTable'[<<j, k>>] = envTable[<<j, k>>]
    BY <1>2, BulkCommits
  <2>. QED BY <2>1 DEF RowsOf
<1>. QED BY <1>1, <1>2, EnvAnswers

LEMMA EnvStep ==
    ASSUME EnvInv, [EnvNext]_envVars
    PROVE  EnvInv'
<1>1. ASSUME NEW t \in EnvThreads, NEW j \in EnvJobs, NEW k \in EnvKeys,
             NEW v \in EnvValues, SetLoad(t, j, k, v)
      PROVE  EnvInv'
  BY <1>1, SetLoadStep
<1>2. ASSUME NEW t \in EnvThreads, NEW j \in EnvJobs,
             NEW sets \in [EnvKeys -> EnvValues \union {NoRow}],
             NEW twice \in BOOLEAN, BulkDelete(t, j, sets, twice)
      PROVE  EnvInv'
  BY <1>2, BulkDeleteStep
<1>3. ASSUME NEW t \in EnvThreads, SetWrite(t) \/ BulkLock(t) \/ BulkCommit(t)
      PROVE  EnvInv'
  BY <1>3, SetWriteStep, BulkLockStep, BulkCommitStep
<1>4. ASSUME NEW j \in EnvJobs, NEW k \in EnvKeys, DeleteVar(j, k) PROVE EnvInv'
  <2>1. /\ envTable' = [envTable EXCEPT ![<<j, k>>] = NoRow]
        /\ UNCHANGED <<envLive, envFresh, envCall, secret>>
        /\ envCalls < MaxEnvCalls /\ envCalls' = envCalls + 1
    BY <1>4 DEF DeleteVar, Instant
  <2>2. EnvTypeOK'
    BY <2>1, EnvAssumption DEF EnvInv, EnvTypeOK
  <2>3. ASSUME NEW i \in EnvJobs, NEW x \in EnvKeys, envTable'[<<i, x>>] # NoRow
        PROVE  envTable'[<<i, x>>] = envTable[<<i, x>>]
    BY <2>1, <2>3 DEF EnvInv, EnvTypeOK
  <2>4. \A i \in EnvJobs : RowsOf(i)' \subseteq RowsOf(i)
    BY <2>3 DEF RowsOf
  <2>. QED BY <2>1, <2>2, <2>4, EnvShrinks DEF EnvInv, IdsOnce
<1>5. ASSUME NEW j \in EnvJobs, DeleteOwner(j) PROVE EnvInv'
  <2>1. /\ envLive' = envLive \ {j}
        /\ envTable' = [r \in DOMAIN envTable |->
                           IF r[1] = j THEN NoRow ELSE envTable[r]]
        /\ UNCHANGED <<envFresh, envCall, secret>>
        /\ envCalls < MaxEnvCalls /\ envCalls' = envCalls + 1
    BY <1>5 DEF DeleteOwner, Instant
  <2>2. envTable' \in [EnvJobs \X EnvKeys -> EnvRow \union {NoRow}]
    BY <2>1 DEF EnvInv, EnvTypeOK
  <2>3. EnvTypeOK'
    BY <2>1, <2>2, EnvAssumption DEF EnvInv, EnvTypeOK
  <2>4. ASSUME NEW i \in EnvJobs, NEW x \in EnvKeys, envTable'[<<i, x>>] # NoRow
        PROVE  envTable'[<<i, x>>] = envTable[<<i, x>>]
    BY <2>1, <2>4 DEF EnvInv, EnvTypeOK
  <2>5. \A i \in EnvJobs : RowsOf(i)' \subseteq RowsOf(i)
    BY <2>4 DEF RowsOf
  <2>. QED BY <2>1, <2>3, <2>5, EnvShrinks DEF EnvInv, IdsOnce
<1>6. ASSUME NEW j \in EnvJobs, NEW copy \in EnvJobs, CopyVars(j, copy)
      PROVE  EnvInv'
  <2> DEFINE new(r) == IF r[1] # copy \/ envTable[<<j, r[2]>>] = NoRow
                       THEN envTable[r]
                       ELSE [envTable[<<j, r[2]>>] EXCEPT !.id = envCalls + 1]
  <2>1. /\ j \in envLive /\ copy \in envFresh
        /\ envFresh' = envFresh \ {copy} /\ envLive' = envLive \union {copy}
        /\ envTable' = [r \in DOMAIN envTable |-> new(r)]
        /\ UNCHANGED <<envCall, secret>>
        /\ envCalls < MaxEnvCalls /\ envCalls' = envCalls + 1
    BY <1>6 DEF CopyVars, Instant
  <2>2. envTable \in [EnvJobs \X EnvKeys -> EnvRow \union {NoRow}]
    BY DEF EnvInv, EnvTypeOK
  <2>3. ASSUME NEW r \in EnvJobs \X EnvKeys
        PROVE  new(r) \in EnvRow \union {NoRow}
    <3>1. r[2] \in EnvKeys /\ envTable[r] \in EnvRow \union {NoRow}
          /\ envTable[<<j, r[2]>>] \in EnvRow \union {NoRow}
      BY <2>2
    <3>2. envCalls + 1 \in Nat
      BY EnvAssumption DEF EnvInv, EnvTypeOK
    <3>3. \A x \in EnvRow : [x EXCEPT !.id = envCalls + 1] \in EnvRow
      BY <3>2 DEF EnvRow
    <3>. QED BY <3>1, <3>3
  <2>4. envTable' \in [EnvJobs \X EnvKeys -> EnvRow \union {NoRow}]
    <3> HIDE DEF new
    <3>. QED BY <2>1, <2>2, <2>3
  <2>5. EnvTypeOK'
    <3>1. envCalls' \in 0..MaxEnvCalls
      BY <2>1, EnvAssumption DEF EnvInv, EnvTypeOK
    <3>2. /\ envLive' \subseteq EnvJobs /\ envFresh' \subseteq EnvJobs
          /\ envCall' \in [EnvThreads -> EnvRequest] /\ secret' \in SecretKeys
      BY <2>1 DEF EnvInv, EnvTypeOK
    <3>. QED BY <2>4, <3>1, <3>2 DEF EnvTypeOK
  <2>6. ASSUME NEW i \in EnvJobs \ envFresh, NEW x \in EnvKeys
        PROVE  envTable'[<<i, x>>] = envTable[<<i, x>>]
    <3>1. i # copy
      BY <2>1
    <3>. QED BY <2>1, <2>2, <3>1
  <2>7. \A i \in EnvJobs \ envFresh : RowsOf(i)' \subseteq RowsOf(i)
    BY <2>6 DEF RowsOf
  <2>. QED BY <2>1, <2>5, <2>7, EnvShrinks DEF EnvInv, IdsOnce
<1>7. ASSUME NEW key \in SecretKeys, EnvRestart(key) PROVE EnvInv'
  <2>1. /\ secret' = key /\ envCall' = [t \in EnvThreads |-> Resting]
        /\ UNCHANGED <<envTable, envLive, envFresh>>
        /\ envCalls < MaxEnvCalls /\ envCalls' = envCalls + 1
    BY <1>7 DEF EnvRestart, Instant
  <2>2. Resting \in EnvRequest /\ Resting.at = "idle"
    BY EnvAssumption DEF Resting, EnvRequest, Nothing
  <2>3. EnvTypeOK'
    BY <2>1, <2>2, EnvAssumption DEF EnvInv, EnvTypeOK
  <2>4. \A t \in EnvThreads : envCall'[t].at = "idle"
    BY <2>1, <2>2
  <2>5. IdsOnce'
    BY <2>1, <2>4 DEF EnvInv, IdsOnce
  <2>. QED BY <2>3, <2>4, <2>5 DEF EnvInv, OneName, Company, FoundAll
<1>8. CASE UNCHANGED envVars
  <2>1. /\ envTable' = envTable /\ envLive' = envLive /\ envFresh' = envFresh
        /\ envCall' = envCall /\ envCalls' = envCalls /\ secret' = secret
    BY <1>8 DEF envVars
  <2>2. EnvTypeOK'
    BY <2>1 DEF EnvInv, EnvTypeOK
  <2>3. \A i : RowsOf(i)' = RowsOf(i)
    BY <2>1 DEF RowsOf
  <2>. QED BY <2>1, <2>2, <2>3, EnvShrinks DEF EnvInv, IdsOnce
<1>. QED
  BY <1>1, <1>2, <1>3, <1>4, <1>5, <1>6, <1>7, <1>8 DEF EnvNext

LEMMA EnvInvHolds == EnvSpec => []EnvInv
  BY EnvInitHolds, EnvStep, PTL DEF EnvSpec

LEMMA SameEnvironment ==
    ASSUME NEW j \in EnvJobs, secret' = secret,
           \A k \in EnvKeys : envTable'[<<j, k>>] = envTable[<<j, k>>]
    PROVE  Environment(j)' = Environment(j)
<1>1. Names(j)' = Names(j)
  BY DEF Names
<1>2. \A k \in Names(j) : k \in EnvKeys
  BY DEF Names
<1>. QED BY <1>1, <1>2 DEF Environment

\* What the application of the two commits shows of one job.
LEMMA BodyShows ==
    ASSUME EnvInv, NEW t \in EnvThreads, NEW j \in EnvJobs, envCall[t].job = j,
           envCall[t].at # "idle", EnvAnswer(t),
           NamesIn(envCall[t].sets) \subseteq Names(j)',
           \A k \in NamesIn(envCall[t].sets) :
              \E id \in Nat : envTable'[<<j, k>>] = Encrypt(envCall[t].sets[k], id),
           \A k \in EnvKeys \ NamesIn(envCall[t].sets) :
              envTable'[<<j, k>>] \in {envTable[<<j, k>>], NoRow}
    PROVE  BodyAppears(j, t)
<1> DEFINE c == envCall[t]
<1>1. envCall'[t].at = "idle" /\ secret' = secret
  BY DEF EnvAnswer, EnvInv, EnvTypeOK, Resting
<1>2. ASSUME NEW k \in Names(j)'
      PROVE  /\ Environment(j)'[k] = IF k \in NamesIn(c.sets) THEN c.sets[k]
                                     ELSE Environment(j)[k]
             /\ k \in Names(j) \union NamesIn(c.sets)
  <2>1. k \in EnvKeys /\ envTable'[<<j, k>>] # NoRow
    BY DEF Names
  <2>2. Environment(j)'[k] = IF envTable'[<<j, k>>].under = secret
                             THEN envTable'[<<j, k>>].plain ELSE NoRow
    BY <1>1 DEF Environment
  <2>3. CASE k \in NamesIn(c.sets)
    <3>1. PICK id \in Nat : envTable'[<<j, k>>] = Encrypt(c.sets[k], id)
      BY <2>3
    <3>2. envTable'[<<j, k>>].under = secret /\ envTable'[<<j, k>>].plain = c.sets[k]
      BY <3>1 DEF Encrypt
    <3>. QED BY <2>2, <2>3, <3>2
  <2>4. CASE k \notin NamesIn(c.sets)
    <3>1. envTable'[<<j, k>>] = envTable[<<j, k>>]
      BY <2>1, <2>4
    <3>2. k \in Names(j)
      BY <2>1, <3>1 DEF Names
    <3>3. Environment(j)[k] = IF envTable[<<j, k>>].under = secret
                              THEN envTable[<<j, k>>].plain ELSE NoRow
      BY <3>2 DEF Environment
    <3>. QED BY <2>2, <2>4, <3>1, <3>2, <3>3
  <2>. QED BY <2>3, <2>4
<1>. QED BY <1>1, <1>2 DEF BodyAppears

LEMMA Changes ==
    ASSUME EnvInv, [EnvNext]_envVars, NEW j \in envLive, j \in envLive'
    PROVE  ChangesAtOnce(j)
<1>0. j \in EnvJobs
  BY DEF EnvInv, EnvTypeOK
<1>1. ASSUME envTable' = envTable, secret' = secret PROVE ChangesAtOnce(j)
  BY <1>0, <1>1, SameEnvironment DEF ChangesAtOnce
<1>2. ASSUME NEW t \in EnvThreads, NEW i \in EnvJobs, NEW k \in EnvKeys,
             NEW v \in EnvValues, SetLoad(t, i, k, v)
      PROVE  ChangesAtOnce(j)
  BY <1>1, <1>2 DEF SetLoad, EnvBegin
<1>3. ASSUME NEW t \in EnvThreads, NEW i \in EnvJobs,
             NEW sets \in [EnvKeys -> EnvValues \union {NoRow}],
             NEW twice \in BOOLEAN, BulkDelete(t, i, sets, twice)
      PROVE  ChangesAtOnce(j)
  BY <1>1, <1>3 DEF BulkDelete, EnvBegin
<1>4. ASSUME NEW t \in EnvThreads, BulkLock(t) PROVE ChangesAtOnce(j)
  BY <1>1, <1>4 DEF BulkLock
<1>5. ASSUME NEW t \in EnvThreads, SetWrite(t) PROVE ChangesAtOnce(j)
  <2>1. envCall[t].at # "idle" /\ EnvAnswer(t) /\ secret' = secret
    BY <1>5, SetWrites DEF EnvAnswer
  <2>2. CASE envTable' = envTable
    BY <1>1, <2>1, <2>2
  <2>3. ASSUME NEW k \in EnvKeys, NEW id \in Nat,
               NamesIn(envCall[t].sets) = {k},
               envTable' = [envTable EXCEPT ![<<envCall[t].job, k>>] =
                               Encrypt(envCall[t].sets[k], id)]
        PROVE  ChangesAtOnce(j)
    <3>1. envCall[t].job \in EnvJobs
      BY DEF EnvInv, EnvTypeOK, EnvRequest
    <3>2. CASE j # envCall[t].job
      <4>1. \A x \in EnvKeys : envTable'[<<j, x>>] = envTable[<<j, x>>]
        BY <1>0, <2>3, <3>1, <3>2 DEF EnvInv, EnvTypeOK
      <4>. QED BY <1>0, <2>1, <4>1, SameEnvironment DEF ChangesAtOnce
    <3>3. CASE j = envCall[t].job
      <4>1. envTable'[<<j, k>>] = Encrypt(envCall[t].sets[k], id)
        BY <1>0, <2>3, <3>3 DEF EnvInv, EnvTypeOK
      <4>2. \A x \in EnvKeys \ {k} : envTable'[<<j, x>>] = envTable[<<j, x>>]
        BY <1>0, <2>3, <3>3 DEF EnvInv, EnvTypeOK
      <4>3. k \in Names(j)'
        <5>1. envCall[t].sets[k] \in EnvValues
          BY <2>3 DEF NamesIn, EnvInv, EnvTypeOK, EnvRequest
        <5>2. Encrypt(envCall[t].sets[k], id) \in EnvRow
          BY <5>1 DEF Encrypt, EnvRow, EnvInv, EnvTypeOK
        <5>. QED BY <4>1, <5>2, EnvAssumption DEF Names
      <4>4. BodyAppears(j, t)
        BY <1>0, <2>1, <2>3, <3>3, <4>1, <4>2, <4>3, BodyShows
      <4>. QED BY <4>4 DEF ChangesAtOnce
    <3>. QED BY <3>2, <3>3
  <2>. QED BY <1>5, <2>2, <2>3, SetWrites
<1>6. ASSUME NEW t \in EnvThreads, BulkCommit(t) PROVE ChangesAtOnce(j)
  <2> DEFINE c == envCall[t]
             kept == RowsOf(c.job) \ c.found
             names == NamesIn(c.sets)
             clash == c.twice \/ \E r \in kept : r[1] \in names
  <2>1. /\ c.at = "replace" /\ EnvAnswer(t) /\ secret' = secret
        /\ c \in EnvRequest
        /\ clash \/ c.job \notin envLive => envTable' = envTable
        /\ ~clash /\ c.job \in envLive =>
              \A i \in EnvJobs, k \in EnvKeys :
                 envTable'[<<i, k>>] =
                   IF i # c.job \/ \E x \in kept : x[1] = k
                   THEN envTable[<<i, k>>]
                   ELSE IF k \in names THEN Encrypt(c.sets[k], c.id)
                   ELSE NoRow
    BY <1>6, BulkCommits DEF EnvAnswer
  <2>2. CASE clash \/ c.job \notin envLive
    BY <1>1, <2>1, <2>2
  <2>3. CASE ~clash /\ c.job \in envLive /\ j # c.job
    <3>1. \A k \in EnvKeys : envTable'[<<j, k>>] = envTable[<<j, k>>]
      BY <1>0, <2>1, <2>3
    <3>. QED BY <1>0, <2>1, <3>1, SameEnvironment DEF ChangesAtOnce
  <2>4. CASE ~clash /\ c.job \in envLive /\ j = c.job
    <3>1. \A k \in names : envTable'[<<j, k>>] = Encrypt(c.sets[k], c.id)
      BY <1>0, <2>1, <2>4 DEF NamesIn
    <3>2. \A k \in EnvKeys \ names :
             envTable'[<<j, k>>] \in {envTable[<<j, k>>], NoRow}
      BY <1>0, <2>1, <2>4
    <3>3. c.id \in Nat
      BY <2>1 DEF EnvRequest
    <3>4. names \subseteq Names(j)'
      <4>1. ASSUME NEW k \in names PROVE Encrypt(c.sets[k], c.id) \in EnvRow
        BY <2>1 DEF NamesIn, Encrypt, EnvRow, EnvRequest, EnvInv, EnvTypeOK
      <4>. QED BY <3>1, <4>1, EnvAssumption DEF Names, NamesIn
    <3>5. BodyAppears(j, t)
      BY <1>0, <2>1, <2>4, <3>1, <3>2, <3>3, <3>4, BodyShows
    <3>. QED BY <3>5 DEF ChangesAtOnce
  <2>. QED BY <2>2, <2>3, <2>4
<1>7. ASSUME NEW i \in EnvJobs, NEW k \in EnvKeys, DeleteVar(i, k)
      PROVE  ChangesAtOnce(j)
  <2>1. /\ envTable' = [envTable EXCEPT ![<<i, k>>] = NoRow]
        /\ envTable[<<i, k>>] # NoRow /\ secret' = secret
    BY <1>7 DEF DeleteVar
  <2>2. CASE i # j
    <3>1. \A x \in EnvKeys : envTable'[<<j, x>>] = envTable[<<j, x>>]
      BY <1>0, <2>1, <2>2 DEF EnvInv, EnvTypeOK
    <3>. QED BY <1>0, <2>1, <3>1, SameEnvironment DEF ChangesAtOnce
  <2>3. CASE i = j
    <3>1. /\ envTable'[<<j, k>>] = NoRow
          /\ \A x \in EnvKeys \ {k} : envTable'[<<j, x>>] = envTable[<<j, x>>]
      BY <1>0, <2>1, <2>3 DEF EnvInv, EnvTypeOK
    <3>2. k \in Names(j) /\ Names(j)' = Names(j) \ {k}
      BY <2>1, <2>3, <3>1 DEF Names
    <3>3. \A x \in Names(j) \ {k} : envTable'[<<j, x>>] = envTable[<<j, x>>]
      BY <3>1 DEF Names
    <3>4. Environment(j)' = Without(j, k)
      BY <2>1, <3>2, <3>3 DEF Environment, Without
    <3>. QED BY <3>2, <3>4 DEF ChangesAtOnce
  <2>. QED BY <2>2, <2>3
<1>8. ASSUME NEW i \in EnvJobs, DeleteOwner(i) PROVE ChangesAtOnce(j)
  <2>1. /\ envTable' = [r \in DOMAIN envTable |->
                           IF r[1] = i THEN NoRow ELSE envTable[r]]
        /\ secret' = secret /\ j # i
    BY <1>8 DEF DeleteOwner
  <2>2. \A x \in EnvKeys : envTable'[<<j, x>>] = envTable[<<j, x>>]
    BY <1>0, <2>1 DEF EnvInv, EnvTypeOK
  <2>. QED BY <1>0, <2>1, <2>2, SameEnvironment DEF ChangesAtOnce
<1>9. ASSUME NEW i \in EnvJobs, NEW copy \in EnvJobs, CopyVars(i, copy)
      PROVE  ChangesAtOnce(j)
  <2>1. /\ envTable' = [r \in DOMAIN envTable |->
              IF r[1] # copy \/ envTable[<<i, r[2]>>] = NoRow THEN envTable[r]
              ELSE [envTable[<<i, r[2]>>] EXCEPT !.id = envCalls + 1]]
        /\ secret' = secret /\ copy \in envFresh
    BY <1>9 DEF CopyVars
  <2>2. j # copy
    BY <2>1 DEF EnvInv, IdsOnce
  <2>3. \A x \in EnvKeys : envTable'[<<j, x>>] = envTable[<<j, x>>]
    BY <1>0, <2>1, <2>2 DEF EnvInv, EnvTypeOK
  <2>. QED BY <1>0, <2>1, <2>3, SameEnvironment DEF ChangesAtOnce
<1>10. ASSUME NEW key \in SecretKeys, EnvRestart(key) PROVE ChangesAtOnce(j)
  <2>1. envTable' = envTable
    BY <1>10 DEF EnvRestart
  <2>. QED BY <1>1, <2>1 DEF ChangesAtOnce
<1>11. CASE UNCHANGED envVars
  BY <1>1, <1>11 DEF envVars
<1>. QED
  BY <1>2, <1>3, <1>4, <1>5, <1>6, <1>7, <1>8, <1>9, <1>10, <1>11 DEF EnvNext

\* A run never gets half of the variables of a request, whatever requests,
\* deletions and restarts meet.
THEOREM ReplacedHolds == EnvSpec => ReplacedAtOnce
<1>1. EnvInv /\ [EnvNext]_envVars
      => [\A j \in envLive \cap envLive' : ChangesAtOnce(j)]_envVars
  BY Changes
<1>. QED BY EnvInvHolds, <1>1, PTL DEF EnvSpec, ReplacedAtOnce

\* A bulk request that met no other leaves exactly its own variables.
THEOREM BulkHolds == EnvSpec => BulkIsWhole
<1>1. ASSUME EnvInv, NEW t \in EnvThreads, NEW j \in envLive
      PROVE  LeavesItsBody(t, j)
  <2> DEFINE c == envCall[t]
             kept == RowsOf(c.job) \ c.found
             names == NamesIn(c.sets)
             clash == c.twice \/ \E r \in kept : r[1] \in names
  <2>0. j \in EnvJobs
    BY <1>1 DEF EnvInv, EnvTypeOK
  <2>1. SUFFICES ASSUME BulkCommit(t), c.alone, c.job = j
                 PROVE  Names(j)' = IF c.twice THEN Names(j) ELSE names
    BY DEF LeavesItsBody
  <2>2. /\ c.at = "replace" /\ c \in EnvRequest
        /\ clash \/ c.job \notin envLive => envTable' = envTable
        /\ ~clash /\ c.job \in envLive =>
              \A i \in EnvJobs, k \in EnvKeys :
                 envTable'[<<i, k>>] =
                   IF i # c.job \/ \E x \in kept : x[1] = k
                   THEN envTable[<<i, k>>]
                   ELSE IF k \in names THEN Encrypt(c.sets[k], c.id)
                   ELSE NoRow
    BY <1>1, <2>1, BulkCommits
  <2>3. kept = {}
    BY <1>1, <2>1, <2>2 DEF EnvInv, FoundAll
  <2>4. CASE c.twice
    BY <2>2, <2>4 DEF Names
  <2>5. CASE ~c.twice
    <3>1. \A k \in EnvKeys :
             envTable'[<<j, k>>] =
               IF k \in names THEN Encrypt(c.sets[k], c.id) ELSE NoRow
      BY <2>0, <2>1, <2>2, <2>3, <2>5
    <3>2. ASSUME NEW k \in names PROVE Encrypt(c.sets[k], c.id) # NoRow
      <4>1. Encrypt(c.sets[k], c.id) \in EnvRow
        BY <1>1, <2>2 DEF NamesIn, Encrypt, EnvRow, EnvRequest, EnvInv, EnvTypeOK
      <4>. QED BY <4>1, EnvAssumption
    <3>. QED BY <2>5, <3>1, <3>2 DEF Names, NamesIn
  <2>. QED BY <2>4, <2>5
<1>2. EnvInv /\ [EnvNext]_envVars
      => [\A t \in EnvThreads, j \in envLive : LeavesItsBody(t, j)]_envVars
  BY <1>1
<1>. QED BY EnvInvHolds, <1>2, PTL DEF EnvSpec, BulkIsWhole
-----------------------------------------------------------------------------
(* Refresh tokens.  Of a login no token of which was refreshed twice at     *)
(* once: one thread at most carries it; while that thread is about to       *)
(* revoke, the only token of the login is the one it verified; while it is  *)
(* about to issue, there is none.                                           *)

Turning(h) == authCall[h].at \in {"revoke", "issue"}

TokensNumbered ==
    /\ \A t, s \in given : t.n = s.n => t = s
    /\ \A t \in given : t.n # 0 /\ t.login # 0
    /\ \A t \in given : \E s \in given : s.n = t.login

Carried ==
    \A h \in AuthThreads : LET c == authCall[h] IN
        /\ c.login # 0 => Turning(h) /\ \E s \in given : s.n = c.login
        /\ c.at = "revoke" =>
              \E t \in given : t.n = c.token /\ t.login = c.login

Alone ==
    \A g, h \in AuthThreads :
        (/\ authCall[g].login = authCall[h].login
         /\ authCall[g].login # 0
         /\ authCall[g].login \notin forked) => g = h

Verified ==
    \A h \in AuthThreads : LET c == authCall[h] IN
        (c.at = "revoke" /\ c.login \notin forked) =>
            \A t \in rows : t.login = c.login => t.n = c.token

EndedKnown == \A l \in ended : \E s \in given : s.n = l

TokensInv ==
    /\ TokensTypeOK
    /\ TokensNumbered
    /\ Carried
    /\ Alone
    /\ Verified
    /\ EndedKnown
    /\ OneTokenPerLogin
    /\ LogoutIsFinal

LEMMA NoRequestType ==
    NoRequest \in AuthRequest /\ NoRequest.at = "idle" /\ NoRequest.login = 0
BY TokensAssumption DEF NoRequest, AuthRequest

LEMMA TokensInitHolds == TokensInit => TokensInv
<1> SUFFICES ASSUME TokensInit PROVE TokensInv
  OBVIOUS
<1>1. TokensTypeOK
  BY NoRequestType, TokensAssumption DEF TokensInit, TokensTypeOK
<1>2. \A h \in AuthThreads : authCall[h].at = "idle" /\ authCall[h].login = 0
  BY NoRequestType DEF TokensInit
<1>3. given = {} /\ rows = {} /\ ended = {}
  BY DEF TokensInit
<1>4. TokensNumbered /\ EndedKnown
  BY <1>3 DEF TokensNumbered, EndedKnown
<1>5. Carried /\ Alone /\ Verified
  BY <1>2 DEF Carried, Alone, Verified
<1>6. OneTokenPerLogin /\ LogoutIsFinal
  BY <1>2, <1>3 DEF OneTokenPerLogin, LogoutIsFinal
<1>7. QED
  BY <1>1, <1>4, <1>5, <1>6 DEF TokensInv

LEMMA FreshIsNew ==
    ASSUME TokensTypeOK, NEW n \in 1..MaxAuthCalls, Fresh(n)
    PROVE  \A t \in given : t.n # n
BY TokensAssumption DEF Fresh, TokensTypeOK, Token

\* The three ways an action changes what a thread is doing.

LEMMA CallEffect ==
    ASSUME TokensTypeOK, NEW h \in AuthThreads,
           NEW place \in {"create", "revoke", "issue"}, NEW user \in Usernames,
           NEW its \in Nat, NEW token \in Nat,
           Call(h, place, user, its, token)
    PROVE  /\ authCall' \in [AuthThreads -> AuthRequest]
           /\ authCalls' \in 0..MaxAuthCalls
           /\ authCall[h].at = "idle"
           /\ authCall'[h].at = place /\ authCall'[h].login = its
           /\ authCall'[h].token = token
           /\ \A g \in AuthThreads \ {h} : authCall'[g] = authCall[g]
BY TokensAssumption DEF TokensTypeOK, Call, AuthRequest

LEMMA ProceedEffect ==
    ASSUME TokensTypeOK, NEW h \in AuthThreads, Proceed(h, "issue")
    PROVE  /\ authCall' \in [AuthThreads -> AuthRequest]
           /\ authCall'[h].at = "issue"
           /\ authCall'[h].login = authCall[h].login
           /\ \A g \in AuthThreads \ {h} : authCall'[g] = authCall[g]
BY DEF TokensTypeOK, Proceed, AuthRequest

LEMMA AnswerEffect ==
    ASSUME TokensTypeOK, NEW h \in AuthThreads, Answer(h)
    PROVE  /\ authCall' \in [AuthThreads -> AuthRequest]
           /\ authCall'[h].at = "idle" /\ authCall'[h].login = 0
           /\ \A g \in AuthThreads \ {h} : authCall'[g] = authCall[g]
BY NoRequestType DEF TokensTypeOK, Answer

\* A thread that starts or ends with no login, and touches no token, changes
\* nothing that matters.
LEMMA NoLogin ==
    ASSUME TokensInv, NEW h \in AuthThreads, TokensTypeOK',
           authCall'[h].login = 0, authCall'[h].at # "revoke",
           \A g \in AuthThreads \ {h} : authCall'[g] = authCall[g],
           UNCHANGED <<rows, given, forked, ended>>
    PROVE  TokensInv'
<1> USE DEF TokensInv
<1>1. TokensNumbered' /\ EndedKnown'
  BY DEF TokensNumbered, EndedKnown
<1>2. Carried'
  BY DEF Carried, Turning
<1>3. Alone' /\ Verified'
  BY DEF Alone, Verified
<1>4. \A t \in rows : t.login # 0
  BY DEF TokensTypeOK, TokensNumbered
<1>5. OneTokenPerLogin'
  BY <1>4 DEF OneTokenPerLogin
<1>6. 0 \notin ended
  BY DEF EndedKnown, TokensNumbered, TokensTypeOK
<1>7. LogoutIsFinal'
  BY <1>6 DEF LogoutIsFinal
<1>8. QED
  BY <1>1, <1>2, <1>3, <1>5, <1>7

LEMMA NewLoginStep ==
    ASSUME TokensInv, NEW h \in AuthThreads, NEW u \in Usernames,
           SignupCheck(h, u) \/ LoginCheck(h, u)
    PROVE  TokensInv'
<1>1. TokensTypeOK
  BY DEF TokensInv
<1>2. PICK place \in {"create", "issue"} :
          /\ Call(h, place, u, 0, 0)
          /\ UNCHANGED <<users, rows, given, expired, forked, ended>>
  BY DEF SignupCheck, LoginCheck
<1>3. /\ authCall' \in [AuthThreads -> AuthRequest]
      /\ authCalls' \in 0..MaxAuthCalls
      /\ authCall'[h].at = place /\ authCall'[h].login = 0
      /\ \A g \in AuthThreads \ {h} : authCall'[g] = authCall[g]
  BY <1>1, <1>2, CallEffect
<1>4. TokensTypeOK'
  BY <1>1, <1>2, <1>3 DEF TokensTypeOK
<1>5. QED
  BY <1>2, <1>3, <1>4, NoLogin

LEMMA SignupInsertStep ==
    ASSUME TokensInv, NEW h \in AuthThreads, SignupInsert(h)
    PROVE  TokensInv'
<1>1. TokensTypeOK /\ Carried
  BY DEF TokensInv
<1>2. authCall[h].login = 0 /\ authCall[h].user \in Usernames
  BY <1>1 DEF Carried, Turning, SignupInsert, TokensTypeOK, AuthRequest
<1>3. /\ authCall' \in [AuthThreads -> AuthRequest]
      /\ authCall'[h].login = 0 /\ authCall'[h].at \in {"idle", "issue"}
      /\ \A g \in AuthThreads \ {h} : authCall'[g] = authCall[g]
  <2>1. CASE Answer(h)
    BY <1>1, <2>1, AnswerEffect
  <2>2. CASE Proceed(h, "issue")
    BY <1>1, <1>2, <2>2, ProceedEffect
  <2>3. QED
    BY <2>1, <2>2 DEF SignupInsert
<1>4. TokensTypeOK'
  BY <1>1, <1>2, <1>3 DEF TokensTypeOK, SignupInsert
<1>5. QED
  BY <1>3, <1>4, NoLogin DEF SignupInsert

\* A second thread that verifies a token of a login another thread carries can
\* only find the token that thread has verified, which is how a login forks.
LEMMA RefreshVerifyStep ==
    ASSUME TokensInv, NEW h \in AuthThreads, NEW t \in given, RefreshVerify(h, t)
    PROVE  TokensInv'
<1> USE DEF TokensInv
<1>1. TokensTypeOK /\ t \in Token /\ t \in rows
  BY DEF RefreshVerify, TokensTypeOK
<1>2. /\ authCall' \in [AuthThreads -> AuthRequest]
      /\ authCalls' \in 0..MaxAuthCalls
      /\ authCall[h].at = "idle"
      /\ authCall'[h].at = "revoke" /\ authCall'[h].login = t.login
      /\ authCall'[h].token = t.n
      /\ \A g \in AuthThreads \ {h} : authCall'[g] = authCall[g]
  BY <1>1, CallEffect DEF RefreshVerify, Token
<1>3. UNCHANGED <<users, rows, given, expired, ended>>
  BY DEF RefreshVerify
<1>4. /\ forked \subseteq forked'
      /\ forked' \subseteq Nat
      /\ \A g \in AuthThreads :
            authCall[g].at = "revoke" /\ authCall[g].token = t.n
            => t.login \in forked'
  BY <1>1 DEF RefreshVerify, TokensTypeOK, Token
<1>5. TokensTypeOK'
  BY <1>1, <1>2, <1>3, <1>4 DEF TokensTypeOK
<1>6. TokensNumbered' /\ EndedKnown'
  BY <1>3 DEF TokensNumbered, EndedKnown
<1>7. Carried'
  BY <1>2, <1>3, <1>1 DEF Carried, Turning, TokensNumbered
<1>8. t.login \notin forked' =>
          \A g \in AuthThreads \ {h} : authCall[g].login # t.login
  <2> SUFFICES ASSUME t.login \notin forked', NEW g \in AuthThreads \ {h},
                      authCall[g].login = t.login
               PROVE  FALSE
    OBVIOUS
  <2>1. t.login \notin forked /\ t.login # 0
    BY <1>1, <1>4 DEF TokensNumbered
  <2>2. CASE authCall[g].at = "revoke"
    BY <2>1, <2>2, <1>1, <1>4 DEF Verified
  <2>3. CASE authCall[g].at = "issue"
    BY <2>1, <2>3, <1>1 DEF OneTokenPerLogin
  <2>4. QED
    BY <2>1, <2>2, <2>3 DEF Carried, Turning
<1>9. Alone'
  <2> SUFFICES ASSUME NEW g \in AuthThreads, NEW k \in AuthThreads,
                      authCall'[g].login = authCall'[k].login,
                      authCall'[g].login # 0,
                      authCall'[g].login \notin forked'
               PROVE  g = k
    BY DEF Alone
  <2>1. CASE g = h \/ k = h
    BY <2>1, <1>2, <1>8
  <2>2. CASE g # h /\ k # h
    BY <2>2, <1>2, <1>4 DEF Alone
  <2>3. QED
    BY <2>1, <2>2
<1>10. Verified'
  <2> SUFFICES ASSUME NEW g \in AuthThreads, authCall'[g].at = "revoke",
                      authCall'[g].login \notin forked',
                      NEW s \in rows, s.login = authCall'[g].login
               PROVE  s.n = authCall'[g].token
    BY <1>3 DEF Verified
  <2>1. authCall'[g].login \notin forked
    BY <1>4
  <2>2. CASE g = h
    BY <2>1, <2>2, <1>1, <1>2 DEF OneTokenPerLogin
  <2>3. CASE g # h
    BY <2>1, <2>3, <1>2 DEF Verified
  <2>4. QED
    BY <2>2, <2>3
<1>11. OneTokenPerLogin'
  BY <1>2, <1>3, <1>4 DEF OneTokenPerLogin
<1>12. LogoutIsFinal'
  BY <1>1, <1>2, <1>3 DEF LogoutIsFinal
<1>13. QED
  BY <1>5, <1>6, <1>7, <1>9, <1>10, <1>11, <1>12

LEMMA RefreshRevokeStep ==
    ASSUME TokensInv, NEW h \in AuthThreads, RefreshRevoke(h)
    PROVE  TokensInv'
<1> USE DEF TokensInv
<1>1. UNCHANGED <<users, given, expired, authCalls, forked, ended>>
  BY DEF RefreshRevoke
<1>2. CASE Answer(h) /\ UNCHANGED rows
  <2>1. /\ authCall' \in [AuthThreads -> AuthRequest]
        /\ authCall'[h].at = "idle" /\ authCall'[h].login = 0
        /\ \A g \in AuthThreads \ {h} : authCall'[g] = authCall[g]
    BY <1>2, AnswerEffect
  <2>2. TokensTypeOK'
    BY <1>1, <1>2, <2>1 DEF TokensTypeOK
  <2>3. QED
    BY <1>1, <1>2, <2>1, <2>2, NoLogin
<1>3. CASE /\ Proceed(h, "issue")
           /\ rows' = {t \in rows : t.n # authCall[h].token}
  <2>1. /\ authCall' \in [AuthThreads -> AuthRequest]
        /\ authCall'[h].at = "issue"
        /\ authCall'[h].login = authCall[h].login
        /\ \A g \in AuthThreads \ {h} : authCall'[g] = authCall[g]
    BY <1>3, ProceedEffect
  <2>2. authCall[h].at = "revoke" /\ rows' \subseteq rows
    BY <1>3 DEF RefreshRevoke
  <2>3. TokensTypeOK'
    BY <1>1, <2>1, <2>2 DEF TokensTypeOK
  <2>4. TokensNumbered' /\ EndedKnown'
    BY <1>1 DEF TokensNumbered, EndedKnown
  <2>5. Carried' /\ Alone'
    BY <1>1, <2>1, <2>2 DEF Carried, Turning, Alone
  <2>6. Verified'
    BY <1>1, <2>1, <2>2 DEF Verified
  <2>7. \A t \in rows' : authCall[h].login \notin forked =>
            t.login # authCall[h].login
    BY <1>3, <2>2 DEF Verified
  <2>8. OneTokenPerLogin'
    BY <1>1, <2>1, <2>2, <2>7 DEF OneTokenPerLogin
  <2>9. LogoutIsFinal'
    BY <1>1, <2>1, <2>2 DEF LogoutIsFinal
  <2>10. QED
    BY <2>3, <2>4, <2>5, <2>6, <2>8, <2>9
<1>4. QED
  BY <1>2, <1>3 DEF RefreshRevoke

\* The number of the new token is nobody's, so it names no earlier login.
LEMMA IssueTokenStep ==
    ASSUME TokensInv, NEW h \in AuthThreads, NEW n \in 1..MaxAuthCalls,
           IssueToken(h, n)
    PROVE  TokensInv'
<1> USE DEF TokensInv
<1> DEFINE c == authCall[h]
           t == [n |-> n, user |-> c.user,
                 login |-> IF c.login = 0 THEN n ELSE c.login]
<1>1. /\ c.at = "issue" /\ Fresh(n) /\ Answer(h)
      /\ rows' = rows \union {t} /\ given' = given \union {t}
      /\ UNCHANGED <<users, expired, authCalls, forked, ended>>
  BY DEF IssueToken
<1>2. /\ n \in Nat \ {0}
      /\ \A s \in given : s.n # n
      /\ \A s \in given : s.login # n
  BY <1>1, TokensAssumption, FreshIsNew DEF TokensNumbered
<1>3. c \in AuthRequest /\ t \in Token
  BY <1>2 DEF TokensTypeOK, AuthRequest, Token
<1>4. /\ authCall' \in [AuthThreads -> AuthRequest]
      /\ authCall'[h].at = "idle" /\ authCall'[h].login = 0
      /\ \A g \in AuthThreads \ {h} : authCall'[g] = authCall[g]
  BY <1>1, AnswerEffect
<1>5. TokensTypeOK'
  BY <1>1, <1>3, <1>4 DEF TokensTypeOK
<1>6. t.n = n /\ t.login \in {n, c.login} /\ t.login # 0
      /\ (c.login = 0 => t.login = n) /\ (c.login # 0 => t.login = c.login)
  BY <1>2
<1> HIDE DEF t
<1>7. TokensNumbered'
  <2>1. \A r, s \in given' : r.n = s.n => r = s
    BY <1>1, <1>2, <1>6 DEF TokensNumbered
  <2>2. \A s \in given' : s.n # 0 /\ s.login # 0
    BY <1>1, <1>2, <1>6 DEF TokensNumbered
  <2>3. \A s \in given' : \E r \in given' : r.n = s.login
    BY <1>1, <1>6 DEF TokensNumbered, Carried
  <2>4. QED
    BY <2>1, <2>2, <2>3 DEF TokensNumbered
<1>8. Carried'
  BY <1>1, <1>4 DEF Carried, Turning
<1>9. Alone'
  BY <1>1, <1>4 DEF Alone
<1>10. EndedKnown'
  BY <1>1 DEF EndedKnown
\* No row and no other thread has the login of the new token, unless forked.
<1>11. t.login \notin forked => \A s \in rows : s.login # t.login
  BY <1>1, <1>2, <1>6 DEF OneTokenPerLogin, TokensTypeOK
<1>12. t.login \notin forked =>
          \A g \in AuthThreads \ {h} : authCall[g].login # t.login
  <2> SUFFICES ASSUME t.login \notin forked, NEW g \in AuthThreads \ {h},
                      authCall[g].login = t.login
               PROVE  FALSE
    OBVIOUS
  <2>1. CASE c.login = 0
    BY <2>1, <1>2, <1>6 DEF Carried
  <2>2. CASE c.login # 0
    BY <2>2, <1>6 DEF Alone
  <2>3. QED
    BY <2>1, <2>2
<1>13. Verified'
  <2> SUFFICES ASSUME NEW g \in AuthThreads, authCall'[g].at = "revoke",
                      authCall'[g].login \notin forked,
                      NEW s \in rows', s.login = authCall'[g].login
               PROVE  s.n = authCall'[g].token
    BY <1>1 DEF Verified
  <2>1. g # h /\ authCall'[g] = authCall[g]
    BY <1>4
  <2>2. s # t
    BY <2>1, <1>12
  <2>3. QED
    BY <2>1, <2>2, <1>1 DEF Verified
<1>14. OneTokenPerLogin'
  <2>1. \A r, s \in rows' : r.login = s.login /\ r.login \notin forked => r = s
    BY <1>1, <1>11 DEF OneTokenPerLogin
  <2> SUFFICES ASSUME NEW g \in AuthThreads, authCall'[g].at = "issue",
                      authCall'[g].login \notin forked, NEW s \in rows'
               PROVE  s.login # authCall'[g].login
    BY <2>1, <1>1 DEF OneTokenPerLogin
  <2>2. g # h /\ authCall'[g] = authCall[g]
    BY <1>4
  <2>3. CASE s = t
    BY <2>2, <2>3, <1>12
  <2>4. CASE s \in rows
    BY <2>2, <2>4 DEF OneTokenPerLogin
  <2>5. QED
    BY <2>3, <2>4, <1>1
<1>15. t.login \notin ended
  BY <1>2, <1>6 DEF LogoutIsFinal, EndedKnown
<1>16. 0 \notin ended
  BY DEF EndedKnown, TokensNumbered
<1>17. LogoutIsFinal'
  BY <1>1, <1>4, <1>15, <1>16 DEF LogoutIsFinal
<1>18. QED
  BY <1>5, <1>7, <1>8, <1>9, <1>10, <1>13, <1>14, <1>17

LEMMA LogoutStep ==
    ASSUME TokensInv, NEW t \in given, Logout(t)
    PROVE  TokensInv'
<1> USE DEF TokensInv
<1>1. /\ rows' = rows \ {t}
      /\ UNCHANGED <<users, given, expired, authCall, forked>>
      /\ authCalls' = authCalls + 1 /\ authCalls < MaxAuthCalls
  BY DEF Logout
<1>2. t \in Token
  BY DEF TokensTypeOK
<1>3. \/ ended' = ended
      \/ /\ ended' = ended \union {t.login}
         /\ t \in rows /\ t.login \notin forked
         /\ \A h \in AuthThreads : authCall[h].login # t.login
  BY DEF Logout
<1>4. TokensTypeOK'
  <2>1. authCalls' \in 0..MaxAuthCalls
    BY <1>1, TokensAssumption DEF TokensTypeOK
  <2>2. ended' \subseteq Nat
    BY <1>2, <1>3 DEF TokensTypeOK, Token
  <2>3. QED
    BY <2>1, <2>2, <1>1 DEF TokensTypeOK
<1>5. TokensNumbered' /\ Carried' /\ Alone'
  BY <1>1 DEF TokensNumbered, Carried, Turning, Alone
<1>6. Verified' /\ OneTokenPerLogin'
  BY <1>1 DEF Verified, OneTokenPerLogin
<1>7. EndedKnown'
  BY <1>1, <1>3 DEF EndedKnown, TokensNumbered
<1>8. LogoutIsFinal'
  BY <1>1, <1>3 DEF LogoutIsFinal, OneTokenPerLogin
<1>9. QED
  BY <1>4, <1>5, <1>6, <1>7, <1>8

LEMMA ExpireStep ==
    ASSUME TokensInv, NEW t \in given, Expire(t)
    PROVE  TokensInv'
BY DEF Expire, TokensInv, TokensTypeOK, TokensNumbered, Carried, Turning, Alone, Verified,
       EndedKnown, OneTokenPerLogin, LogoutIsFinal

LEMMA AuthRestartStep ==
    ASSUME TokensInv, AuthRestart
    PROVE  TokensInv'
<1> USE DEF TokensInv
<1>1. /\ authCall' \in [AuthThreads -> AuthRequest]
      /\ \A h \in AuthThreads :
            authCall'[h].at = "idle" /\ authCall'[h].login = 0
  BY NoRequestType DEF AuthRestart
<1>2. UNCHANGED <<users, rows, given, expired, forked, ended>>
  BY DEF AuthRestart
<1>3. TokensTypeOK'
  <2>1. authCalls' \in 0..MaxAuthCalls
    BY TokensAssumption DEF TokensTypeOK, AuthRestart
  <2>2. QED
    BY <2>1, <1>1, <1>2 DEF TokensTypeOK
<1>4. TokensNumbered' /\ EndedKnown'
  BY <1>2 DEF TokensNumbered, EndedKnown
<1>5. Carried' /\ Alone' /\ Verified'
  BY <1>1 DEF Carried, Alone, Verified
<1>6. 0 \notin ended
  BY DEF EndedKnown, TokensNumbered
<1>7. OneTokenPerLogin' /\ LogoutIsFinal'
  BY <1>1, <1>2, <1>6 DEF OneTokenPerLogin, LogoutIsFinal
<1>8. QED
  BY <1>3, <1>4, <1>5, <1>7

LEMMA TokensNextKeeps == TokensInv /\ [TokensNext]_authVars => TokensInv'
<1> SUFFICES ASSUME TokensInv, [TokensNext]_authVars PROVE TokensInv'
  OBVIOUS
<1>1. CASE UNCHANGED authVars
  BY <1>1 DEF authVars, TokensInv, TokensTypeOK, TokensNumbered, Carried, Turning, Alone,
              Verified, EndedKnown, OneTokenPerLogin, LogoutIsFinal
<1>2. CASE TokensNext
  BY <1>2, NewLoginStep, SignupInsertStep, RefreshVerifyStep,
     RefreshRevokeStep, IssueTokenStep, LogoutStep, ExpireStep, AuthRestartStep
     DEF TokensNext
<1>3. QED
  BY <1>1, <1>2

LEMMA TokensInvHolds == TokensSpec => []TokensInv
BY TokensInitHolds, TokensNextKeeps, PTL DEF TokensSpec

\* A login whose tokens were never refreshed twice at once has at most one
\* working token (rotate_refresh_token, auth_service.py), for any number of
\* threads, users, requests and restarts.
THEOREM OneToken == TokensSpec => []OneTokenPerLogin
<1>1. TokensInv => OneTokenPerLogin
  BY DEF TokensInv
<1>2. QED
  BY <1>1, TokensInvHolds, PTL

\* A logout with the token of a login, and no refresh of it at work, ends it
\* for good (revoke_refresh_token, auth_service.py).
THEOREM LogoutHolds == TokensSpec => []LogoutIsFinal
<1>1. TokensInv => LogoutIsFinal
  BY DEF TokensInv
<1>2. QED
  BY <1>1, TokensInvHolds, PTL

-----------------------------------------------------------------------------
(* Cron expressions.  Where the field day_of_week is * both readings of an *)
(* expression are one, and the trigger fires on the days that were shown.  *)

LEMMA OneReading ==
    ASSUME WeekFields \subseteq {Every}, NEW e \in Expressions, NEW d \in Nat
    PROVE  Fires(e, d) <=> Next1(e, d)
BY DEF Expressions, Fires, Next1

\* What is shown is the beginning of the days that come.
ShownFirst(e) ==
    promised = NextRuns(e, 0) /\ fired = {d \in 1..today : Next1(e, d)}

CronInv ==
    /\ today \in 0..LastDay
    /\ promised = {} => today = 0 /\ fired = {}
    /\ expression = {} => promised = {}
    /\ expression # {} =>
          \E e \in Expressions : expression = {e} /\ ShownFirst(e)

LEMMA CronInvHolds ==
    ASSUME LastDay \in Nat, WeekFields \subseteq {Every}
    PROVE  CronSpec => []CronInv
<1>1. CronInit => CronInv
  BY DEF CronInit, CronInv
<1>2. CronInv /\ [CronNext]_cronVars => CronInv'
  <2> SUFFICES ASSUME CronInv, [CronNext]_cronVars
               PROVE  CronInv'
    OBVIOUS
  <2>1. ASSUME NEW e \in Expressions, Save(e)
        PROVE  CronInv'
    <3>1. e.week = Every /\ expression = {} /\ today = 0 /\ fired = {}
      BY <2>1 DEF Expressions, Save, CronInv
    <3>2. expression' = {e} /\ promised' = NextRuns(e, 0)
          /\ today' = 0 /\ fired' = {}
      BY <2>1, <3>1 DEF Save
    <3>3. {d \in 1..0 : Next1(e, d)} = {}
      OBVIOUS
    <3>4. ShownFirst(e)'
      BY <3>2, <3>3 DEF ShownFirst
    <3>. QED BY <3>2, <3>4 DEF CronInv
  <2>2. CASE NextDay
    <3>1. PICK e \in Expressions : expression = {e} /\ ShownFirst(e)
      BY <2>2 DEF NextDay, CronInv
    <3>2. /\ today \in Nat /\ today < LastDay /\ today' = today + 1
          /\ expression' = {e} /\ promised' = promised /\ promised # {}
          /\ fired' = fired \union {d \in {today + 1} : Fires(e, d)}
      BY <2>2, <3>1 DEF NextDay, CronInv
    <3>3. Fires(e, today + 1) <=> Next1(e, today + 1)
      BY <3>2, OneReading
    <3>4. 1..(today + 1) = 1..today \union {today + 1}
      BY <3>2
    <3>5. fired' = {d \in 1..(today + 1) : Next1(e, d)}
      BY <3>1, <3>2, <3>3, <3>4 DEF ShownFirst
    <3>6. ShownFirst(e)'
      BY <3>1, <3>2, <3>5 DEF ShownFirst
    <3>. QED BY <3>2, <3>6 DEF CronInv
  <2>3. CASE UNCHANGED cronVars
    BY <2>3 DEF cronVars, CronInv, ShownFirst
  <2>. QED BY <2>1, <2>2, <2>3 DEF CronNext
<1>. QED BY <1>1, <1>2, PTL DEF CronSpec

\* A job whose day_of_week is * runs on the days its page has shown, and on no
\* other before the last of them (get_next_runs, _parse_cron), for any days of
\* the month and any number of runs shown.
THEOREM ShownDaysRun ==
    ASSUME LastDay \in Nat, Shown \in Nat, WeekFields \subseteq {Every}
    PROVE  CronSpec => []RunsWhenShown
<1>1. CronInv => RunsWhenShown
  <2> SUFFICES ASSUME CronInv
               PROVE  RunsWhenShown
    OBVIOUS
  <2>1. CASE expression = {}
    BY <2>1 DEF CronInv, RunsWhenShown
  <2>2. ASSUME NEW e \in Expressions, ShownFirst(e)
        PROVE  RunsWhenShown
    <3> DEFINE later == {x \in 1..LastDay : Next1(e, x)}
               before(d) == {y \in later : y < d}
    <3>1. /\ promised = {x \in later : Cardinality(before(x)) < Shown}
          /\ fired = {d \in 1..today : Next1(e, d)}
      BY <2>2 DEF ShownFirst, NextRuns
    <3>2. today \in Nat /\ today <= LastDay
      BY DEF CronInv
    <3>3. {d \in promised : d <= today} \subseteq fired
      BY <3>1, <3>2
    <3>4. fired \subseteq later
      BY <3>1, <3>2
    <3>5. \A x \in later : IsFiniteSet(before(x)) /\ Cardinality(before(x)) \in Nat
      <4>1. IsFiniteSet(1..LastDay)
        BY FS_Interval
      <4>2. \A x : before(x) \subseteq 1..LastDay
        OBVIOUS
      <4>. QED BY <4>1, <4>2, FS_Subset, FS_CardinalityType
    <3>6. ASSUME NEW d \in fired, NEW x \in promised, d \notin promised
          PROVE  x < d
      <4>1. d \in later /\ x \in later /\ d \in Nat /\ x \in Nat
        BY <3>1, <3>4
      <4>2. ~(Cardinality(before(d)) < Shown) /\ Cardinality(before(x)) < Shown
        BY <3>1, <3>6, <4>1
      <4>3. SUFFICES ASSUME ~(x < d) PROVE FALSE
        OBVIOUS
      <4>4. before(d) \subseteq before(x)
        BY <4>1, <4>3
      <4>5. Cardinality(before(d)) <= Cardinality(before(x))
        BY <3>5, <4>1, <4>4, FS_Subset
      <4>. QED BY <3>5, <4>1, <4>2, <4>5
    <3>. QED BY <3>3, <3>6 DEF RunsWhenShown
  <2>. QED BY <2>1, <2>2 DEF CronInv
<1>. QED BY <1>1, CronInvHolds, PTL

-----------------------------------------------------------------------------
(* The services together *)

\* A behaviour of MCRequests is one of each service, so that what is proved of
\* a service is true of it.
THEOREM ServicesHold ==
    Spec => /\ RequestsSpec /\ EnvSpec /\ TokensSpec
            /\ LimiterSpec /\ PreferencesSpec /\ ReqSpec
<1>1. Init => /\ RequestsInit /\ EnvInit /\ TokensInit
              /\ LimiterInit /\ PreferencesInit /\ ReqInit
  BY DEF Init
<1>2. [Next]_<<part, requestVars, envVars, authVars, limiterVars, prefVars, reqVars>> =>
         /\ [RequestsNext]_requestVars /\ [EnvNext]_envVars
         /\ [TokensNext]_authVars /\ [LimiterNext]_limiterVars
         /\ [PreferencesNext]_prefVars /\ [ReqNext]_reqVars
  BY DEF Next, JobsPart, EnvPart, TokensPart, LimiterPart, PreferencesPart,
         RequirementsPart
<1>. QED BY <1>1, <1>2, PTL
     DEF Spec, RequestsSpec, EnvSpec, TokensSpec, LimiterSpec, PreferencesSpec,
         ReqSpec

\* Every service keeps its types.
THEOREM ServicesTypes == Spec => []ServicesTypeOK
<1>1. (/\ IInv /\ EnvInv /\ TokensInv /\ RateInv /\ PrefInv /\ ReqInv)
         => ServicesTypeOK
  BY DEF ServicesTypeOK, IInv, EnvInv, TokensInv, RateInv, PrefInv, ReqInv
<1>. QED BY <1>1, ServicesHold, Invariance, EnvInvHolds, TokensInvHolds,
            RateInvHolds, PrefInvHolds, ReqInvHolds, PTL
=============================================================================
