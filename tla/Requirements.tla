----------------------------- MODULE Requirements -----------------------------
(***************************************************************************)
(* The shared requirements.txt (app/api/config_routes.py): PUT writes the  *)
(* one file of the server and runs pip on it, with no lock, and answers    *)
(* 200 when pip succeeded and 207 when it did not.                         *)
(***************************************************************************)
EXTENDS Naturals

CONSTANTS
    ReqThreads,   \* threads that serve PUT /config/requirements
    ReqTexts,     \* contents
    MaxReqCalls,  \* bound on requests
    NoText,       \* no file, nothing read
    EmptyText,    \* a file just opened for writing
    MixedText     \* a part of a content, or one over the end of another

ASSUME RequirementsAssumption ==
    /\ MaxReqCalls \in Nat
    /\ {NoText, EmptyText, MixedText} \cap ReqTexts = {}

VARIABLES
    reqFile,   \* requirements.txt
    reqCall,   \* what each thread is doing
    reqCalls,  \* requests so far
    newest,    \* history: the content of the last request to open the file
    spoiled    \* history: writes overlapped, failed, or met a restart

reqVars == <<reqFile, reqCall, reqCalls, newest, spoiled>>

ReqFileText == ReqTexts \union {NoText, EmptyText, MixedText}

ReqRequest == [at : {"idle", "fill", "pip", "install", "answered"},
               text : ReqTexts \union {NoText},   \* the body
               read : ReqFileText,                \* what pip has read
               code : {0, 200, 207, 500},         \* the answer
               crossed : BOOLEAN]        \* history: another opened the file

ReqIdle == [at |-> "idle", text |-> NoText, read |-> NoText, code |-> 0,
            crossed |-> FALSE]

ReqTypeOK ==
    /\ reqFile \in ReqFileText
    /\ reqCall \in [ReqThreads -> ReqRequest]
    /\ reqCalls \in 0..MaxReqCalls
    /\ newest \in ReqTexts \union {NoText}
    /\ spoiled \in BOOLEAN

ReqInit ==
    /\ reqFile = NoText
    /\ reqCall = [t \in ReqThreads |-> ReqIdle]
    /\ reqCalls = 0
    /\ newest = NoText
    /\ spoiled = FALSE

-----------------------------------------------------------------------------
AtWork(t) == {u \in ReqThreads \ {t} : reqCall[u].at \notin {"idle", "answered"}}
Filling(t) == {u \in ReqThreads \ {t} : reqCall[u].at = "fill"}

\* open(req_path, "w") empties the file.
PutOpen(t, text) ==
    /\ reqCall[t].at \in {"idle", "answered"}
    /\ reqCalls < MaxReqCalls
    /\ reqCalls' = reqCalls + 1
    /\ reqFile' = EmptyText
    /\ newest' = text
    /\ spoiled' = (Filling(t) # {})
    /\ reqCall' = [u \in ReqThreads |->
          IF u = t THEN [ReqIdle EXCEPT !.at = "fill", !.text = text,
                                        !.crossed = AtWork(t) # {}]
          ELSE [reqCall[u] EXCEPT !.crossed = @ \/ u \in AtWork(t)]]

\* Seeded bug for AnsweredIsInstalled: pip starts before the file is closed.
PutFill_Buffered(t) ==
    /\ reqCall[t].at = "fill"
    /\ reqCall' = [reqCall EXCEPT ![t].at = "pip"]
    /\ UNCHANGED <<reqFile, reqCalls, newest, spoiled>>

\* write and close, over what another has put there since, if anything.
PutFill(t) ==
    LET text == reqCall[t].text IN
    /\ reqCall[t].at = "fill"
    /\ \/ reqFile' = text
       \/ reqFile \notin {EmptyText, text} /\ reqFile' = MixedText
    /\ reqCall' = [reqCall EXCEPT ![t].at = "pip"]
    /\ UNCHANGED <<reqCalls, newest, spoiled>>

\* write or close raises: the file keeps what it has, or gets a part.
PutFails(t) ==
    /\ reqCall[t].at = "fill"
    /\ reqFile' \in {reqFile, MixedText}
    /\ spoiled' = TRUE
    /\ reqCall' = [reqCall EXCEPT ![t].at = "answered", ![t].code = 500]
    /\ UNCHANGED <<reqCalls, newest>>

\* pip opens the file, in its own time ...
PipReads(t) ==
    /\ reqCall[t].at = "pip"
    /\ reqCall' = [reqCall EXCEPT ![t].at = "install", ![t].read = reqFile]
    /\ UNCHANGED <<reqFile, reqCalls, newest, spoiled>>

\* ... and succeeds, fails, or is killed after 300 seconds; it may also not
\* have started.
PipEnds(t, code) ==
    /\ \/ reqCall[t].at = "install"
       \/ reqCall[t].at = "pip" /\ code = 207
    /\ reqCall' = [reqCall EXCEPT ![t].at = "answered", ![t].code = code]
    /\ UNCHANGED <<reqFile, reqCalls, newest, spoiled>>

\* The server dies and comes back; the file stays as it is.
ReqRestart ==
    /\ reqCalls < MaxReqCalls
    /\ reqCalls' = reqCalls + 1
    /\ spoiled' = (spoiled \/ \E t \in ReqThreads : reqCall[t].at = "fill")
    /\ reqCall' = [t \in ReqThreads |-> ReqIdle]
    /\ UNCHANGED <<reqFile, newest>>

ReqNext ==
    \/ \E t \in ReqThreads :
          \/ \E text \in ReqTexts : PutOpen(t, text)
          \/ PutFill(t) \/ PutFails(t) \/ PipReads(t)
          \/ \E code \in {200, 207} : PipEnds(t, code)
    \/ ReqRestart

ReqSpec == ReqInit /\ [][ReqNext]_reqVars

-----------------------------------------------------------------------------
(* Properties *)

\* A 200 means that pip installed the content the answer repeats, unless
\* another request opened the file meanwhile; and with no request between open
\* and close, GET shows the content of the last request, unless two writes
\* overlapped, one failed or a restart cut one: then it may be empty, mixed, or
\* older.
AnsweredIsInstalled ==
    /\ \A t \in ReqThreads :
          (reqCall[t].code = 200 /\ ~reqCall[t].crossed) =>
              reqCall[t].read = reqCall[t].text
    /\ (~spoiled /\ \A t \in ReqThreads : reqCall[t].at # "fill") =>
          reqFile = newest

=============================================================================
