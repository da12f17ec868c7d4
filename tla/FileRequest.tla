---------------------------- MODULE FileRequest ----------------------------
(***************************************************************************)
(* A loader of glTF files (Apps/BabylonScripts/babylon.glTF2FileLoader.js) *)
(* requests files and is disposed of.  Below it are RequestFile of         *)
(* Babylon.js (Apps/BabylonScripts/babylon.max.js), the XMLHttpRequest     *)
(* polyfill (Polyfills/XMLHttpRequest) and UrlLib (Dependencies/UrlLib),   *)
(* which every platform implements in its own way.                         *)
(*                                                                         *)
(* RequestFile tries a file up to MaxRetries + 1 times, each time with a   *)
(* fresh XMLHttpRequest; call, status, answer and cancelled are those of   *)
(* the latest.  The transfer runs on threads of the platform; its end is   *)
(* dispatched to the JavaScript thread, where the request becomes Done and *)
(* its only listener runs.  Windows cancels a continuation that has not    *)
(* begun, Android a call that has not, Unix and Apple nothing.             *)
(*                                                                         *)
(* No polyfill defines location, which RequestFile reads when a request is *)
(* Done with status 0: this throws unless the application defines it.      *)
(***************************************************************************)
EXTENDS Naturals, Sequences

CONSTANTS Requests,         \* calls of GLTFFileLoader._requestFile
          Local,            \* those whose url holds "file:"
          MaxRetries        \* retries of any other file

ASSUME RetriesAssumption == MaxRetries \in Nat

VARIABLES
  platform,     \* the implementation of UrlLib
  location,     \* "none", or the kind of location.protocol: "file" or "http"
  call,         \* call[r]: how far the request has got
  status,       \* status[r]: m_statusCode: "none" is 0, "ok" is 2xx
  answer,       \* answer[r]: history: what became of the transfer
  cancelled,    \* cancelled[r]: m_cancellationSource
  aborted,      \* aborted[r]: the flag of RequestFile
  tries,        \* tries[r]: retryIndex
  told,         \* told[r]: the callback that has been called
  active,       \* _requests of the loader
  up            \* the process lives

environment == <<platform, location>>
vars == <<platform, location, call, status, answer, cancelled, aborted, tries,
          told, active, up>>

Platforms == {"windows", "android", "unix", "apple"}

\* The content has arrived: "otherSuccess" is a code from 201 to 299, of which
\* only Unix makes something else than of 200.
Arrived == {"success", "otherSuccess"}

\* The server has refused, the transfer broke, or the platform never began it.
Answers == Arrived \cup {"none", "refused", "broken", "unsent"}

Stages == {"new",           \* not requested
           "sent",          \* the platform has the request
           "body",          \* the platform has begun to receive
           "answered",      \* the transfer is complete, Done is dispatched
           "retrying",      \* a timer is set for the next try
           "over"}          \* Done has been handled, or never will

\* retryHandle is no longer null: the request has been tried again, or will be.
Retried(r) == call[r] = "retrying" \/ tries[r] > 0
----------------------------------------------------------------------------
Init == /\ platform \in Platforms
        /\ location \in {"none", "file", "http"}
        /\ call = [r \in Requests |-> "new"]
        /\ status = [r \in Requests |-> "none"]
        /\ answer = [r \in Requests |-> "none"]
        /\ cancelled = [r \in Requests |-> FALSE]
        /\ aborted = [r \in Requests |-> FALSE]
        /\ tries = [r \in Requests |-> 0]
        /\ told = [r \in Requests |-> "none"]
        /\ active = <<>> /\ up = TRUE

\* The loader remembers the request: "loadend", which would end that, is never
\* raised by the polyfill.
Remembered(r) == \E i \in 1 .. Len(active) : active[i] = r

\* GLTFFileLoader._requestFile: open, send, and the loader remembers the request;
\* nothing asks whether the loader has been disposed of.
RequestFile(r) ==
  /\ up /\ call[r] = "new"
  /\ call' = [call EXCEPT ![r] = "sent"]
  /\ active' = Append(active, r)
  /\ UNCHANGED <<environment, status, answer, cancelled, aborted, tries, told, up>>
----------------------------------------------------------------------------
(* The transfer, on threads of the platform.                               *)

Transfer(r, p, stage) == /\ up /\ platform = p /\ call[r] = stage
                         /\ UNCHANGED <<environment, cancelled, aborted, tries, told,
                                        active>>

Move(r, stage, s, a) == /\ call' = [call EXCEPT ![r] = stage]
                        /\ status' = [status EXCEPT ![r] = s]
                        /\ answer' = [answer EXCEPT ![r] = a]
                        /\ UNCHANGED up

\* The task of the transfer fails or is cancelled: nobody hears of it.
Lose(r, s, a) == Move(r, "over", s, a)

\* Windows: the headers arrive, or the local file is open.
WindowsBegin(r) ==
  /\ Transfer(r, "windows", "sent")
  /\ IF cancelled[r] THEN Lose(r, "none", "none")
     ELSE \/ Move(r, "body", "ok", "none")
          \/ Move(r, "body", "none", "none")
          \/ Move(r, "answered", "error", "refused")

\* Windows: the content has been read.
WindowsEnd(r) ==
  /\ Transfer(r, "windows", "body")
  /\ IF cancelled[r] THEN Lose(r, status[r], "none")
                     ELSE Move(r, "answered", "ok", "success")

WindowsFail(r) == /\ \E stage \in {"sent", "body"} : Transfer(r, "windows", stage)
                  /\ Lose(r, status[r], "broken")

\* Android: a thread of the pool takes the call.
AndroidBegin(r) ==
  /\ Transfer(r, "android", "sent")
  /\ IF cancelled[r] THEN Lose(r, "none", "none") ELSE Move(r, "body", "none", "none")

\* Android: the content, a code below 400 that is no success, or a code from
\* 400, whose content cannot be read.
AndroidEnd(r) ==
  /\ Transfer(r, "android", "body")
  /\ \/ Move(r, "answered", "ok", "success")
     \/ Move(r, "answered", "error", "refused")
     \/ Lose(r, "error", "refused")

\* Android: connecting or reading throws, before or after the code has arrived.
AndroidFail(r) == /\ Transfer(r, "android", "body")
                  /\ \E s \in {"none", "ok", "error"} : Lose(r, s, "broken")

\* Mutant of UnixStatus: every transfer that ends well is a success.
UnixStatusLoose(a) == IF a # "broken" THEN "ok" ELSE "none"

\* Unix: the code is kept only when it is 200, or 0 for a local file.
UnixStatus(a) == IF a = "success" THEN "ok" ELSE "none"

\* Unix: the loop completes every transfer, however it went.
UnixEnd(r) ==
  /\ Transfer(r, "unix", "sent")
  /\ \E a \in Arrived \cup {"refused", "broken"} : Move(r, "answered", UnixStatus(a), a)

\* Unix: curl gives no handle, and the request never completes.
UnixUnsent(r) == Transfer(r, "unix", "sent") /\ Lose(r, "none", "unsent")

\* Unix: the loop throws for a transfer under way, on a thread where nobody catches.
UnixFail(r) == /\ Transfer(r, "unix", "sent")
               /\ up' = FALSE
               /\ UNCHANGED <<call, status, answer>>

AppleEnd(r) ==
  /\ Transfer(r, "apple", "sent")
  /\ \/ Move(r, "answered", "ok", "success")
     \/ Move(r, "answered", "error", "refused")

\* Apple: the completion handler throws, on a thread where nobody catches.
AppleFail(r) == /\ Transfer(r, "apple", "sent")
                /\ up' = FALSE
                /\ UNCHANGED <<call, status, answer>>

Network(r) == \/ WindowsBegin(r) \/ WindowsEnd(r) \/ WindowsFail(r)
              \/ AndroidBegin(r) \/ AndroidEnd(r) \/ AndroidFail(r)
              \/ UnixEnd(r) \/ UnixUnsent(r) \/ UnixFail(r)
              \/ AppleEnd(r) \/ AppleFail(r)
----------------------------------------------------------------------------
(* The JavaScript thread.                                                  *)

Tell(r, what) == /\ told' = [told EXCEPT ![r] = what]
                 /\ call' = [call EXCEPT ![r] = "over"]
                 /\ UNCHANGED <<status, answer, cancelled>>

\* Mutant of MayRetry: a retry more than there is.
MayRetryOnce(r) == r \notin Local /\ tries[r] <= MaxRetries

\* Mutant of MayRetry: the last retry is not made.
MayRetryLess(r) == r \notin Local /\ tries[r] + 1 < MaxRetries

\* DefaultRetryStrategy, for a status of 0.
MayRetry(r) == r \notin Local /\ tries[r] < MaxRetries

\* Mutant of Again: no timer is set.
AgainNever(r) == /\ call' = [call EXCEPT ![r] = "over"]
                 /\ status' = [status EXCEPT ![r] = "none"]
                 /\ answer' = [answer EXCEPT ![r] = "none"]
                 /\ cancelled' = [cancelled EXCEPT ![r] = FALSE]
                 /\ UNCHANGED told

\* A fresh request, and a timer to send it.
Again(r) == /\ call' = [call EXCEPT ![r] = "retrying"]
            /\ status' = [status EXCEPT ![r] = "none"]
            /\ answer' = [answer EXCEPT ![r] = "none"]
            /\ cancelled' = [cancelled EXCEPT ![r] = FALSE]
            /\ UNCHANGED told

Success(r) == status[r] = "ok" \/ (status[r] = "none" /\ location = "file")

\* Mutant of Answer: the flag of abort is not read.
AnswerAborted(r) ==
  \/ Success(r) /\ Tell(r, "success")
  \/ status[r] = "none" /\ location = "none" /\ Tell(r, told[r])
  \/ status[r] = "none" /\ location = "http" /\ MayRetry(r) /\ Again(r)
  \/ status[r] = "none" /\ location = "http" /\ ~MayRetry(r) /\ Tell(r, "error")
  \/ status[r] = "error" /\ Tell(r, "error")

\* onReadyStateChange; without location it throws, and the task keeps the error.
Answer(r) ==
  \/ aborted[r] /\ Tell(r, told[r])
  \/ /\ ~aborted[r]
     /\ \/ Success(r) /\ Tell(r, "success")
        \/ status[r] = "none" /\ location = "none" /\ Tell(r, told[r])
        \/ status[r] = "none" /\ location = "http" /\ MayRetry(r) /\ Again(r)
        \/ status[r] = "none" /\ location = "http" /\ ~MayRetry(r) /\ Tell(r, "error")
        \/ status[r] = "error" /\ Tell(r, "error")

\* The continuation of Send: the request is Done.
Done(r) ==
  /\ up /\ call[r] = "answered"
  /\ Answer(r)
  /\ UNCHANGED <<environment, aborted, tries, active, up>>

\* The timer: the next try is sent, aborted or not.
Retry(r) ==
  /\ up /\ call[r] = "retrying"
  /\ call' = [call EXCEPT ![r] = "sent"]
  /\ tries' = [tries EXCEPT ![r] = @ + 1]
  /\ UNCHANGED <<environment, status, answer, cancelled, aborted, told, active, up>>

\* Mutant of AbortAll: a request is marked only while it is transferred.
AbortAllPending(R) ==
  LET pending == {r \in R : call[r] \in {"sent", "body"}}
  IN /\ aborted' = [r \in Requests |-> aborted[r] \/ r \in pending]
     /\ cancelled' = [r \in Requests |-> cancelled[r] \/ r \in pending]

\* abort of each request: the flag, and the transfer unless the request is Done.
AbortAll(R) ==
  /\ aborted' = [r \in Requests |-> aborted[r] \/ r \in R]
  /\ cancelled' = [r \in Requests |-> cancelled[r] \/ (r \in R /\ call[r] # "over")]

\* The client aborts a request; once it has been tried again, abort throws in
\* the end: there is no clearTimeout.
Abort(r) ==
  /\ up /\ call[r] # "new" /\ ~aborted[r]
  /\ AbortAll({r})
  /\ UNCHANGED <<environment, call, status, answer, tries, told, active, up>>

\* GLTFFileLoader.dispose: abort every request the loader remembers, up to the
\* first whose abort throws; unless one does, forget them all.
Dispose ==
  /\ up
  /\ LET reached(i) == \A j \in 1 .. i - 1 : ~Retried(active[j])
     IN AbortAll({active[i] : i \in {j \in 1 .. Len(active) : reached(j)}})
  /\ active' = IF \E i \in 1 .. Len(active) : Retried(active[i]) THEN active ELSE <<>>
  /\ UNCHANGED <<environment, call, status, answer, tries, told, up>>

Next == \/ Dispose
        \/ \E r \in Requests : \/ RequestFile(r) \/ Network(r)
                               \/ Done(r) \/ Retry(r) \/ Abort(r)

Spec == Init /\ [][Next]_vars

\* The network answers in the end, and the JavaScript thread handles what is
\* dispatched to it and its timers; nobody has to request or to abort.
FairSpec == Spec /\ \A r \in Requests : WF_vars(Network(r)) /\ WF_vars(Done(r))
                                          /\ WF_vars(Retry(r))
----------------------------------------------------------------------------
TypeOK ==
  /\ platform \in Platforms /\ location \in {"none", "file", "http"}
  /\ call \in [Requests -> Stages]
  /\ status \in [Requests -> {"none", "ok", "error"}]
  /\ answer \in [Requests -> Answers]
  /\ cancelled \in [Requests -> BOOLEAN] /\ aborted \in [Requests -> BOOLEAN]
  /\ tries \in [Requests -> 0 .. MaxRetries]
  /\ told \in [Requests -> {"none", "success", "error"}]
  /\ active \in Seq(Requests) /\ up \in BOOLEAN

(* At most one of onSuccess and onError is called, once, and neither after   *)
(* abort, however the end of the transfer, the timer and the abort meet      *)
(* (babylon.max.js:141345-141403).                                           *)
OneAnswer ==
  [][\A r \in Requests : told[r] # "none" \/ aborted[r] => told'[r] = told[r]]_vars

(* onSuccess is called only when the content of the file has arrived, except *)
(* for an application that says its location is a file: there RequestFile    *)
(* takes status 0 for a success (babylon.max.js:141385), and on Unix 0 is    *)
(* also the status of every failure (Unix/UrlRequest.cpp:138-149).           *)
SuccessHasContent ==
  \A r \in Requests : told[r] = "success" =>
    answer[r] \in Arrived \/ (platform = "unix" /\ location = "file")

(* onError is called only when the content has not arrived, and when no      *)
(* status arrived only after every retry, the first try included.  The one   *)
(* exception is a code from 201 to 299 on Unix: curl ends it well, with the  *)
(* content, and RequestFile would take it, but the polyfill keeps no status  *)
(* but that of 200, so the file is tried again and again and fails           *)
(* (Unix/UrlRequest.cpp:138-149, babylon.max.js:141380-141400).              *)
ErrorMeansFailure ==
  \A r \in Requests : told[r] = "error" =>
    /\ answer[r] \in Arrived => platform = "unix" /\ answer[r] = "otherSuccess"
    /\ status[r] = "none" => r \in Local \/ tries[r] = MaxRetries

(* A file calls back only while the loader remembers it: once dispose has    *)
(* ended, which forgets them all, none of the files requested before does,   *)
(* however far its transfer, its Done or its timer was.  This needs dispose  *)
(* to end: an abort that throws, as it does for every file that was ever     *)
(* tried again, leaves the files behind it alive and remembered              *)
(* (babylon.glTF2FileLoader.js:5523-5527, babylon.max.js:141350).            *)
DisposedSilent == [][\A r \in Requests : told'[r] # told[r] => Remembered(r)]_vars

(* A request that is Done with a status is answered, unless it is aborted or *)
(* the process ends; and on Unix, where every transfer that has begun        *)
(* becomes Done, every request is, through its retries, if the application   *)
(* defines location and curl has a handle for each try.  On Windows and      *)
(* Android a transfer that fails is never answered.                          *)
RequestTold ==
  \A r \in Requests :
    \/ call[r] = "answered" /\ status[r] # "none"
    \/ call[r] \in {"sent", "retrying"} /\ platform = "unix" /\ location # "none"
    ~> told[r] # "none" \/ aborted[r] \/ ~up \/ answer[r] = "unsent"
=============================================================================
