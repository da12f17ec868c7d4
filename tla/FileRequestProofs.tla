------------------------- MODULE FileRequestProofs -------------------------
(***************************************************************************)
(* Proofs about FileRequest, for every set of files and every number of    *)
(* retries.  The invariant says what the end of a transfer means while its *)
(* Done is on the way, that a request that has been answered is over, and  *)
(* that the loader remembers every request it has not aborted, so that     *)
(* dispose reaches it.                                                     *)
(***************************************************************************)
EXTENDS FileRequest, TLAPS

\* What is on its way to the JavaScript thread is what the server made of it.
AnsweredInv ==
  \A r \in Requests : call[r] = "answered" =>
    /\ status[r] = "ok" => answer[r] = "success"
    /\ status[r] = "error" => answer[r] = "refused"
    /\ status[r] = "none" => platform = "unix" /\ answer[r] # "success"

\* Who has been told is done.
ToldInv == \A r \in Requests : told[r] # "none" => call[r] = "over"

\* The loader remembers every request it has not aborted.
RememberedInv == \A r \in Requests : call[r] = "new" \/ aborted[r] \/ Remembered(r)

\* A timer is set only for a retry that may be made.
RetryInv == \A r \in Requests : call[r] = "retrying" => tries[r] < MaxRetries

IInv == /\ TypeOK /\ AnsweredInv /\ ToldInv /\ RetryInv /\ RememberedInv
        /\ SuccessHasContent /\ ErrorMeansFailure

\* The steps of the platforms in one form, as far as the invariant can tell.
Moves(r) ==
  /\ call[r] \in {"sent", "body"}
  /\ UNCHANGED <<environment, cancelled, aborted, tries, told, active>>
  /\ \/ \E stage \in {"body", "answered", "over"}, s \in {"none", "ok", "error"},
           a \in Answers :
          /\ Move(r, stage, s, a)
          /\ stage = "answered" => \/ s = "ok" /\ a = "success"
                                   \/ s = "error" /\ a = "refused"
                                   \/ s = "none" /\ platform = "unix" /\ a # "success"
     \/ up' = FALSE /\ UNCHANGED <<call, status, answer>>

\* Every step of every platform is of that form.
LEMMA NetworkMoves ==
  ASSUME TypeOK, NEW r \in Requests, Network(r)
  PROVE  Moves(r)
<1> USE DEF Answers, Arrived
<1>1. status[r] \in {"none", "ok", "error"}
  BY DEF TypeOK
<1>2. CASE WindowsBegin(r)
  <2>1. CASE cancelled[r]
    BY <1>2, <2>1 DEF WindowsBegin, Transfer, Lose, Moves
  <2>2. CASE ~cancelled[r]
    BY <1>2, <2>2 DEF WindowsBegin, Transfer, Moves
  <2> QED BY <2>1, <2>2
<1>3. CASE WindowsEnd(r)
  <2>1. CASE cancelled[r]
    BY <1>1, <1>3, <2>1 DEF WindowsEnd, Transfer, Lose, Moves
  <2>2. CASE ~cancelled[r]
    BY <1>3, <2>2 DEF WindowsEnd, Transfer, Moves
  <2> QED BY <2>1, <2>2
<1>4. CASE WindowsFail(r)
  BY <1>1, <1>4 DEF WindowsFail, Transfer, Lose, Moves
<1>5. CASE AndroidBegin(r)
  <2>1. CASE cancelled[r]
    BY <1>5, <2>1 DEF AndroidBegin, Transfer, Lose, Moves
  <2>2. CASE ~cancelled[r]
    BY <1>5, <2>2 DEF AndroidBegin, Transfer, Moves
  <2> QED BY <2>1, <2>2
<1>6. CASE AndroidEnd(r)
  BY <1>6 DEF AndroidEnd, Transfer, Lose, Moves
<1>7. CASE AndroidFail(r)
  BY <1>7 DEF AndroidFail, Transfer, Lose, Moves
<1>8. CASE UnixEnd(r)
  <2>1. PICK a \in Arrived \cup {"refused", "broken"} :
          Move(r, "answered", UnixStatus(a), a)
    BY <1>8 DEF UnixEnd
  <2>2. \/ UnixStatus(a) = "ok" /\ a = "success"
        \/ UnixStatus(a) = "none" /\ a # "success"
    BY DEF UnixStatus
  <2>3. a \in Answers
    BY DEF Answers
  <2> QED BY <1>8, <2>1, <2>2, <2>3 DEF UnixEnd, Transfer, Moves, UnixStatus
<1>9. CASE AppleEnd(r)
  BY <1>9 DEF AppleEnd, Transfer, Moves
<1>10. CASE AppleFail(r) \/ UnixFail(r)
  BY <1>10 DEF AppleFail, UnixFail, Transfer, Moves
<1>11. CASE UnixUnsent(r)
  BY <1>11 DEF UnixUnsent, Transfer, Lose, Moves
<1> QED BY <1>2, <1>3, <1>4, <1>5, <1>6, <1>7, <1>8, <1>9, <1>10, <1>11 DEF Network

\* What onReadyStateChange does, as far as the invariant can tell.
Replies(r) ==
  \/ Tell(r, told[r])
  \/ /\ Tell(r, "success") /\ ~aborted[r]
     /\ answer[r] \in Arrived \/ (platform = "unix" /\ location = "file")
  \/ /\ Tell(r, "error") /\ ~aborted[r]
     /\ answer[r] \in Arrived => platform = "unix" /\ answer[r] = "otherSuccess"
     /\ status[r] = "none" => r \in Local \/ tries[r] = MaxRetries
  \/ Again(r) /\ ~aborted[r] /\ tries[r] < MaxRetries

\* It does one of these.
LEMMA DoneReplies ==
  ASSUME TypeOK, AnsweredInv, NEW r \in Requests, Done(r)
  PROVE  Replies(r)
<1>1. call[r] = "answered" /\ Answer(r)
  BY DEF Done
<1>2. CASE aborted[r]
  BY <1>1, <1>2 DEF Answer, Replies
<1>3. CASE ~aborted[r] /\ status[r] = "ok"
  BY <1>1, <1>3 DEF Answer, Replies, Success, AnsweredInv, Arrived
<1>4. CASE ~aborted[r] /\ status[r] = "error"
  <2>1. answer[r] \notin Arrived /\ status[r] # "none"
    BY <1>1, <1>4 DEF AnsweredInv, Arrived
  <2> QED BY <1>1, <1>4, <2>1 DEF Answer, Replies, Success
<1>5. CASE ~aborted[r] /\ status[r] = "none"
  <2>1. platform = "unix" /\ answer[r] # "success"
    BY <1>1, <1>5 DEF AnsweredInv
  <2>2. MayRetry(r) => tries[r] < MaxRetries
    BY DEF MayRetry
  <2>3. ~MayRetry(r) => r \in Local \/ tries[r] = MaxRetries
    BY RetriesAssumption DEF MayRetry, TypeOK
  <2>4. answer[r] \in Arrived => answer[r] = "otherSuccess"
    BY <2>1 DEF Arrived
  <2> QED BY <1>1, <1>5, <2>1, <2>2, <2>3, <2>4 DEF Answer, Replies, Success
<1> QED BY <1>2, <1>3, <1>4, <1>5 DEF TypeOK
----------------------------------------------------------------------------
\* The invariant holds initially: nothing has been requested.
LEMMA InitInv == Init => IInv
  BY RetriesAssumption
     DEF Init, IInv, TypeOK, Platforms, Stages, Answers, AnsweredInv, ToldInv, RetryInv,
         RememberedInv, Remembered, SuccessHasContent, ErrorMeansFailure

\* A request is made: it is the last the loader remembers.
LEMMA RequestStep ==
  ASSUME IInv, NEW r \in Requests, RequestFile(r)
  PROVE  IInv'
<1> USE DEF IInv, RequestFile, environment
<1>1. TypeOK'
  BY DEF TypeOK, Stages
<1>2. RememberedInv'
  <2>1. active' = Append(active, r) /\ active \in Seq(Requests)
    BY DEF TypeOK
  <2>2. Len(active') = Len(active) + 1 /\ active'[Len(active) + 1] = r /\ Len(active) \in Nat
    BY <2>1
  <2>3. \A i \in 1 .. Len(active) : active'[i] = active[i]
    BY <2>1
  <2> SUFFICES ASSUME NEW q \in Requests, call'[q] # "new", ~aborted'[q]
               PROVE  \E i \in 1 .. Len(active') : active'[i] = q
    BY DEF RememberedInv, Remembered
  <2>4. CASE q = r
    BY <2>2, <2>4
  <2>5. CASE q # r
    <3>1. PICK i \in 1 .. Len(active) : active[i] = q
      BY <2>5 DEF TypeOK, RememberedInv, Remembered
    <3> QED BY <2>2, <2>3, <3>1
  <2> QED BY <2>4, <2>5
<1>3. AnsweredInv' /\ ToldInv' /\ RetryInv'
  BY RetriesAssumption DEF TypeOK, AnsweredInv, ToldInv, RetryInv
<1>4. SuccessHasContent' /\ ErrorMeansFailure'
  BY DEF TypeOK, SuccessHasContent, ErrorMeansFailure
<1> QED BY <1>1, <1>2, <1>3, <1>4

\* A step of the platform: it never touches a request that has been answered.
LEMMA NetworkStep ==
  ASSUME IInv, NEW r \in Requests, Network(r)
  PROVE  IInv'
<1>1. Moves(r)
  BY NetworkMoves DEF IInv
<1>2. CASE up' = FALSE /\ UNCHANGED <<call, status, answer>>
  BY <1>1, <1>2 DEF IInv, Moves, environment, TypeOK, AnsweredInv, ToldInv, RetryInv,
     RememberedInv, Remembered, SuccessHasContent, ErrorMeansFailure
<1>3. CASE ~(up' = FALSE /\ UNCHANGED <<call, status, answer>>)
  <2>1. PICK stage \in {"body", "answered", "over"}, s \in {"none", "ok", "error"},
             a \in Answers :
          /\ Move(r, stage, s, a)
          /\ stage = "answered" => \/ s = "ok" /\ a = "success"
                                   \/ s = "error" /\ a = "refused"
                                   \/ s = "none" /\ platform = "unix" /\ a # "success"
    BY <1>1, <1>3 DEF Moves
  <2>2. /\ call' = [call EXCEPT ![r] = stage] /\ status' = [status EXCEPT ![r] = s]
        /\ answer' = [answer EXCEPT ![r] = a] /\ up' = up
        /\ call[r] \in {"sent", "body"}
        /\ platform' = platform /\ location' = location /\ cancelled' = cancelled
        /\ aborted' = aborted /\ tries' = tries /\ told' = told
        /\ active' = active
    BY <1>1, <2>1 DEF Move, Moves, environment
  <2>3. TypeOK'
    BY <2>2 DEF IInv, TypeOK, Stages
  <2>4. AnsweredInv'
    BY <2>1, <2>2 DEF IInv, TypeOK, AnsweredInv
  <2>5. ToldInv' /\ RetryInv' /\ RememberedInv'
    BY <2>2 DEF IInv, TypeOK, ToldInv, RetryInv, RememberedInv, Remembered
  <2>6. told[r] = "none"
    BY <2>2 DEF IInv, TypeOK, ToldInv
  <2>7. SuccessHasContent' /\ ErrorMeansFailure'
    BY <2>2, <2>6 DEF IInv, TypeOK, SuccessHasContent, ErrorMeansFailure
  <2> QED BY <2>3, <2>4, <2>5, <2>7 DEF IInv
<1> QED BY <1>2, <1>3

\* The request is Done: it is over, or its next try is on its way.
LEMMA DoneStep ==
  ASSUME IInv, NEW r \in Requests, Done(r)
  PROVE  IInv'
<1>1. Replies(r) /\ call[r] = "answered" /\ told[r] = "none"
  BY DoneReplies DEF IInv, Done, ToldInv, TypeOK
<1>2. /\ platform' = platform /\ location' = location /\ aborted' = aborted
      /\ tries' = tries /\ active' = active /\ up' = up
  BY DEF Done, environment
<1>3. CASE Again(r) /\ tries[r] < MaxRetries
  <2>1. /\ call' = [call EXCEPT ![r] = "retrying"] /\ status' = [status EXCEPT ![r] = "none"]
        /\ answer' = [answer EXCEPT ![r] = "none"] /\ told' = told
        /\ cancelled' = [cancelled EXCEPT ![r] = FALSE]
    BY <1>3 DEF Again
  <2>2. TypeOK'
    BY <1>2, <2>1 DEF IInv, TypeOK, Stages, Answers
  <2>3. AnsweredInv' /\ ToldInv' /\ RetryInv' /\ RememberedInv'
    BY <1>1, <1>2, <1>3, <2>1 DEF IInv, TypeOK, AnsweredInv, ToldInv, RetryInv, RememberedInv, Remembered
  <2>4. SuccessHasContent' /\ ErrorMeansFailure'
    BY <1>1, <1>2, <2>1 DEF IInv, TypeOK, SuccessHasContent, ErrorMeansFailure
  <2> QED BY <2>2, <2>3, <2>4 DEF IInv
<1>4. CASE ~(Again(r) /\ tries[r] < MaxRetries)
  <2>1. PICK w \in {"none", "success", "error"} :
          /\ Tell(r, w)
          /\ w = "success" => answer[r] \in Arrived \/ (platform = "unix" /\ location = "file")
          /\ w = "error" => /\ answer[r] \in Arrived =>
                                 platform = "unix" /\ answer[r] = "otherSuccess"
                            /\ status[r] = "none" => r \in Local \/ tries[r] = MaxRetries
    BY <1>1, <1>4 DEF Replies
  <2>2. /\ told' = [told EXCEPT ![r] = w] /\ call' = [call EXCEPT ![r] = "over"]
        /\ status' = status /\ answer' = answer /\ cancelled' = cancelled
    BY <2>1 DEF Tell
  <2>3. TypeOK'
    BY <1>2, <2>2 DEF IInv, TypeOK, Stages
  <2>4. AnsweredInv' /\ ToldInv' /\ RetryInv' /\ RememberedInv'
    BY <1>1, <1>2, <2>2 DEF IInv, TypeOK, AnsweredInv, ToldInv, RetryInv, RememberedInv, Remembered
  <2>5. SuccessHasContent'
    BY <1>2, <2>1, <2>2 DEF IInv, TypeOK, SuccessHasContent
  <2>6. ErrorMeansFailure'
    BY <1>2, <2>1, <2>2 DEF IInv, TypeOK, ErrorMeansFailure
  <2> QED BY <2>3, <2>4, <2>5, <2>6 DEF IInv
<1> QED BY <1>3, <1>4

\* The timer sends the next try.
LEMMA RetryStep ==
  ASSUME IInv, NEW r \in Requests, Retry(r)
  PROVE  IInv'
<1> USE DEF IInv, Retry, environment
<1>1. TypeOK'
  <2>1. tries[r] + 1 \in 0 .. MaxRetries
    BY RetriesAssumption DEF TypeOK, RetryInv
  <2> QED BY <2>1 DEF TypeOK, Stages
<1>2. told[r] = "none"
  BY DEF ToldInv, TypeOK
<1>3. AnsweredInv' /\ ToldInv' /\ RetryInv' /\ RememberedInv'
  BY <1>2 DEF TypeOK, AnsweredInv, ToldInv, RetryInv, RememberedInv, Remembered
<1>4. SuccessHasContent' /\ ErrorMeansFailure'
  BY <1>2 DEF TypeOK, SuccessHasContent, ErrorMeansFailure
<1> QED BY <1>1, <1>3, <1>4

\* The client aborts a request.
LEMMA AbortStep ==
  ASSUME IInv, NEW r \in Requests, Abort(r)
  PROVE  IInv'
  BY DEF IInv, Abort, AbortAll, environment, TypeOK, AnsweredInv, ToldInv, RetryInv,
     RememberedInv, Remembered, SuccessHasContent, ErrorMeansFailure

\* The loader is disposed of: unless an abort throws, every request is reached.
LEMMA DisposeStep ==
  ASSUME IInv, Dispose
  PROVE  IInv'
<1> DEFINE R == {active[i] : i \in {j \in 1 .. Len(active) :
                                      \A k \in 1 .. j - 1 : ~Retried(active[k])}}
<1>1. /\ AbortAll(R) /\ UNCHANGED <<environment, call, status, answer, tries, told, up>>
      /\ active' = IF \E i \in 1 .. Len(active) : Retried(active[i]) THEN active ELSE <<>>
  BY DEF Dispose
<1>2. TypeOK'
  BY <1>1 DEF IInv, TypeOK, AbortAll, environment
<1>3. RememberedInv'
  <2> SUFFICES ASSUME NEW r \in Requests, call[r] # "new", ~aborted[r], ~Remembered(r)'
               PROVE  aborted'[r]
    BY <1>1 DEF RememberedInv, Remembered, AbortAll
  <2>1. PICK i \in 1 .. Len(active) : active[i] = r
    BY DEF IInv, RememberedInv, Remembered
  <2>2. \A k \in 1 .. Len(active) : ~Retried(active[k])
    BY <1>1, <2>1 DEF Remembered
  <2>3. Len(active) \in Nat /\ \A k \in 1 .. i - 1 : k \in 1 .. Len(active)
    BY DEF IInv, TypeOK
  <2>4. r \in R
    BY <2>1, <2>2, <2>3
  <2> QED BY <1>1, <2>4 DEF AbortAll
<1>4. AnsweredInv' /\ ToldInv' /\ RetryInv'
  BY <1>1 DEF IInv, AnsweredInv, ToldInv, RetryInv, environment
<1>5. SuccessHasContent' /\ ErrorMeansFailure'
  BY <1>1 DEF IInv, SuccessHasContent, ErrorMeansFailure, environment
<1> QED BY <1>2, <1>3, <1>4, <1>5 DEF IInv

\* The invariant holds in every reachable state.
THEOREM Invariant == Spec => []IInv
<1>1. Init => IInv
  BY InitInv
<1>2. IInv /\ [Next]_vars => IInv'
  <2> SUFFICES ASSUME IInv, [Next]_vars PROVE IInv'
    OBVIOUS
  <2>1. ASSUME NEW r \in Requests, RequestFile(r) PROVE IInv'
    BY <2>1, RequestStep
  <2>2. ASSUME NEW r \in Requests, Network(r) PROVE IInv'
    BY <2>2, NetworkStep
  <2>3. ASSUME NEW r \in Requests, Done(r) PROVE IInv'
    BY <2>3, DoneStep
  <2>4. ASSUME NEW r \in Requests, Retry(r) PROVE IInv'
    BY <2>4, RetryStep
  <2>5. ASSUME NEW r \in Requests, Abort(r) PROVE IInv'
    BY <2>5, AbortStep
  <2>6. CASE Dispose
    BY <2>6, DisposeStep
  <2>7. CASE UNCHANGED vars
    BY <2>7 DEF vars, environment, IInv, TypeOK, AnsweredInv, ToldInv, RetryInv,
       RememberedInv, Remembered, SuccessHasContent, ErrorMeansFailure
  <2> QED BY <2>1, <2>2, <2>3, <2>4, <2>5, <2>6, <2>7 DEF Next
<1> QED BY <1>1, <1>2, PTL DEF Spec

(* The types, for any number of files and retries: in particular, no file is *)
(* tried again more often than DefaultRetryStrategy allows.                  *)
THEOREM TypesHold == Spec => []TypeOK
  BY Invariant, PTL DEF IInv

(* onSuccess means that the content has arrived, up to the exception that    *)
(* SuccessHasContent names.                                                  *)
THEOREM ContentHolds == Spec => []SuccessHasContent
  BY Invariant, PTL DEF IInv

(* onError means that the content has not arrived, or came with a code from  *)
(* 201 to 299 on Unix, and that every retry there could be has been made.    *)
THEOREM ErrorHolds == Spec => []ErrorMeansFailure
  BY Invariant, PTL DEF IInv

\* What a step does to what a request has been told.
LEMMA ToldStep ==
  ASSUME IInv, [Next]_vars, NEW r \in Requests, told'[r] # told[r]
  PROVE  call[r] = "answered" /\ ~aborted[r]
<1>1. PICK q \in Requests : Done(q)
  <2>1. ASSUME NEW q \in Requests, Network(q) PROVE told' = told
    BY <2>1, NetworkMoves DEF IInv, Moves
  <2> QED BY <2>1 DEF Next, vars, RequestFile, Retry, Abort, Dispose
<1>2. Replies(q) /\ call[q] = "answered"
  BY <1>1, DoneReplies DEF IInv, Done
<1>3. q = r
  BY <1>2 DEF Replies, Tell, Again, IInv, TypeOK
<1> QED BY <1>2, <1>3 DEF Replies, Tell, IInv, TypeOK

(* A request is answered at most once, and never after it has been aborted.  *)
THEOREM AnsweredOnce == Spec => OneAnswer
<1>1. IInv /\ [Next]_vars =>
        [\A r \in Requests : told[r] # "none" \/ aborted[r] => told'[r] = told[r]]_vars
  BY ToldStep DEF IInv, ToldInv
<1> QED BY <1>1, Invariant, PTL DEF Spec, OneAnswer

(* A file calls back only while the loader remembers it: never after a       *)
(* dispose that ended, even if other files are requested after it.           *)
THEOREM DisposedHolds == Spec => DisposedSilent
<1>1. IInv /\ [Next]_vars => [\A r \in Requests : told'[r] # told[r] => Remembered(r)]_vars
  <2> SUFFICES ASSUME IInv, [Next]_vars, NEW r \in Requests, told'[r] # told[r]
               PROVE  Remembered(r)
    OBVIOUS
  <2>1. call[r] = "answered" /\ ~aborted[r]
    BY ToldStep
  <2> QED BY <2>1 DEF IInv, RememberedInv, Remembered
<1> QED BY <1>1, Invariant, PTL DEF Spec, DisposedSilent
----------------------------------------------------------------------------
(* Who never hears of a request: the part of RequestTold that does not       *)
(* depend on scheduling.                                                     *)

\* A transfer is cancelled by abort only.
CancelInv == \A r \in Requests : cancelled[r] => aborted[r]

\* A request has ended, and its client, who has not aborted it, is not told.
Unheard(r) == call[r] = "over" /\ told[r] = "none" /\ ~aborted[r]

(* The ways to that: the transfer broke, which Windows and Android keep to   *)
(* themselves; the server refused, with a code whose content Android cannot  *)
(* read; or, on Unix, curl had no handle for it, or no status came and the   *)
(* application defines no location.                                          *)
Lost(r) == \/ platform = "windows" /\ answer[r] = "broken"
           \/ platform = "android" /\ answer[r] \in {"refused", "broken"}
           \/ /\ platform = "unix" /\ status[r] = "none"
              /\ answer[r] = "unsent" \/ location = "none"

LostInv == \A r \in Requests : Unheard(r) => Lost(r)

\* A transfer that is lost, and not because it was aborted.
LEMMA NetworkLoses ==
  ASSUME TypeOK, CancelInv, NEW r \in Requests, Network(r), call'[r] = "over", call[r] # "over",
         ~aborted[r]
  PROVE  Lost(r)'
<1>1. ~cancelled[r] /\ UNCHANGED <<platform, location>>
  BY NetworkMoves DEF CancelInv, Moves, environment
<1>2. \A stage, s, a : Move(r, stage, s, a) =>
        call'[r] = stage /\ status'[r] = s /\ answer'[r] = a
  BY DEF TypeOK, Move
<1>3. CASE WindowsBegin(r) \/ WindowsEnd(r)
  BY <1>1, <1>2, <1>3 DEF WindowsBegin, WindowsEnd
<1>4. CASE WindowsFail(r)
  BY <1>1, <1>2, <1>4 DEF WindowsFail, Transfer, Lose, Lost
<1>5. CASE AndroidBegin(r)
  BY <1>1, <1>2, <1>5 DEF AndroidBegin
<1>6. CASE AndroidEnd(r)
  BY <1>1, <1>2, <1>6 DEF AndroidEnd, Transfer, Lose, Lost
<1>7. CASE AndroidFail(r)
  BY <1>1, <1>2, <1>7 DEF AndroidFail, Transfer, Lose, Lost
<1>8. CASE UnixEnd(r) \/ UnixFail(r) \/ AppleEnd(r) \/ AppleFail(r)
  BY <1>2, <1>8 DEF UnixEnd, UnixFail, AppleEnd, AppleFail
<1>9. CASE UnixUnsent(r)
  BY <1>1, <1>2, <1>9 DEF UnixUnsent, Transfer, Lose, Lost
<1> QED BY <1>3, <1>4, <1>5, <1>6, <1>7, <1>8, <1>9 DEF Network

\* Done tells the client, tries again, or finds no location.
LEMMA DoneTells ==
  ASSUME IInv, NEW r \in Requests, Done(r), ~aborted[r], call'[r] = "over", told'[r] = "none"
  PROVE  Lost(r) /\ UNCHANGED <<platform, location, answer, status>>
<1>1. call[r] = "answered" /\ Answer(r) /\ UNCHANGED <<platform, location>>
  BY DEF Done, environment
<1>2. \A what : Tell(r, what) => told'[r] = what /\ UNCHANGED <<answer, status>>
  BY DEF IInv, TypeOK, Tell
<1>3. Again(r) => call'[r] = "retrying"
  BY DEF IInv, TypeOK, Again
<1>4. status[r] = "none" /\ location = "none" /\ Tell(r, told[r])
  BY <1>1, <1>2, <1>3 DEF Answer
<1>5. platform = "unix"
  BY <1>1, <1>4 DEF IInv, AnsweredInv
<1> QED BY <1>1, <1>2, <1>4, <1>5 DEF Lost

LEMMA LostStep == IInv /\ CancelInv /\ LostInv /\ [Next]_vars => CancelInv' /\ LostInv'
<1> SUFFICES ASSUME IInv, CancelInv, LostInv, [Next]_vars PROVE CancelInv' /\ LostInv'
  OBVIOUS
<1>0. TypeOK
  BY DEF IInv
\* Steps that leave the requests as they are.
<1>1. ASSUME UNCHANGED <<platform, location, status, answer, told>>,
             \A q \in Requests : /\ aborted[q] => aborted'[q]
                                 /\ call'[q] = "over" => call[q] = "over"
      PROVE  LostInv'
  BY <1>0, <1>1 DEF LostInv, Unheard, Lost
<1>2. ASSUME NEW r \in Requests, RequestFile(r) \/ Retry(r) PROVE CancelInv' /\ LostInv'
  <2>1. /\ UNCHANGED <<platform, location, status, answer, told, aborted, cancelled>>
        /\ \A q \in Requests : call'[q] = "over" => call[q] = "over"
    BY <1>0, <1>2 DEF RequestFile, Retry, environment, TypeOK
  <2> QED BY <1>1, <2>1 DEF CancelInv
<1>3. ASSUME NEW R, AbortAll(R), UNCHANGED <<platform, location, call, status, answer, told>>
      PROVE  CancelInv' /\ LostInv'
  <2>1. \A q \in Requests : /\ aborted[q] => aborted'[q]
                            /\ cancelled'[q] => cancelled[q] \/ aborted'[q]
    BY <1>3 DEF AbortAll
  <2> QED BY <1>1, <1>3, <2>1 DEF CancelInv, AbortAll
<1>4. CASE Dispose \/ (\E r \in Requests : Abort(r))
  BY <1>3, <1>4 DEF Dispose, Abort, environment
<1>5. ASSUME NEW r \in Requests, Network(r) PROVE CancelInv' /\ LostInv'
  <2>0. Moves(r) /\ UNCHANGED <<platform, location, cancelled, aborted, told>>
    BY <1>0, <1>5, NetworkMoves DEF Moves, environment
  <2>1. /\ UNCHANGED <<platform, location, cancelled, aborted, told>> /\ call[r] \in {"sent", "body"}
        /\ \A q \in Requests \ {r} : /\ call'[q] = call[q] /\ status'[q] = status[q]
                                     /\ answer'[q] = answer[q]
    <3>1. \A stage, s, a : Move(r, stage, s, a) =>
            \A q \in Requests \ {r} : /\ call'[q] = call[q] /\ status'[q] = status[q]
                                      /\ answer'[q] = answer[q]
      BY <1>0 DEF Move, TypeOK
    <3> QED BY <2>0, <3>1 DEF Moves
  <2>2. Unheard(r)' => Lost(r)'
    BY <1>0, <1>5, <2>1, NetworkLoses DEF Unheard
  <2>3. \A q \in Requests \ {r} : Unheard(q)' => Lost(q)'
    BY <2>1 DEF LostInv, Unheard, Lost
  <2> QED BY <2>1, <2>2, <2>3 DEF CancelInv, LostInv
<1>6. ASSUME NEW r \in Requests, Done(r) PROVE CancelInv' /\ LostInv'
  <2>1. Replies(r) /\ UNCHANGED <<platform, location, aborted>>
    BY <1>6, DoneReplies DEF Done, environment, IInv
  <2>2. /\ \A q \in Requests \ {r} : /\ call'[q] = call[q] /\ status'[q] = status[q]
                                     /\ answer'[q] = answer[q] /\ told'[q] = told[q]
        /\ \A q \in Requests : cancelled'[q] => cancelled[q]
    BY <1>0, <2>1 DEF Replies, Tell, Again, TypeOK
  <2>3. Unheard(r)' => Lost(r)'
    BY <1>6, <2>1, DoneTells DEF Unheard, Lost
  <2>4. \A q \in Requests \ {r} : Unheard(q)' => Lost(q)'
    BY <2>1, <2>2 DEF LostInv, Unheard, Lost
  <2> QED BY <2>1, <2>2, <2>3, <2>4 DEF CancelInv, LostInv
<1>7. CASE UNCHANGED vars
  BY <1>7 DEF vars, environment, CancelInv, LostInv, Unheard, Lost
<1> QED BY <1>2, <1>4, <1>5, <1>6, <1>7 DEF Next

(* A client that has not aborted its request hears of its end, on every      *)
(* platform and through every retry, but in the cases that Lost names; on    *)
(* Unix there is none if curl has its handles and the application defines    *)
(* location, and on Apple none at all, where a transfer that fails ends the  *)
(* process                                                                   *)
(* (babylon.max.js:141345-141403, Windows/UrlRequest.cpp:64-178,             *)
(* Android/UrlRequest.cpp:61-136, Unix/UrlRequest.cpp:113-190).              *)
THEOREM UnheardOnlyIfLost == Spec => [](\A r \in Requests : Unheard(r) => Lost(r))
<1>1. Init => CancelInv /\ LostInv
  BY DEF Init, CancelInv, LostInv, Unheard
<1>2. LostInv => \A r \in Requests : Unheard(r) => Lost(r)
  BY DEF LostInv
<1> QED BY <1>1, <1>2, LostStep, Invariant, PTL DEF Spec
============================================================================
