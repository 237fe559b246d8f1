--------------------------- MODULE HttpSenderProofs ---------------------------
(***************************************************************************)
(* Proofs about HttpSender, for any names, addresses and destinations, any *)
(* number of hops and any timeouts that fit the signature's tolerance.     *)
(*                                                                         *)
(* A pin is only as good as the check it comes from, so the invariant      *)
(* carries the address from the check to the request (Pinned); and an      *)
(* attempt's requests and its age are bounded by the hops it has made      *)
(* (Paced), which is what keeps its last request inside the tolerance.     *)
(***************************************************************************)
EXTENDS HttpSender, TLAPS

\* The attempt is at a real URL, and the address it posts to passed the check.
Pinned ==
  /\ send.phase \in {"check", "post", "wait"} => send.url \in Urls
  /\ send.phase = "post" => send.pin \in Addresses \ Denied

\* One request per hop, and at most HopTime.
Paced ==
  /\ requests <= MaxHops + 1
  /\ send.phase = "check" => requests = send.hop /\ elapsed <= send.hop * HopTime
  /\ send.phase = "post" => requests = send.hop /\ elapsed <= send.hop * HopTime + CheckTime
  /\ send.phase = "wait" =>
       requests = send.hop + 1 /\ elapsed <= send.hop * HopTime + CheckTime + ConnectTime

\* The inductive invariant.
IInv ==
  /\ TypeOK
  /\ Pinned
  /\ NeverDenied
  /\ Paced
  /\ ResultTells

-----------------------------------------------------------------------------
(* Arithmetic of hops. *)

LEMMA HopTimeNat == HopTime \in Nat
BY SenderAssumption DEF HopTime

LEMMA NextHop ==
  ASSUME NEW n \in Nat, NEW h \in Nat
  PROVE  (n + 1) * h = n * h + h
OBVIOUS

LEMMA MoreHops ==
  ASSUME NEW m \in Nat, NEW n \in Nat, NEW h \in Nat, m <= n
  PROVE  m * h <= n * h
<1>1. PICK d \in Nat : n = m + d
  <2>. WITNESS n - m \in Nat
  <2>. QED OBVIOUS
<1>2. n * h = m * h + d * h
  BY <1>1
<1>3. d * h \in Nat
  OBVIOUS
<1>. QED BY <1>2, <1>3

-----------------------------------------------------------------------------
(* The pure parts. *)

\* Destinations answer with a status or an exception, and name real URLs.
LEMMA Replies ==
  ASSUME NEW u \in Urls, NEW reply \in Mock(ReceiverOf[u])
  PROVE  \/ /\ reply.error \in {"timeout", "connection_error"}
         \/ /\ reply.error = NoError
            /\ reply.status \in StatusCode
            /\ reply.location \in Urls \cup {NoUrl}
BY SenderAssumption DEF Mock, Anything, Failure, Plain, Moved, StatusCode, NoError

\* An address that passes the check is one of the name's, and none of the denied.
LEMMA CheckedAddress ==
  ASSUME NEW u \in Urls, dns \in [Hosts -> SUBSET Addresses],
         check_url(u).allowed, NEW ip \in check_url(u).pins
  PROVE  ip \in Addresses \ Denied
<1>. DEFINE found == dns[HostOf[u]]
<1>1. found \subseteq Addresses
  BY SenderAssumption
<1>2. found # {} /\ \A a \in found : a \notin Denied
  BY DEF check_url, IsDenied
<1>3. check_url(u).pins = {CHOOSE a \in found : TRUE}
  BY DEF check_url
<1>4. ip \in found
  BY <1>2, <1>3
<1>. QED BY <1>1, <1>2, <1>4

-----------------------------------------------------------------------------
LEMMA InitIInv == Init => IInv
<1>. SUFFICES ASSUME Init PROVE IInv
  OBVIOUS
<1>1. TypeOK
  BY SenderAssumption DEF Init, TypeOK, Phases, StatusCode, ErrorClass
<1>2. Pinned /\ NeverDenied /\ ResultTells
  BY DEF Init, Pinned, NeverDenied, ResultTells
<1>3. Paced
  BY SenderAssumption DEF Init, Paced
<1>. QED BY <1>1, <1>2, <1>3 DEF IInv

LEMMA StartIInv == ASSUME IInv, NEW u \in Registered, Start(u) PROVE IInv'
<1>. u \in Urls
  BY SenderAssumption
<1>0. HopTime \in Nat /\ MaxHops \in Nat
  BY HopTimeNat, SenderAssumption
<1>1. TypeOK'
  BY SenderAssumption DEF IInv, TypeOK, Start, Phases, NoAddress, StatusCode, NoStatus, ErrorClass
<1>2. (Pinned /\ NeverDenied /\ ResultTells)'
  BY DEF Start, Pinned, NeverDenied, ResultTells
<1>3. Paced'
  BY <1>0 DEF Start, Paced
<1>. QED BY <1>1, <1>2, <1>3 DEF IInv

\* What returning a result needs and gives.
LEMMA ReturnIInv ==
  ASSUME IInv, NEW status \in StatusCode \cup {NoStatus}, NEW error \in ErrorClass \cup {NoError},
         Return(status, error), status \in Success <=> error = NoError,
         elapsed' \in Nat, UNCHANGED <<dns, request, requests, reached>>,
         requests = send.hop + (IF error = "ssrf_blocked" THEN 0 ELSE 1)
  PROVE  IInv'
<1>1. TypeOK'
  BY DEF IInv, TypeOK, Return, Phases
<1>2. (Pinned /\ NeverDenied /\ Paced)'
  BY DEF IInv, TypeOK, Return, Pinned, NeverDenied, Paced
<1>3. ResultTells'
  BY DEF IInv, TypeOK, Return, ResultTells, succeeded
<1>. QED BY <1>1, <1>2, <1>3 DEF IInv

LEMMA CheckIInv == ASSUME IInv, Check PROVE IInv'
<1>0. Takes(CheckTime) /\ elapsed \in Nat /\ CheckTime \in Nat
  BY SenderAssumption DEF IInv, TypeOK, Check
<1>1. elapsed' \in Nat /\ elapsed' <= elapsed + CheckTime
  BY <1>0 DEF Takes
<1>2. send.phase = "check" /\ send.url \in Urls /\ requests = send.hop
  BY DEF IInv, Check, Pinned, Paced
<1>3. CASE send.url \in Malformed
  <2>1. send' = [send EXCEPT !.phase = "raised"] /\ UNCHANGED <<result, dns, request, requests, reached>>
    BY <1>3 DEF Check
  <2>. QED BY <1>1, <2>1
         DEF IInv, TypeOK, Phases, Pinned, NeverDenied, Paced, ResultTells, succeeded
<1>4. CASE send.url \notin Malformed /\ Return(NoStatus, "ssrf_blocked")
  <2>1. UNCHANGED <<dns, request, requests, reached>>
    BY DEF Check
  <2>2. NoStatus \notin Success /\ "ssrf_blocked" # NoError /\ "ssrf_blocked" \in ErrorClass
    BY DEF NoStatus, Success, NoError, ErrorClass
  <2>3. requests = send.hop + (IF "ssrf_blocked" = "ssrf_blocked" THEN 0 ELSE 1)
    BY <1>2 DEF IInv, TypeOK
  <2>. QED BY <1>1, <1>4, <2>1, <2>2, <2>3, ReturnIInv
<1>5. ASSUME NEW ip \in check_url(send.url).pins, check_url(send.url).allowed,
             send' = [send EXCEPT !.phase = "post", !.pin = ip], UNCHANGED result
      PROVE  IInv'
  <2>1. UNCHANGED <<dns, request, requests, reached>>
    BY DEF Check
  <2>2. ip \in Addresses \ Denied
    BY <1>2, <1>5, CheckedAddress DEF IInv, TypeOK
  <2>3. elapsed' <= send.hop * HopTime + CheckTime
    BY <1>1, <1>2, HopTimeNat, SenderAssumption DEF IInv, TypeOK, Paced
  <2>4. TypeOK'
    BY <1>1, <1>5, <2>1, <2>2 DEF IInv, TypeOK, Phases
  <2>5. (Pinned /\ NeverDenied /\ ResultTells)'
    BY <1>2, <1>5, <2>1, <2>2 DEF IInv, TypeOK, Pinned, NeverDenied, ResultTells
  <2>6. Paced'
    BY <1>2, <1>5, <2>1, <2>3 DEF IInv, TypeOK, Paced
  <2>. QED BY <2>4, <2>5, <2>6 DEF IInv
<1>. QED BY <1>3, <1>4, <1>5 DEF Check

LEMMA PostIInv == ASSUME IInv, Post PROVE IInv'
<1>1. elapsed' \in Nat /\ elapsed' <= elapsed + ConnectTime
  BY SenderAssumption DEF IInv, TypeOK, Post, Takes
<1>2. /\ send.phase = "post" /\ requests = send.hop
      /\ send.pin \in Addresses \ Denied
      /\ elapsed <= send.hop * HopTime + CheckTime
  BY DEF IInv, Post, Pinned, Paced
<1>3. reached' = reached \cup {send.pin} /\ requests' = requests + 1
  BY DEF Post, Destination
<1>4. send' = [send EXCEPT !.phase = "wait"] /\ UNCHANGED <<dns, request, result>>
  BY DEF Post
<1>5. elapsed' <= send.hop * HopTime + CheckTime + ConnectTime
  BY <1>1, <1>2, HopTimeNat, SenderAssumption DEF IInv, TypeOK
<1>6. TypeOK'
  BY <1>1, <1>2, <1>3, <1>4 DEF IInv, TypeOK, Phases
<1>7. (Pinned /\ NeverDenied /\ ResultTells)'
  BY <1>2, <1>3, <1>4 DEF IInv, TypeOK, Pinned, NeverDenied, ResultTells
<1>8. Paced'
  BY <1>2, <1>3, <1>4, <1>5, SenderAssumption DEF IInv, TypeOK, Paced
<1>. QED BY <1>6, <1>7, <1>8 DEF IInv

\* A reply, classified or followed, keeps the invariant.
LEMMA AnswerIInv == ASSUME IInv, Answer PROVE IInv'
<1>0. Takes(ReadTime) /\ elapsed \in Nat /\ ReadTime \in Nat
  BY SenderAssumption DEF IInv, TypeOK, Answer
<1>1. elapsed' \in Nat /\ elapsed' <= elapsed + ReadTime
  BY <1>0 DEF Takes
<1>2. /\ send.phase = "wait" /\ requests = send.hop + 1
      /\ elapsed <= send.hop * HopTime + CheckTime + ConnectTime
  BY DEF IInv, Answer, Paced
<1>3. UNCHANGED <<dns, request, requests, reached>>
  BY DEF Answer
<1>4. requests = send.hop + 1 /\ send.hop \in 0..MaxHops /\ send.hop \in Nat
  BY <1>2, SenderAssumption DEF IInv, TypeOK
<1>5. ASSUME NEW error \in {"timeout", "connection_error"}, Return(NoStatus, error)
      PROVE  IInv'
  <2>1. error # NoError /\ error # "ssrf_blocked" /\ error \in ErrorClass /\ NoStatus \notin Success
    BY <1>5 DEF NoError, ErrorClass, NoStatus, Success
  <2>2. requests = send.hop + (IF error = "ssrf_blocked" THEN 0 ELSE 1)
    BY <1>4, <2>1
  <2>. QED BY <1>1, <1>3, <1>5, <2>1, <2>2, ReturnIInv
<1>6. ASSUME NEW status \in StatusCode, Return(status, "http_error"), status \notin Success
      PROVE  IInv'
  <2>1. "http_error" # NoError /\ "http_error" \in ErrorClass
    BY DEF NoError, ErrorClass
  <2>2. requests = send.hop + (IF "http_error" = "ssrf_blocked" THEN 0 ELSE 1)
    BY <1>4
  <2>. QED BY <1>1, <1>3, <1>6, <2>1, <2>2, ReturnIInv
<1>7. ASSUME NEW reply, reply.status \in StatusCode, Classify(reply)
      PROVE  IInv'
  <2>1. CASE reply.status \in Success
    <3>1. Return(reply.status, NoError) /\ NoError # "ssrf_blocked"
      BY <1>7, <2>1 DEF Classify, NoError
    <3>2. requests = send.hop + (IF NoError = "ssrf_blocked" THEN 0 ELSE 1)
      BY <1>4, <3>1
    <3>. QED BY <1>1, <1>3, <1>7, <2>1, <3>1, <3>2, ReturnIInv
  <2>2. CASE reply.status \notin Success
    BY <1>6, <1>7, <2>2 DEF Classify
  <2>. QED BY <2>1, <2>2
<1>8. ASSUME NEW reply, reply.status \in StatusCode \cap Redirection,
             reply.location \in Urls, Follow(reply)
      PROVE  IInv'
  <2>1. CASE send.hop = MaxHops
    <3>1. reply.status \notin Success
      BY <1>8 DEF Redirection, Success
    <3>. QED BY <1>6, <1>8, <2>1, <3>1 DEF Follow
  <2>2. CASE send.hop # MaxHops
    <3>1. send' = [send EXCEPT !.phase = "check", !.hop = @ + 1, !.url = reply.location]
          /\ UNCHANGED result
      BY <1>8, <2>2 DEF Follow
    <3>2. send.hop + 1 \in 0..MaxHops
      BY <1>4, <2>2, SenderAssumption
    <3>3. elapsed' <= (send.hop + 1) * HopTime
      <4>1. (send.hop + 1) * HopTime = send.hop * HopTime + HopTime
        BY <1>4, HopTimeNat, NextHop
      <4>2. send.hop * HopTime \in Nat
        BY <1>4, HopTimeNat
      <4>. QED BY <1>0, <1>1, <1>2, <4>1, <4>2, SenderAssumption DEF HopTime
    <3>4. TypeOK'
      BY <1>1, <1>3, <1>8, <3>1, <3>2 DEF IInv, TypeOK, Phases
    <3>5. (Pinned /\ NeverDenied /\ ResultTells)'
      BY <1>3, <1>8, <3>1 DEF IInv, TypeOK, Pinned, NeverDenied, ResultTells
    <3>6. Paced'
      BY <1>3, <1>4, <3>1, <3>3 DEF IInv, TypeOK, Paced
    <3>. QED BY <3>4, <3>5, <3>6 DEF IInv
  <2>. QED BY <2>1, <2>2
<1>9. PICK reply \in Mock(ReceiverOf[send.url]) :
        \/ reply.error # NoError /\ Return(NoStatus, reply.error)
        \/ /\ reply.error = NoError
           /\ IF reply.status \in Redirection /\ reply.location # NoUrl
              THEN Follow(reply)
              ELSE Classify(reply)
  BY DEF Answer
<1>10. send.url \in Urls
  BY <1>2 DEF IInv, Pinned
<1>11. \/ reply.error \in {"timeout", "connection_error"}
       \/ /\ reply.error = NoError
          /\ reply.status \in StatusCode
          /\ reply.location \in Urls \cup {NoUrl}
  BY <1>9, <1>10, Replies
<1>12. CASE reply.error # NoError
  BY <1>5, <1>9, <1>11, <1>12
<1>13. CASE reply.error = NoError
  <2>1. reply.status \in StatusCode /\ reply.location \in Urls \cup {NoUrl}
    BY <1>11, <1>13 DEF NoError
  <2>2. CASE reply.status \in Redirection /\ reply.location # NoUrl
    BY <1>8, <1>9, <1>13, <2>1, <2>2
  <2>3. CASE ~(reply.status \in Redirection /\ reply.location # NoUrl)
    BY <1>7, <1>9, <1>13, <2>1, <2>3
  <2>. QED BY <2>2, <2>3
<1>. QED BY <1>12, <1>13

LEMMA OtherIInv ==
  ASSUME IInv, Finish \/ (\E h \in Hosts : Rebind(h)) \/ UNCHANGED vars
  PROVE  IInv'
<1>1. CASE Finish
  BY <1>1 DEF Finish, IInv, TypeOK, Phases, Pinned, NeverDenied, Paced, ResultTells
<1>2. ASSUME NEW h \in Hosts, Rebind(h) PROVE IInv'
  BY <1>2, SenderAssumption
     DEF Rebind, IInv, TypeOK, Pinned, NeverDenied, Paced, ResultTells, succeeded
<1>3. CASE UNCHANGED vars
  BY <1>3 DEF vars, IInv, TypeOK, Pinned, NeverDenied, Paced, ResultTells, succeeded
<1>. QED BY <1>1, <1>2, <1>3

LEMMA NextIInv == ASSUME IInv, [Next]_vars PROVE IInv'
<1>1. CASE \E u \in Registered : Start(u)
  BY <1>1, StartIInv
<1>2. CASE Hop
  BY <1>2, CheckIInv, PostIInv, AnswerIInv DEF Hop
<1>3. CASE Finish \/ (\E h \in Hosts : Rebind(h)) \/ UNCHANGED vars
  BY <1>3, OtherIInv
<1>. QED BY <1>1, <1>2, <1>3 DEF Next

\* The age of a request that is on its way is inside the tolerance, whichever way
\* the receiver's clock is off.
LEMMA VerifiesInTime == IInv => EachVerifies
<1>. SUFFICES ASSUME IInv PROVE EachVerifies
  OBVIOUS
<1>1. requests <= MaxHops + 1
  BY DEF IInv, Paced
<1>2. ASSUME send.phase = "wait"
      PROVE  verify(Secret, request, Body, elapsed + send.skew)
  <2>1. /\ send.hop \in Nat /\ MaxHops \in Nat /\ send.hop <= MaxHops
        /\ elapsed \in Nat /\ MaxSkew \in Nat /\ Tolerance \in Nat
        /\ send.skew \in -MaxSkew..MaxSkew
    BY SenderAssumption DEF IInv, TypeOK
  <2>2. elapsed <= send.hop * HopTime + CheckTime + ConnectTime
    BY <1>2 DEF IInv, Paced
  <2>3. send.hop * HopTime <= MaxHops * HopTime
    BY <2>1, HopTimeNat, MoreHops
  <2>4. (MaxHops + 1) * HopTime = MaxHops * HopTime + HopTime
    BY <2>1, HopTimeNat, NextHop
  <2>5. send.hop * HopTime \in Nat /\ MaxHops * HopTime \in Nat
    BY <2>1, HopTimeNat
  <2>6. CheckTime \in Nat /\ ConnectTime \in Nat /\ ReadTime \in Nat
        /\ HopTime = CheckTime + ConnectTime + ReadTime
        /\ Tolerance >= MaxSkew + (MaxHops + 1) * HopTime - ReadTime
    BY SenderAssumption DEF HopTime
  <2>7. elapsed + MaxSkew <= Tolerance
    BY <2>1, <2>2, <2>3, <2>4, <2>5, <2>6
  <2>8. elapsed + send.skew \in -Tolerance..Tolerance
    BY <2>1, <2>7
  <2>9. request = [timestamp |-> 0, digest |-> <<Secret, 0, Body>>]
    BY DEF IInv, TypeOK, sign
  <2>. QED BY <2>1, <2>8, <2>9 DEF verify
<1>. QED BY <1>1, <1>2 DEF EachVerifies

-----------------------------------------------------------------------------
\* The inductive invariant of the sender: checked addresses stay with their hop, and
\* hops are paced.
THEOREM Invariance == Spec => []IInv
<1>1. Init => IInv
  BY InitIInv
<1>2. IInv /\ [Next]_vars => IInv'
  BY NextIInv
<1>. QED BY <1>1, <1>2, PTL DEF Spec

\* The sender's variables keep their types, for any destinations: no attempt goes
\* beyond its hops, and a result has one of the statuses and error classes.
THEOREM TypeCorrect == Spec => []TypeOK
<1>1. IInv => TypeOK
  BY DEF IInv
<1>. QED BY <1>1, Invariance, PTL

\* No request ever reaches a denied address, whatever the names resolve to at each
\* moment and wherever destinations redirect.
THEOREM DeniedIsNeverReached == Spec => []NeverDenied
<1>1. IInv => NeverDenied
  BY DEF IInv
<1>. QED BY <1>1, Invariance, PTL

\* The status, the error class and the number of requests of a finished attempt
\* agree.
THEOREM ResultIsTold == Spec => []ResultTells
<1>1. IInv => ResultTells
  BY DEF IInv
<1>. QED BY <1>1, Invariance, PTL

\* For any budget of hops and any timeouts that fit the tolerance, the hops are
\* bounded and the request on each of them verifies.
THEOREM RequestsVerify == Spec => []EachVerifies
<1>. QED BY Invariance, VerifiesInTime, PTL
=============================================================================
