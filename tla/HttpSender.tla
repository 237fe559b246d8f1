----------------------------- MODULE HttpSender -----------------------------
(***************************************************************************)
(* One delivery attempt on the wire: the request is signed once, then      *)
(* HttpxOutboundSender.send follows redirects itself.  Each hop resolves   *)
(* and checks the host (ssrf_guard, in a thread), then posts over a        *)
(* transport pinned to the address that was checked.  Meanwhile the names  *)
(* may be pointed elsewhere, and a destination may answer anything, or     *)
(* late, or not at all.  Attempts share nothing but the names, so one that *)
(* starts over again stands for all of them.                               *)
(*                                                                         *)
(* Time passes in units; `elapsed` is the time since the attempt signed.   *)
(***************************************************************************)
EXTENDS Integers, FiniteSets

CONSTANTS
  Urls,
  Hosts,
  Addresses,     \* what names resolve to
  Denied,        \* loopback, private, link-local, metadata, ... addresses
  HostOf,        \* the host named by a URL
  Refused,       \* URLs of another scheme, without host or with another port
  Malformed,     \* URLs on which urljoin, urlsplit, .port or IDNA raise
  Registered,    \* URLs endpoints are registered with
  ReceiverOf,    \* what listens at a URL, see Mock
  Metadata,      \* the URL the redirecting mock receiver names
  Answers,       \* what the resolver may find: sets of addresses, empty when
                 \* it fails (OSError) as well as when it finds none
  NoUrl,
  MaxHops,       \* MAX_REDIRECT_HOPS
  CheckTime,     \* bound: what a check, with its name lookup, takes at most
  ConnectTime,   \* settings.outbound_connect_timeout_seconds
  ReadTime,      \* settings.outbound_read_timeout_seconds
  MaxSkew,       \* how far a receiver's clock is off at most
  Tolerance      \* settings.signature_tolerance_seconds

HopTime == CheckTime + ConnectTime + ReadTime

ASSUME SenderAssumption ==
  /\ HostOf \in [Urls -> Hosts]
  /\ Refused \cup Malformed \subseteq Urls
  /\ Registered \subseteq Urls \ Malformed
  /\ Metadata \in Urls /\ NoUrl \notin Urls
  /\ Denied \subseteq Addresses
  /\ Answers \subseteq SUBSET Addresses
  /\ {MaxHops, CheckTime, ConnectTime, ReadTime, MaxSkew, Tolerance} \subseteq Nat
  \* 300 seconds are enough for four slow hops and what clocks are off.
  /\ Tolerance >= MaxSkew + (MaxHops + 1) * HopTime - ReadTime

VARIABLES
  dns,       \* what each name resolves to at the moment
  send,      \* the call of send: where it is, and what it has checked
  request,   \* what the attempt signed and sends at each hop
  elapsed,   \* time since then
  requests,  \* how many requests have left
  reached,   \* the addresses they were sent to
  result     \* OutboundHttpResult

vars == <<dns, send, request, elapsed, requests, reached, result>>

-----------------------------------------------------------------------------
(* Destinations. *)

Success == 200..299
Redirection == 300..399
StatusCode == {200, 307, 500}

NoStatus == 0
NoError == "none"
ErrorClass == {"http_error", "timeout", "connection_error", "ssrf_blocked"}

\* An httpx exception, or a response, perhaps with a Location.
Failure(error) == [error |-> error, status |-> NoStatus, location |-> NoUrl]
Plain(status) == [error |-> NoError, status |-> status, location |-> NoUrl]
Moved(url) == [error |-> NoError, status |-> 307, location |-> url]
Anything ==
  {Failure(e) : e \in {"timeout", "connection_error"}}
    \cup [error : {NoError}, status : StatusCode, location : Urls \cup {NoUrl}]

\* The mock receivers of the console, and everybody else, who may do anything.
\* Eight seconds are longer than the read timeout.
Mock(kind) ==
  CASE kind = "always-200" -> {Plain(200)}
    [] kind = "always-500" -> {Plain(500)}
    [] kind = "slow-8s" -> {Failure("timeout")}
    [] kind = "flaky-50" -> {Plain(200), Plain(500)}
    [] kind = "redirect-to-metadata" -> {Moved(Metadata)}
    [] OTHER -> Anything

-----------------------------------------------------------------------------
(* infra/signing.py.  Only who knows the secret can compute the digest, and  *)
(* it differs for every other secret, timestamp or body.                     *)

sign(secret, timestamp, body) ==
  [timestamp |-> timestamp, digest |-> <<secret, timestamp, body>>]

\* How a receiver verifies: within the tolerance in either direction, then the
\* digest over the timestamp and the body received.
verify(secret, req, body, now) ==
  /\ now - req.timestamp \in -Tolerance..Tolerance
  /\ req.digest = <<secret, req.timestamp, body>>

Secret == "secret"
Body == "payload"

-----------------------------------------------------------------------------
(* infra/ssrf_guard.py *)

IsDenied(ip) == ip \in Denied

\* Denied if any address the name resolves to is; else pinned to one of them
\* (the first of them in the order of their texts).
check_url(u) ==
  LET found == dns[HostOf[u]] IN
  IF \/ u \in Refused
     \/ found = {}
     \/ \E ip \in found : IsDenied(ip)
  THEN [allowed |-> FALSE, pins |-> {}]
  ELSE [allowed |-> TRUE, pins |-> {CHOOSE ip \in found : TRUE}]

-----------------------------------------------------------------------------
(* infra/http_sender.py *)

NoAddress == "none"
Phases == {"idle", "check", "post", "wait", "done", "raised"}

Return(status, error) ==
  /\ send' = [send EXCEPT !.phase = "done"]
  /\ result' = [status |-> status, error |-> error]

succeeded == result.error = NoError /\ result.status \in Success

\* A step that takes up to `most`.
Takes(most) == \E t \in {0, most} : elapsed' = elapsed + t

\* The attempt signs its request and calls send with the endpoint's URL.
Start(u) ==
  /\ send.phase = "idle"
  /\ \E skew \in {-MaxSkew, MaxSkew} :
       send' = [phase |-> "check", hop |-> 0, url |-> u, pin |-> NoAddress, skew |-> skew]
  /\ request' = sign(Secret, 0, Body)
  /\ elapsed' = 0
  /\ requests' = 0
  /\ reached' = {}
  /\ result' = [status |-> NoStatus, error |-> NoError]
  /\ UNCHANGED dns

\* The check, in a thread: it raises, blocks the hop, or pins an address.
Check ==
  /\ send.phase = "check"
  /\ Takes(CheckTime)
  /\ IF send.url \in Malformed
     THEN send' = [send EXCEPT !.phase = "raised"] /\ UNCHANGED result
     ELSE LET check == check_url(send.url) IN
          \/ ~check.allowed /\ Return(NoStatus, "ssrf_blocked")
          \/ /\ check.allowed
             /\ \E ip \in check.pins :
                  send' = [send EXCEPT !.phase = "post", !.pin = ip]
             /\ UNCHANGED result
  /\ UNCHANGED <<dns, request, requests, reached>>

\* Mutant of Destination: the client resolves the name again.
DestinationResolved == dns[HostOf[send.url]]

\* PinnedAsyncTransport: the address checked, whatever the URL names by now.
Destination == {send.pin}

\* The request leaves, after up to a connect timeout.
Post ==
  /\ send.phase = "post"
  /\ Takes(ConnectTime)
  /\ \E ip \in Destination : reached' = reached \cup {ip}
  /\ requests' = requests + 1
  /\ send' = [send EXCEPT !.phase = "wait"]
  /\ UNCHANGED <<dns, request, result>>

\* Mutant of Follow: hops are not counted.
FollowUncounted(response) ==
  IF send.hop = MaxHops
  THEN Return(response.status, "http_error")
  ELSE /\ send' = [send EXCEPT !.phase = "check", !.url = response.location]
       /\ UNCHANGED result

\* A redirect is the next hop's URL, unless the budget of hops is used up.
Follow(response) ==
  IF send.hop = MaxHops
  THEN Return(response.status, "http_error")
  ELSE /\ send' = [send EXCEPT !.phase = "check", !.hop = @ + 1, !.url = response.location]
       /\ UNCHANGED result

\* Mutant of Classify: a response is a response.
ClassifyAny(response) == Return(response.status, NoError)

\* Only a 2xx is a success.
Classify(response) ==
  Return(response.status, IF response.status \in Success THEN NoError ELSE "http_error")

\* Mutant of Answer: the client has no read timeout.
AnswerUntimed ==
  /\ send.phase = "wait"
  /\ \E reply \in Mock(ReceiverOf[send.url]) :
       \/ reply.error = "connection_error" /\ Return(NoStatus, reply.error)
       \/ /\ reply.error = NoError
          /\ IF reply.status \in Redirection /\ reply.location # NoUrl
             THEN Follow(reply)
             ELSE Classify(reply)
  /\ Takes(ReadTime)
  /\ UNCHANGED <<dns, request, requests, reached>>

\* The answer to the request, or the exception the wait for it ends with.
Answer ==
  /\ send.phase = "wait"
  /\ \E reply \in Mock(ReceiverOf[send.url]) :
       \/ reply.error # NoError /\ Return(NoStatus, reply.error)
       \/ /\ reply.error = NoError
          /\ IF reply.status \in Redirection /\ reply.location # NoUrl
             THEN Follow(reply)
             ELSE Classify(reply)
  /\ Takes(ReadTime)
  /\ UNCHANGED <<dns, request, requests, reached>>

\* The attempt is recorded, or its exception abandons it; another may start.
Finish ==
  /\ send.phase \in {"done", "raised"}
  /\ send' = [send EXCEPT !.phase = "idle"]
  /\ UNCHANGED <<dns, request, elapsed, requests, reached, result>>

\* Whoever owns a name points it elsewhere.
Rebind(h) ==
  /\ \E answer \in Answers : dns' = [dns EXCEPT ![h] = answer]
  /\ UNCHANGED <<send, request, elapsed, requests, reached, result>>

Init ==
  /\ dns \in [Hosts -> Answers]
  /\ send = [phase |-> "idle", hop |-> 0, url |-> NoUrl, pin |-> NoAddress, skew |-> 0]
  /\ request = sign(Secret, 0, Body)
  /\ elapsed = 0
  /\ requests = 0
  /\ reached = {}
  /\ result = [status |-> NoStatus, error |-> NoError]

Hop == Check \/ Post \/ Answer

Next ==
  \/ \E u \in Registered : Start(u)
  \/ Hop \/ Finish
  \/ \E h \in Hosts : Rebind(h)

\* The lookup, the timeouts of the client and the coroutine go on by themselves.
Spec == Init /\ [][Next]_vars /\ WF_vars(Hop) /\ WF_vars(Finish)

-----------------------------------------------------------------------------
(* Properties. *)

TypeOK ==
  /\ dns \in [Hosts -> SUBSET Addresses]
  /\ send \in [phase : Phases, hop : 0..MaxHops, url : Urls \cup {NoUrl},
               pin : Addresses \cup {NoAddress}, skew : -MaxSkew..MaxSkew]
  /\ request = sign(Secret, 0, Body)
  /\ elapsed \in Nat /\ requests \in Nat
  /\ reached \subseteq Addresses
  /\ result \in [status : StatusCode \cup {NoStatus}, error : ErrorClass \cup {NoError}]

\* No request ever reaches a denied address, neither by a redirect nor by a name
\* that is pointed elsewhere between its check and the connection ("closes the
\* DNS-rebinding TOCTOU window", docs/guarantees.md).
NeverDenied == reached \cap Denied = {}

\* What is recorded tells what happened on the wire: a blocked hop, and only that
\* one, sent no request of its own; and however the attempt is judged later, by its
\* status (the metrics snapshot), its error class (the console) or `succeeded` (the
\* delivery and the breaker), the judgement is the same.
ResultTells ==
  send.phase = "done" =>
    /\ requests = send.hop + (IF result.error = "ssrf_blocked" THEN 0 ELSE 1)
    /\ succeeded <=> result.status \in Success
    /\ succeeded <=> result.error = NoError

\* However often it is redirected and however slow each hop is, an attempt makes
\* at most MaxHops + 1 requests, and the last one still verifies: all of them
\* carry the timestamp the attempt was signed with.
EachVerifies ==
  /\ requests <= MaxHops + 1
  /\ send.phase = "wait" => verify(Secret, request, Body, elapsed + send.skew)

\* Every attempt comes to an end, also when destinations redirect in a circle.
SendEnds == send.phase = "check" ~> send.phase = "idle"
=============================================================================
