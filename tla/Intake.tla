------------------------------- MODULE Intake -------------------------------
(***************************************************************************)
(* Ingest and the outbox relay, composed over the outbox table: the path   *)
(* of an event from the request that is answered 202 to its committed      *)
(* deliveries.                                                             *)
(***************************************************************************)
EXTENDS Outbox

CONSTANTS Keys, Bodies, Offers, Requests

ASSUME IntakeAssumption ==
  /\ Offers \subseteq Keys \X Bodies
  /\ "none" \notin Keys

VARIABLES events, request, replies

Api == INSTANCE Ingest

apiVars == <<events, request, replies>>
relayVars == <<registry, deliveries, relay, crashes>>
intakeVars == <<apiVars, outbox, relayVars>>

IntakeInit == Api!Init /\ RelayInit

\* The API writes the outbox, the relay reads and marks it.
ApiStep == Api!Next /\ UNCHANGED relayVars
RelayStep == Next /\ UNCHANGED apiVars

\* A relay polls for ever and is restarted when it dies.
IntakeSpec ==
  /\ IntakeInit
  /\ [][ApiStep \/ RelayStep]_intakeVars
  /\ \A r \in Relays : WF_intakeVars(RunOnce(r) /\ UNCHANGED apiVars)

\* The types of both halves.
IntakeTypeOK == Api!TypeOK /\ TypeOK

\* "A 202 is only ever returned after both rows are durably committed together"
\* (see Ingest).
AcceptedDurable == Api!AcceptedDurable

\* However often and concurrently a key is used, one event answers (see Ingest).
OneEventPerKey == Api!OneEventPerKey

\* A 409 is only given for a body other than the accepted one (see Ingest).
RefusedOnlyDiffering == Api!RefusedOnlyDiffering

\* An event that was answered 202 is fanned out in the end: the outbox entry is
\* never left behind by a crash, a lost lock or an endpoint that disappears.
AcceptedFannedOut ==
  \A v \in Events :
    (\E a \in replies : a.status = 202 /\ a.event = v) ~> outbox[v] = "processed"
=============================================================================
