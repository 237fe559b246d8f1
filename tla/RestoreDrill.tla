----------------------------- MODULE RestoreDrill -----------------------------
(***************************************************************************)
(* The backup and the drill that restores it (scripts/backup_postgres.py,  *)
(* scripts/restore_drill.py): the newest dump goes into a scratch          *)
(* database, and the rows of each table are counted there and, one         *)
(* statement after the other, in the live database, which has gone on.     *)
(* The drill is one more reader of ConsoleReads.                           *)
(***************************************************************************)
EXTENDS ConsoleReads

VARIABLE drill

drillVars == <<vars, drill>>

-----------------------------------------------------------------------------
\* The three of the seven tables whose rows may also be deleted, in the order they
\* are counted.  Rows of the other four (tenants, api_keys, events, outbox) are
\* added meanwhile too, but nothing deletes them.
VERIFY_TABLES == <<"endpoints", "deliveries", "delivery_attempts">>
Tables == {VERIFY_TABLES[i] : i \in DOMAIN VERIFY_TABLES}

Zero == [t \in Tables |-> 0]
NoProblem == "none"

\* SELECT count(*), over all tenants.
CountOf(t) ==
  CASE t = "endpoints" -> Cardinality({e \in Endpoints : state[e] = "active"})
    [] t = "deliveries" -> Cardinality({d \in Deliveries : state[d] \in Stored})
    [] t = "delivery_attempts" -> Cardinality(attempts)

\* Mutant of compare_to_live: the contents have to match.
compare_to_liveEqual(restored, live) ==
  [t \in Tables |-> IF restored[t] > live[t] THEN "lost"
                    ELSE IF restored[t] # live[t] THEN "nothing" ELSE NoProblem]

\* What is reported of each table: rows that have disappeared, or a dump or a
\* restore that did nothing.
compare_to_live(restored, live) ==
  [t \in Tables |-> IF restored[t] > live[t] THEN "lost"
                    ELSE IF restored[t] = 0 /\ live[t] > 0 THEN "nothing" ELSE NoProblem]

Drilling(phase) == reader.kind = "drill" /\ reader.phase = phase

Continue(phase) ==
  /\ reader' = [reader EXCEPT !.phase = phase]
  /\ UNCHANGED <<tables, page, listed, metrics, feed, sent>>

\* pg_dump: one snapshot, uploaded under a key that sorts by its time.
Dump ==
  /\ Drilling("query")
  /\ drill' = [drill EXCEPT !.dumped = [t \in Tables |-> CountOf(t)],
                            !.rows = {r \in Rows : state[r] \in Stored}]
  /\ Continue("restore")

\* The newest dump is restored, as a whole or, which is what the drill is for,
\* without the rows of some table.
Restore ==
  /\ Drilling("restore")
  /\ \E left \in {{}} \cup {{t} : t \in Tables} :
       drill' = [drill EXCEPT !.restored = [t \in Tables |-> IF t \in left THEN 0
                                                             ELSE drill.dumped[t]],
                              !.left = left]
  /\ Continue("count")

\* row_counts of the live database, the next table.
CountLive ==
  LET t == VERIFY_TABLES[drill.counted + 1] IN
  /\ Drilling("count") /\ drill.counted < Len(VERIFY_TABLES)
  /\ drill' = [drill EXCEPT !.live[t] = CountOf(t), !.counted = @ + 1]
  /\ Continue("count")

Compare ==
  /\ Drilling("count") /\ drill.counted = Len(VERIFY_TABLES)
  /\ drill' = [drill EXCEPT !.problem = compare_to_live(drill.restored, drill.live)]
  /\ Continue("done")

-----------------------------------------------------------------------------
DrillInit ==
  /\ Init
  /\ drill = [dumped |-> Zero, rows |-> {}, left |-> {}, restored |-> Zero,
              live |-> Zero, counted |-> 0, problem |-> [t \in Tables |-> NoProblem]]

Drill == Dump \/ Restore \/ CountLive \/ Compare

DrillNext == (Next /\ UNCHANGED drill) \/ Drill

DrillSpec == DrillInit /\ [][DrillNext]_drillVars

-----------------------------------------------------------------------------
(* Properties. *)

\* What the drill reports is so, although the live database was counted later and
\* table by table: rows it misses have been deleted; a table it finds empty was
\* empty in the dump or has been left out; and a table that was left out is
\* reported, unless it is empty in the live database too.  A faithful restore of a
\* dump without empty tables is verified however much is written since, as long as
\* nothing is deleted ("rows added after the dump was taken are drift, not data loss").
\* It says nothing of the line "no table lost rows that existed when the dump was
\* taken": counts cannot tell, and rows that are gone may hide behind new ones.
DrillTells ==
  LET gone == {r \in drill.rows : state[r] = "gone"}
      lost == {t \in Tables : drill.problem[t] = "lost"}
      idle == {t \in Tables : drill.problem[t] = "nothing"}
  IN Drilling("done") =>
       /\ "endpoints" \in lost => gone \cap Endpoints # {}
       /\ lost # {} => gone # {}
       /\ \A t \in idle : drill.dumped[t] = 0 \/ t \in drill.left
       /\ \A t \in drill.left : t \in idle \/ drill.live[t] = 0
       /\ gone = {} /\ drill.left = {} /\ (\A t \in Tables : drill.dumped[t] > 0) =>
            lost \cup idle = {}
=============================================================================
