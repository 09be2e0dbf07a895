------------------------------- MODULE Metrics -------------------------------
(***************************************************************************)
(* The gauge INCOMPLETE_SCORE_GAUGE of rbclib/metric.py on top of          *)
(* RbcRelay: how many steps of the requests a relayer has seen begin are   *)
(* still to come.  An event is counted when its vote has succeeded, a      *)
(* final one when it is popped.  The gauge starts at 0 with the process.   *)
(* The counter of events by status goes up at the same places and is left  *)
(* out, like the metrics that are only set from values read elsewhere.     *)
(***************************************************************************)
EXTENDS RbcRelay

VARIABLE gauge    \* each relayer's INCOMPLETE_SCORE_GAUGE

metricVars == <<vars, gauge>>

\* exporting_request_metric: what an event of a status adds.
Score(status) ==
  CASE status = REQUESTED -> 2
    [] status \in {NONE, ACCEPTED, REJECTED} -> 0
    [] OTHER -> -1

\* handle_tx_result_success, for the event that waits for the transaction.
LandCounted(tx) ==
  /\ Land(tx)
  /\ gauge' = IF Accepts(tx) /\ Awaiting(tx) # {}
              THEN [gauge EXCEPT ![tx.by] = @ + Score(tx.msg)]
              ELSE gauge

\* _FinalStatusEvent.build_transaction_params does nothing else; fast relayers
\* have no such events.
PopFinal(r) ==
  /\ r \notin FastRelayers
  /\ \E e \in {x \in events \ seen[r] : x.status \in Final} :
       /\ seen' = [seen EXCEPT ![r] = @ \union {e}]
       /\ gauge' = IF IsMyEvent(r) THEN [gauge EXCEPT ![r] = @ + Score(e.status)] ELSE gauge
  /\ UNCHANGED <<chainVars, tasks, boots, block, round, pool, faults>>

RestartCounted(r) == Restart(r) /\ gauge' = [gauge EXCEPT ![r] = 0]

MetricInit == Init /\ gauge = [r \in Relayers |-> 0]

MetricNext ==
  \/ \E r \in Relayers :
       \/ (Detect(r) \/ Handle(r)) /\ UNCHANGED gauge
       \/ PopFinal(r)
       \/ RestartCounted(r)
  \/ \E tx \in pool :
       \/ LandCounted(tx)
       \/ (Lose(tx) \/ NoReceipt(tx)) /\ UNCHANGED gauge
  \/ NextRound /\ UNCHANGED gauge

MetricSpec == MetricInit /\ [][MetricNext]_metricVars

-----------------------------------------------------------------------------
(* Properties. *)

Seen(r, statuses) == Cardinality({e \in seen[r] : e.status \in statuses})

\* metric.py says "add 2 when a REQUESTED is discovered. subtract 1 when the others
\* are discovered" of the gauge.  So it is right when a relayer that has never been
\* restarted has dealt with all that it has discovered.
GaugeAsDocumented ==
  \A r \in Relayers \ FastRelayers :
    boots[r] = 0 /\ tasks[r] = {} =>
      gauge[r] = 2 * Seen(r, {REQUESTED}) - Seen(r, {EXECUTED, REVERTED, COMMITTED, ROLLBACKED})
=============================================================================
