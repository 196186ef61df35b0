-------------------------- MODULE ForegroundDelivery --------------------------
(***************************************************************************)
(* Reports that reach whoever polls the watcher: what is reported is       *)
(* collected in order; the caller receives what was collected one by one,  *)
(* or nothing of a poll that fails, and never anything else.               *)
(***************************************************************************)
EXTENDS ForegroundReports, Sequences

VARIABLES
    collected,      \* what the poll in progress has yet to hand over
    delivered       \* the last one the caller has received

deliveryVars == <<vars, collected, delivered>>

DeliveryInit ==
    /\ Init
    /\ collected = <<>>
    /\ delivered = Nobody

Unreported == Change /\ UNCHANGED <<collected, delivered>>

Collect(candidate) ==
    /\ Report(candidate)
    /\ collected' = Append(collected, candidate)
    /\ UNCHANGED delivered

Deliver ==
    /\ collected # <<>>
    /\ delivered' = Head(collected)
    /\ collected' = Tail(collected)
    /\ UNCHANGED vars

Lose ==
    /\ collected # <<>>
    /\ collected' = <<>>
    /\ UNCHANGED <<vars, delivered>>

DeliveryNext ==
    \/ Unreported
    \/ \E candidate \in Candidates : Collect(candidate)
    \/ Deliver
    \/ Lose

DeliverySpec == DeliveryInit /\ [][DeliveryNext]_deliveryVars
=============================================================================
