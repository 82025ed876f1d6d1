--------------------------- MODULE MCAlertsPoller ---------------------------
(* Instances of AlertsPoller: two devices, and notifications of one type.    *)
EXTENDS AlertsPoller

OneKind == [n \in 1..MaxNotes |-> CHOOSE t \in Type : TRUE]
=============================================================================
