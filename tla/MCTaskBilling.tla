--------------------------- MODULE MCTaskBilling ---------------------------
(* A small instance of TaskBilling for TLC. *)
EXTENDS TaskBilling

CONSTANTS t1, n1, n2

\* A plain task, one charged per call, one on a subscription whose channel may
\* go, and one the user's lookups fetch in real time.
AllKinds == {{}, {"perCall"}, {"subscribed", "removable"}, {"realtime"}}
=============================================================================
