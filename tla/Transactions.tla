---------------------------- MODULE Transactions ----------------------------
(***************************************************************************)
(* The requests in progress of a component whose requests are one READ     *)
(* COMMITTED transaction each (db.py): what Companies and Papers share.    *)
(***************************************************************************)
CONSTANTS
    None,
    Requests   \* requests in progress at a time

VARIABLE req   \* [Requests -> the request, or Idle]

Idle == [step |-> "idle"]
At(q, step) == req[q].step = step
=============================================================================
