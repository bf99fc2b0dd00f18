----------------------------- MODULE MCServices ------------------------------
(***************************************************************************)
(* The two small services, one at a time, chosen at the start.             *)
(*                                                                         *)
(* For the listener: two versions of one row with a space in its key, two  *)
(* locations less than a millisecond apart, and between them a deletion    *)
(* and a table it does not know: with three changes to a request and       *)
(* chunks of two, requests of one and of two chunks.  For the snack bar:   *)
(* one snack that is soon sold out for the second and one that is not.     *)
(***************************************************************************)
EXTENDS CdcListener, SnackBar

VARIABLE service

allVars == <<service, vars, snackVars>>

MCInit == service \in {"listener", "snack bar"} /\ Init /\ SnackInit

InListener(A) == service = "listener" /\ A /\ UNCHANGED <<service, snackVars>>

InSnackBar(A) == service = "snack bar" /\ A /\ UNCHANGED <<service, vars>>

\* Fairness is that of CdcListener and of SnackBar.
MCSpec ==
  /\ MCInit /\ [][InListener(Next) \/ InSnackBar(SnackNext)]_allVars
  /\ \A h \in Handlers : WF_allVars(InListener(Work(h)))
  /\ WF_allVars(InListener(\E h \in Handlers : Send(h)))
  /\ \A c \in Callers : WF_allVars(InSnackBar(Handle(c)))
  /\ WF_allVars(InSnackBar(\E s \in Snacks : Post(Worker, s)))

Text(words) == [t |-> "string", v |-> words]
Row(columns) == [t |-> "object", v |-> columns]

MCUser(card) ==
  [topic |-> <<"movr", "public", "users">>,
   after |-> Row([city |-> Text(<<"new", "york">>), id |-> Text(<<"u1">>),
                  credit_card |-> [t |-> "digits", v |-> card]])]

MCLocation(us) ==
  [topic |-> <<"vehicle_location_histories">>,
   after |-> Row([city |-> Text(<<"paris">>), ride_id |-> Text(<<"r1">>),
                  timestamp |-> [t |-> "time", v |-> us],
                  lat |-> [t |-> "number", v |-> us], long |-> [t |-> "digits", v |-> 2]])]

MCDeletion == [topic |-> <<"users">>, after |-> [t |-> "null"]]
MCUnknown == [topic |-> <<"payments">>, after |-> Row([city |-> Text(<<"paris">>)])]

Changes == <<MCUser(1), MCLocation(1000), MCLocation(1400), MCDeletion, MCUser(2), MCUnknown>>

MCLog == Changes

MCRates == [Apples |-> 1, Bananas |-> 2]
MCOrder == <<"Apples", "Bananas">>

-----------------------------------------------------------------------------
\* What each service has to do in the end, where it is the one that runs: the
\* listener's feed drains (no change holds it up), and the worker of the snack
\* bar tries all snacks again and again unless its own error stops it.
TheFeedDrains == service = "listener" => FeedDrains

TheWorkerGoesOn == service = "snack bar" => OnlyItsOwnErrorStopsTheWorker
==============================================================================
