----------------------------- MODULE MCSmlActor -----------------------------
(* Instances of SmlActor: an actor of the user, and machines with different tables. *)
EXTENDS SmlActor

SomeTables ==
    { <<>>,
      <<"initial", "SmlStartReq", "SmlStartCnf">>,
      <<"SmlStopCnf", "SmlStopReq">>,
      <<"SmlStopReq", "SmlStartCnf">> }
NoTable == {<<>>}
=============================================================================
