----------------------------- MODULE MCGateway -----------------------------
(***************************************************************************)
(* Gateway as TLC runs it, and a sentence of the repository about it that  *)
(* the handlers do not keep.                                               *)
(***************************************************************************)
EXTENDS Gateway

\* After an audit revoked a trace, "subsequent requests" of that trace are
\* short-circuited to SUSPEND (revoke.py), through whichever endpoint.
EveryEndpointStopsRevoked ==
  \A r \in Request :
    Decided(r) /\ stopped[r] => verdict[r] \in {"SUSPEND", "DENY"}
=============================================================================
