----------------------------- MODULE RiderPool -----------------------------
(***************************************************************************)
(* rider-service (internal/rider) and the position updates of              *)
(* location-service that touch the same Redis index (internal/location).   *)
(*                                                                         *)
(* SetStatus commits to Postgres first and then calls Redis; the two are   *)
(* separate steps, and the calls of several requests interleave.           *)
(***************************************************************************)
EXTENDS Store

CONSTANTS
  RiderRequests,  \* slots for concurrent PATCH /riders/:id/status requests
  MaxStints,      \* bound: how often one rider becomes AVAILABLE
  CoordsGiven     \* whether requests carry lat/lng: a subset of BOOLEAN

ASSUME MaxStintsAssumption == MaxStints \in Nat
ASSUME CoordsAssumption == CoordsGiven \subseteq BOOLEAN

VARIABLE riderRequests  \* riderRequests[q]: [pc, rider, to]

NoRiderRequest == [pc |-> "idle", rider |-> NoRider, to |-> "OFFLINE"]

RiderRequestsTypeOK ==
  riderRequests \in [RiderRequests ->
    {NoRiderRequest} \union [pc : {"redis"}, rider : Riders, to : RiderStatuses]]

RiderPoolInit == riderRequests = [q \in RiderRequests |-> NoRiderRequest]

Register(r) ==
  /\ riders[r] = "UNREGISTERED"
  /\ riders' = [riders EXCEPT ![r] = "OFFLINE"]
  /\ UNCHANGED <<tables, geo, stint, faults, riderRequests>>

\* repository.SetStatus: the UPDATE has no guard on the current status and
\* does not look at the orders the rider carries.  Only then does the
\* service look at the coordinates: without them an AVAILABLE request ends
\* in an error although the row is already AVAILABLE.
SetStatus(q, r, s, coords) ==
  /\ riderRequests[q] = NoRiderRequest
  /\ riders[r] # "UNREGISTERED"
  /\ riders' = [riders EXCEPT ![r] = s]
  /\ IF s = "AVAILABLE" /\ riders[r] # "AVAILABLE"
       THEN /\ stint[r] < MaxStints
            /\ stint' = [stint EXCEPT ![r] = @ + 1]
       ELSE UNCHANGED stint
  /\ IF s = "AVAILABLE" /\ ~coords
       THEN UNCHANGED riderRequests
       ELSE riderRequests' = [riderRequests EXCEPT ![q] =
              [pc |-> "redis", rider |-> r, to |-> s]]
  /\ UNCHANGED <<tables, geo, faults>>

\* GEOADD for AVAILABLE, ZREM for OFFLINE and BUSY.
SyncGeo(q) ==
  LET r == riderRequests[q].rider
  IN  /\ riderRequests[q].pc = "redis"
      /\ geo' = IF riderRequests[q].to = "AVAILABLE" THEN geo \union {r}
                                                     ELSE geo \ {r}
      /\ riderRequests' = [riderRequests EXCEPT ![q] = NoRiderRequest]
      /\ UNCHANGED <<tables, riders, stint, faults>>

\* The Redis call fails (the error of a ZREM is dropped), GEOADD refuses the
\* coordinates, or the process dies before the call.
SyncGeoFail(q) ==
  /\ riderRequests[q].pc = "redis"
  /\ Fault
  /\ riderRequests' = [riderRequests EXCEPT ![q] = NoRiderRequest]
  /\ UNCHANGED <<tables, riders, geo, stint>>

\* location.Service.UpdateLocation: GEOADD whatever the rider's status is,
\* and whether or not the riders table has the rider.
UpdateLocation(r) ==
  /\ geo' = geo \union {r}
  /\ UNCHANGED <<tables, riders, stint, faults, riderRequests>>

RiderServiceNext ==
  \/ \E r \in Riders : Register(r)
  \/ \E q \in RiderRequests, r \in Riders, s \in RiderStatuses,
        coords \in CoordsGiven : SetStatus(q, r, s, coords)
  \/ \E q \in RiderRequests : SyncGeo(q) \/ SyncGeoFail(q)

\* The read loop of /ws/rider/:rider_id.  Messages of another type or without
\* coordinates are answered with an error and change nothing.
LocationServiceNext == \E r \in Riders : UpdateLocation(r)

RiderPoolNext == RiderServiceNext \/ LocationServiceNext

=============================================================================
