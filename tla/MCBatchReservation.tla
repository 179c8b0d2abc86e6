------------------------- MODULE MCBatchReservation -------------------------
(* Model-checking instances of BatchReservation: what the requests ask for. *)
EXTENDS BatchReservation, TLC

Asks(tenant, key, v, assets) ==
  [tenant |-> tenant, key |-> key, vehicle |-> v, assets |-> assets, options |-> "Studio"]

Garage == "a1" :> "v1" @@ "a2" :> "v1" @@ "b1" :> "v2"
OneTenant == "v1" :> "t1" @@ "v2" :> "t1"

(* A request, its retry, another batch of the same vehicle, the first        *)
(* request's key used again for another vehicle, and a batch too large.    *)
Races == "r1" :> Asks("t1", "k1", "v1", {"a1", "a2"})
      @@ "r2" :> Asks("t1", "k1", "v1", {"a1", "a2"})
      @@ "r3" :> Asks("t1", "k2", "v1", {"a1"})
      @@ "r4" :> Asks("t1", "k1", "v2", {"b1"})
      @@ "r5" :> Asks("t1", "k3", "v2", {"a1", "a2", "b1"})

(* Two vehicles of one tenant compete for its allowance, and one request has *)
(* a long key.                                                             *)
Rivals == "r1" :> Asks("t1", "k1", "v1", {"a1", "a2"})
       @@ "r2" :> Asks("t1", "k2", "v2", {"b1"})
       @@ "r3" :> Asks("t1", "k3", "v2", {"b1"})
=============================================================================
