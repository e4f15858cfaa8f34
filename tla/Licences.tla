-------------------------------- MODULE Licences --------------------------------
(***************************************************************************)
(* A pool of licences and the seats given out of it, services/              *)
(* asset_service.py. The row of the pool carries a counter of used seats    *)
(* beside the rows of its assignments; only assign_license keeps the two    *)
(* together. Deleting an asset deletes its assignments and leaves the       *)
(* counter, so a seat that was used once is not given out again.            *)
(***************************************************************************)
EXTENDS Naturals, FiniteSets

CONSTANTS Assets, Threads, NoAsset,
          MaxSeats,      \* bound on the size of the pool
          MaxAssigned    \* bound on the assignments after which nobody asks for another

VARIABLES pool,       \* the License row
          assigned,   \* asset, or NoAsset -> the number of its LicenseAssignment rows
          asset,      \* the assets that exist
          request,    \* what a request for a seat holds
          patched,    \* history: an operator set the counter, or a total below it
          raced       \* history: a seat was given on a row that had changed meanwhile

licenceVars == <<pool, assigned, asset, request, patched, raced>>

Holders == Assets \union {NoAsset}
Pool == [live : BOOLEAN, total : 0..MaxSeats, used : 0..MaxSeats]
Idle == [pc |-> "idle"]

TypeOK ==
  /\ pool \in Pool
  /\ assigned \in [Holders -> Nat]
  /\ asset \subseteq Assets
  /\ request \in [Threads -> {Idle} \union [pc : {"assigns"}, of : Holders, read : Pool]]
  /\ {patched, raced} \subseteq BOOLEAN

Init ==
  /\ pool \in [live : {TRUE}, total : 1..MaxSeats, used : {0}]
  /\ assigned = [a \in Holders |-> 0] /\ asset = Assets
  /\ request = [t \in Threads |-> Idle]
  /\ patched = FALSE /\ raced = FALSE

\* The LicenseAssignment rows of the pool, numbered for each holder.
Assignments == UNION {{a} \X (1..assigned[a]) : a \in Holders}
Seats == Cardinality(Assignments)

---------------------------------------------------------------------------
(* assign_license *)

\* Mutant: the last seat is given twice.
Free_OffByOne == pool.used <= pool.total
Free == pool.used < pool.total

\* The row is read; a seat of an asset or of a person.
Ask(t, a) ==
  /\ request[t] = Idle /\ pool.live /\ Free /\ Seats < MaxAssigned
  /\ request' = [request EXCEPT ![t] = [pc |-> "assigns", of |-> a, read |-> pool]]
  /\ UNCHANGED <<pool, assigned, asset, patched, raced>>

\* The counter that was read, one higher, and the assignment are committed together. A pool
\* or an asset that is gone by now makes the commit fail.
Assign(t) ==
  LET r == request[t] IN
  /\ r.pc = "assigns"
  /\ request' = [request EXCEPT ![t] = Idle]
  /\ IF pool.live /\ r.of \in asset \union {NoAsset}
       THEN /\ pool' = [pool EXCEPT !.used = r.read.used + 1]
            /\ assigned' = [assigned EXCEPT ![r.of] = @ + 1]
            /\ raced' = (raced \/ pool /= r.read)
       ELSE UNCHANGED <<pool, assigned, raced>>
  /\ UNCHANGED <<asset, patched>>

---------------------------------------------------------------------------
(* update_license, delete_license, delete_asset *)

Patch ==
  /\ pool.live
  /\ \/ \E n \in 1..MaxSeats : pool' = [pool EXCEPT !.total = n]
     \/ \E n \in 0..MaxSeats : pool' = [pool EXCEPT !.used = n]
  /\ patched' = (patched \/ pool'.used /= pool.used \/ pool'.total < pool.used)
  /\ UNCHANGED <<assigned, asset, request, raced>>

DeletePool ==
  /\ pool.live
  /\ pool' = [pool EXCEPT !.live = FALSE]
  /\ assigned' = [a \in Holders |-> 0]
  /\ UNCHANGED <<asset, request, patched, raced>>

DeleteAsset(a) ==
  /\ a \in asset
  /\ asset' = asset \ {a}
  /\ assigned' = [assigned EXCEPT ![a] = 0]
  /\ UNCHANGED <<pool, request, patched, raced>>

Next ==
  \/ \E t \in Threads, a \in asset \union {NoAsset} : Ask(t, a)
  \/ \E t \in Threads : Assign(t)
  \/ Patch \/ DeletePool
  \/ \E a \in Assets : DeleteAsset(a)

---------------------------------------------------------------------------
(* Every seat that is in use is counted, and no more are in use than were   *)
(* bought, whatever is assigned, deleted and bought or given up meanwhile;  *)
(* excepted are counters an operator set, totals lowered below the seats in *)
(* use, and requests for a seat that overlap each other or such an edit.    *)

SeatsAreCounted == ~patched /\ ~raced => Seats <= pool.used /\ pool.used <= pool.total

\* Why: a request that is about to assign a seat has read a free one.
Inv ==
  /\ TypeOK /\ SeatsAreCounted
  /\ \A t \in Threads : request[t].pc = "assigns" => request[t].read.used < request[t].read.total
===============================================================================
