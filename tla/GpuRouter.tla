----------------------------- MODULE GpuRouter ------------------------------
(***************************************************************************)
(* GPURouter of src/gpu/gpu_router.cpp and the two choices it asks of      *)
(* DeviceManager: on which devices a request is placed, and the per-device *)
(* budget of KV memory it is accounted against.                            *)
(*                                                                         *)
(* A budget is the record [used, reserved] of GPUBudget.  Its counters are *)
(* size_t: they wrap modulo Word, the number of values of that type.  Each *)
(* member function holds budget_mutex_ throughout; it is an operator from  *)
(* the budgets before to the budgets after.                                *)
(***************************************************************************)
EXTENDS Integers, Sequences, FiniteSets

CONSTANTS
  DeviceList,   \* device_manager_->devices(), in order
  Budget,       \* total_memory of every device
  TPThreshold,  \* config_.context_threshold_for_tp
  Word          \* the number of size_t values

RouterDevices == {DeviceList[i] : i \in DOMAIN DeviceList}

ASSUME RouterAssumption ==
  /\ DeviceList \in Seq(RouterDevices) /\ DeviceList # <<>>
  /\ \A i, j \in DOMAIN DeviceList : DeviceList[i] = DeviceList[j] => i = j
  /\ Budget \in Nat /\ TPThreshold \in Nat
  /\ Word \in Nat /\ Budget < Word

\* initialize_budgets.
InitBudgets == [d \in RouterDevices |-> [used |-> 0, reserved |-> 0]]

\* available() and can_fit(bytes) of one GPUBudget.
Available(b) ==
  IF (b.used + b.reserved) % Word >= Budget THEN 0
  ELSE (Budget - b.used - b.reserved) % Word
CanFit(b, size) == Available(b) >= size

\* recommend_strategy(context_length).
Strategy(n) ==
  IF n > TPThreshold /\ Len(DeviceList) >= 2
  THEN "TensorParallel" ELSE "PerRequest"

\* can_place(request, total_bytes, per_device_bytes).
CanPlace(bs, n, size, perDevice) ==
  IF Strategy(n) = "TensorParallel"
  THEN LET share == IF perDevice > 0 THEN perDevice
                                     ELSE size \div Len(DeviceList)
       IN  \A d \in RouterDevices : CanFit(bs[d], share)
  ELSE \E d \in RouterDevices : CanFit(bs[d], size)

\* select_device() when the counter has been taken rr times before.
SelectDevice(rr) == DeviceList[(rr % Len(DeviceList)) + 1]

\* The first device with the most memory available, or the round-robin
\* choice when none has any.
BestDevice(bs, rr) ==
  LET avail(i) == Available(bs[DeviceList[i]])
  IN  IF \A i \in DOMAIN DeviceList : avail(i) = 0 THEN SelectDevice(rr)
      ELSE DeviceList[CHOOSE i \in DOMAIN DeviceList :
             \A j \in DOMAIN DeviceList :
               avail(j) <= avail(i) /\ (j < i => avail(j) < avail(i))]

\* The devices of route(request).
Route(bs, n, rr) ==
  IF Strategy(n) = "TensorParallel" THEN RouterDevices ELSE {BestDevice(bs, rr)}

\* per_device without the division among the devices.
MutShare(D, size) == size

\* per_device of reserve, commit, unreserve and free: only a tensor-parallel
\* request has more than one device.
Share(D, size) ==
  IF Cardinality(D) > 1 THEN size \div Cardinality(D) ELSE size

\* The counters moved by (u, v) on each device of D.
Move(bs, D, u, v) ==
  [d \in RouterDevices |->
     IF d \in D THEN [used |-> (bs[d].used + u) % Word,
                      reserved |-> (bs[d].reserved + v) % Word]
     ELSE bs[d]]

Reserve(bs, D, size) == Move(bs, D, 0, Share(D, size))

Commit(bs, D, size) == Move(bs, D, Share(D, size), -Share(D, size))

Unreserve(bs, D, size) == Move(bs, D, 0, -Share(D, size))

FreeBudget(bs, D, size) == Move(bs, D, -Share(D, size), 0)

=============================================================================
